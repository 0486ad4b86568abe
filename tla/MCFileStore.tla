---------------------------- MODULE MCFileStore ----------------------------
(* Small workloads for the file store; the cfg files bind them. *)
EXTENDS FileStore, TLC

CONSTANTS h1, h2, p1, p2, a, b, c, x

\* Two processes store h1 at the same time, one of them stores h2 as well
\* and loads h1 through the same descriptor table.
RaceStores    == {a, b, c}
RaceLoads     == {x}
RaceStoreProc == [s \in RaceStores |-> IF s = b THEN p2 ELSE p1]
RaceStoreHash == [s \in RaceStores |-> IF s = c THEN h2 ELSE h1]
RaceLoadProc  == [l \in RaceLoads |-> p1]
RaceLoadHash  == [l \in RaceLoads |-> h1]

\* The two stores of h1, and a load of it in the other process.
TwinStores    == {a, b}
TwinLoads     == {x}
TwinStoreProc == [s \in TwinStores |-> IF s = b THEN p2 ELSE p1]
TwinStoreHash == [s \in TwinStores |-> h1]
TwinLoadProc  == [l \in TwinLoads |-> p2]
TwinLoadHash  == [l \in TwinLoads |-> h1]

FdSymmetry == Permutations(Fds)
=============================================================================
