----------------------------- MODULE MCReactor -----------------------------
(***************************************************************************)
(* Small workloads for the reactor.  The names of a workload are           *)
(* definitions the cfg files bind to the constants.                        *)
(***************************************************************************)
EXTENDS Reactor, TLC

CONSTANTS h1, h2, h3, h4, r1, r2

SlotSymmetry == Permutations(Slots)

\* A store of h1 races a load of h1 and h2 that was announced by a preload;
\* a second request announces h1 and never loads it.
MixJobs   == {"store", "load"}
MixPre    == {"pa", "pb"}
MixKind   == [j \in MixJobs |-> j]
MixReq    == [j \in MixJobs |-> IF j = "store" THEN r1 ELSE r2]
MixHashes == [j \in MixJobs |-> IF j = "store" THEN <<h1>> ELSE <<h1, h2>>]
MixPreReq == [p \in MixPre |-> IF p = "pa" THEN r2 ELSE r1]
MixPreHashes == [p \in MixPre |-> IF p = "pa" THEN <<h1, h2>> ELSE <<h1>>]

\* Two loads and a store compete for the slots; both loads were announced.
RushJobs   == {"write", "long", "short"}
RushPre    == {"pa", "pb"}
RushKind   == [j \in RushJobs |-> IF j = "write" THEN "store" ELSE "load"]
RushReq    == [j \in RushJobs |-> IF j = "long" THEN r2 ELSE r1]
RushHashes == [write |-> <<h1>>, long |-> <<h2, h1>>, short |-> <<h2>>]
RushPreReq == [p \in RushPre |-> IF p = "pa" THEN r2 ELSE r1]
RushPreHashes == [pa |-> <<h2, h1>>, pb |-> <<h2>>]

\* One request announces four blocks, another loads three of them; the first,
\* h1, is only being stored.  With two slots the loaded blocks stay staged for
\* the first request, and a late open of h1 has no slot to be read into.
QueueJobs   == {"store", "load"}
QueueKind   == [j \in QueueJobs |-> j]
QueueReq    == [j \in QueueJobs |-> r1]
QueueHashes == [j \in QueueJobs |-> IF j = "store" THEN <<h1>> ELSE <<h2, h3, h4>>]
QueuePreReq    == [p \in {"pa"} |-> r2]
QueuePreHashes == [p \in {"pa"} |-> <<h1, h2, h3, h4>>]
=============================================================================
