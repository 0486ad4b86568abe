----------------------------- MODULE MCHandler -----------------------------
(* Small workloads for the handler; the cfg files bind them. *)
EXTENDS Handler

CONSTANTS h1, h2, s, l

\* A store of two storage blocks, and a load that begins in the middle of the
\* first of them and goes, in another order, to blocks the store has used.
TwoJobs    == {s, l}
TwoKind    == [j \in TwoJobs |-> IF j = s THEN "store" ELSE "load"]
TwoHashes  == [j \in TwoJobs |-> <<h1, h2>>]
TwoBlocks  == [j \in TwoJobs |-> IF j = s THEN <<1, 2, 3, 4>> ELSE <<4, 5, 1>>]
TwoFirst   == [j \in TwoJobs |-> IF j = s THEN 0 ELSE 1]
=============================================================================
