----------------------------- MODULE MCManager -----------------------------
(* Small workloads for the manager and its planner; the cfg files bind them. *)
EXTENDS Manager

CONSTANTS h1, h2, a, b

\* The prompt of a is the beginning of that of b.
ChainKeys  == [r \in {a, b} |-> IF r = a THEN <<h1>> ELSE <<h1, h2>>]
ShortFirst == <<a, b>>

SomeJobs == {<<>>, <<2>>}

\* Reading a block takes two ticks, copying none, computing more.
ReadCost    == [n \in 0..2 |-> 2 * n]
CopyCost    == [n \in 0..2 |-> 0]
ComputeCost == [n \in 0..2 |-> 3 * n]
=============================================================================
