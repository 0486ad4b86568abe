--------------------------- MODULE MCStagingCache ---------------------------
(* Interchangeable hashes, slots and copies for the staging cache. *)
EXTENDS StagingCache, TLC

Interchangeable == Permutations(Hashes) \cup Permutations(Slots) \cup Permutations(Copies)
=============================================================================
