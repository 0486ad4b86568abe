----------------------------- MODULE OrderedKeys -----------------------------
(***************************************************************************)
(* Python's OrderedDict, of which only the keys and their order are used:  *)
(* the lists of the cache policies and the preload ids of the handler.  A  *)
(* dictionary is the sequence of its keys, the oldest first.               *)
(***************************************************************************)
EXTENDS Integers, SequencesExt

\* pop: the key goes, the others keep their order.
Place(q, key) == CHOOSE i \in DOMAIN q : q[i] = key
Drop(q, key)  == IF key \in Range(q) THEN RemoveAt(q, Place(q, key)) ELSE q

\* move_to_end of a key; a new one is added there.
ToEnd(q, key) == Append(Drop(q, key), key)

\* a comes before b.
Before(q, a, b) == \E i, k \in DOMAIN q : i < k /\ q[i] = a /\ q[k] = b
=============================================================================
