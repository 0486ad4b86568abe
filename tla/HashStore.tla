----------------------------- MODULE HashStore -----------------------------
(***************************************************************************)
(* What the block files promise to a reader, without temporary names,      *)
(* descriptors or system calls: a hash is published once and for good, and *)
(* a load gets the block of its hash, or an error.                         *)
(***************************************************************************)
CONSTANTS Hashes, Loads, LoadHash, OnDisk, NoAnswer, Error

VARIABLES
  published,   \* hashes whose file is visible
  answer       \* what each load was given

svars == <<published, answer>>

Init == published = OnDisk /\ answer = [l \in Loads |-> NoAnswer]

Publish(h) == published' = published \cup {h} /\ UNCHANGED answer

Answer(l) ==
  /\ answer[l] = NoAnswer
  /\ \/ answer' = [answer EXCEPT ![l] = Error]
     \/ LoadHash[l] \in published /\ answer' = [answer EXCEPT ![l] = LoadHash[l]]
  /\ UNCHANGED published

Next == (\E h \in Hashes : Publish(h)) \/ (\E l \in Loads : Answer(l))

Spec == Init /\ [][Next]_svars
=============================================================================
