--------------------------- MODULE SlotRetention ---------------------------
(***************************************************************************)
(* What the reactor needs of the staging cache, whatever the policy: a     *)
(* slot stays under its hash until it is evicted or everything is drained, *)
(* no entry is evicted that a copy reads, an eviction fails only if every  *)
(* entry is read, and only then does the cache outgrow its capacity.       *)
(***************************************************************************)
EXTENDS Naturals, FiniteSets

CONSTANTS Hashes, Slots, Copies, NoSlot, Idle, Orphan

VARIABLES
  capacity,
  slots,    \* slot retained for each hash, or NoSlot
  copies    \* the hash whose entry each copy reads, Idle, or Orphan: drained

rvars == <<capacity, slots, copies>>

Resident  == {h \in Hashes : slots[h] # NoSlot}
Pinned(h) == \E c \in Copies : copies[c] = h
Evictable == {h \in Resident : ~Pinned(h)}
Full      == Cardinality(Resident) >= capacity

Init == /\ capacity \in Nat
        /\ slots = [h \in Hashes |-> NoSlot] /\ copies = [c \in Copies |-> Idle]

\* A new entry; one entry makes room for it if the cache is full.
Retain(h, s) ==
  /\ h \notin Resident /\ capacity > 0 /\ \A g \in Hashes : slots[g] # s
  /\ \/ /\ ~Full \/ Evictable = {}
        /\ slots' = [slots EXCEPT ![h] = s]
     \/ /\ Full
        /\ \E v \in Evictable : slots' = [slots EXCEPT ![v] = NoSlot, ![h] = s]
  /\ UNCHANGED <<capacity, copies>>

Evict ==
  /\ \E v \in Evictable : slots' = [slots EXCEPT ![v] = NoSlot]
  /\ UNCHANGED <<capacity, copies>>

CopyStarts(c) ==
  /\ copies[c] = Idle
  /\ \E h \in Resident : copies' = [copies EXCEPT ![c] = h]
  /\ UNCHANGED <<capacity, slots>>

CopyEnds(c) ==
  /\ copies[c] # Idle /\ copies' = [copies EXCEPT ![c] = Idle]
  /\ UNCHANGED <<capacity, slots>>

Drain ==
  /\ slots' = [h \in Hashes |-> NoSlot]
  /\ copies' = [c \in Copies |-> IF copies[c] = Idle THEN Idle ELSE Orphan]
  /\ UNCHANGED capacity

Next == \/ \E h \in Hashes, s \in Slots : Retain(h, s)
        \/ Evict \/ Drain
        \/ \E c \in Copies : CopyStarts(c) \/ CopyEnds(c)

Spec == Init /\ [][Next]_rvars
=============================================================================
