---------------------------- MODULE StagingCache ----------------------------
(***************************************************************************)
(* StagingDataCache with its two policies, LruPolicy and ArcPolicy: the    *)
(* cache of Reactor with the order in which it chooses its victims.  The   *)
(* reactor, which offers slots and starts and ends copies, is reduced to   *)
(* the calls it makes.                                                     *)
(***************************************************************************)
EXTENDS Integers, FiniteSets, OrderedKeys

CONSTANTS
  Hashes, Slots, Copies, NoSlot, Idle, Orphan,   \* as in SlotRetention
  Capacities                                     \* capacities it is built with

VARIABLES
  kind,               \* the policy
  capacity, slots, copies,
  pol,                \* the policy's lists, oldest first (LRU: t1), and ARC's p
  free,               \* slots outside the cache
  recent, uses        \* history: hashes by their last use; uses since forgotten, at most 2

vars == <<kind, capacity, slots, copies, pol, free, recent, uses>>

ASSUME CacheAssumption == Capacities \subseteq Nat /\ NoSlot \notin Slots

Resident  == {h \in Hashes : slots[h] # NoSlot}
Pinned(h) == \E c \in Copies : copies[c] = h

Larger(m, n)  == IF m > n THEN m ELSE n
Smaller(m, n) == IF m < n THEN m ELSE n

(* --- the policies ------------------------------------------------------- *)

ArcSize == Larger(1, capacity)
Empty == [t1 |-> <<>>, t2 |-> <<>>, b1 |-> <<>>, b2 |-> <<>>, p |-> 0]

Known(q) == UNION {Range(q.t1), Range(q.t2), Range(q.b1), Range(q.b2)}

\* _trim_ghosts
Trim(q) == SubSeq(q, Larger(0, Len(q) - ArcSize) + 1, Len(q))
TrimGhosts(q) == [q EXCEPT !.b1 = Trim(@), !.b2 = Trim(@)]

\* How far a ghost hit moves the target.
Delta(hit, other) == Larger(1, Len(other) \div Larger(1, Len(hit)))

\* A key that is used again.
Reused(q, h) == [q EXCEPT !.t2 = Append(@, h)]

\* Mutant of Admit: a ghost hit is taken for a new key.
AdmitAsNew(q, h) ==
  IF kind = "lru" THEN [q EXCEPT !.t1 = ToEnd(@, h)]
  ELSE TrimGhosts([q EXCEPT !.t1 = Append(@, h), !.b1 = Drop(@, h), !.b2 = Drop(@, h)])

Admit(q, h) ==
  IF kind = "lru" THEN [q EXCEPT !.t1 = ToEnd(@, h)]
  ELSE TrimGhosts(
    CASE h \in Range(q.b1) ->
           [Reused(q, h) EXCEPT !.p = Smaller(ArcSize, @ + Delta(q.b1, q.b2)),
                                !.b1 = Drop(@, h)]
      [] h \in Range(q.b2) ->
           [Reused(q, h) EXCEPT !.p = Larger(0, @ - Delta(q.b2, q.b1)),
                                !.b2 = Drop(@, h)]
      [] OTHER -> [q EXCEPT !.t1 = Append(@, h)])

\* Touch is called for resident keys only.
Touch(q, h) ==
  IF kind = "lru" THEN [q EXCEPT !.t1 = ToEnd(@, h)]
  ELSE IF h \in Range(q.t1) THEN [Reused(q, h) EXCEPT !.t1 = Drop(@, h)]
  ELSE [q EXCEPT !.t2 = ToEnd(@, h)]

Evicted(q, h) ==
  IF kind = "lru" THEN [q EXCEPT !.t1 = Drop(@, h)]
  ELSE TrimGhosts(IF h \in Range(q.t1)
                    THEN [q EXCEPT !.t1 = Drop(@, h), !.b1 = Append(@, h)]
                    ELSE [q EXCEPT !.t2 = Drop(@, h), !.b2 = Append(@, h)])

\* REPLACE: T1 is drained first while it is longer than its target.
Victims(q) ==
  IF kind = "lru" \/ Len(q.t1) > q.p THEN q.t1 \o q.t2 ELSE q.t2 \o q.t1

(* --- the cache ---------------------------------------------------------- *)

\* Mutant of Candidates: an entry a copy reads is taken as well.
CandidatesAll == DOMAIN Victims(pol)

\* What evict_one looks for: the victims that are retained and no copy reads,
\* by their places in the policy's order, of which it takes the first.
Candidates == {i \in DOMAIN Victims(pol) :
                 slots[Victims(pol)[i]] # NoSlot /\ ~Pinned(Victims(pol)[i])}
FirstVictim == Victims(pol)[CHOOSE i \in Candidates : \A k \in Candidates : i <= k]

\* The uses of h count from the time the policy, at mid, still knew it.
Used(h, mid, q) ==
  /\ recent' = ToEnd(recent, h)
  /\ uses' = [g \in Hashes |->
       CASE g = h /\ h \in Known(mid)    -> Smaller(2, uses[h] + 1)
         [] g = h /\ h \notin Known(mid) -> 1
         [] g # h                       -> IF g \in Known(q) THEN uses[g] ELSE 0]

Init ==
  /\ kind \in {"lru", "arc"} /\ capacity \in Capacities
  /\ slots = [h \in Hashes |-> NoSlot] /\ copies = [c \in Copies |-> Idle]
  /\ pol = Empty /\ free = Slots
  /\ recent = <<>> /\ uses = [h \in Hashes |-> 0]

\* put of a hash that is retained already, or in a cache without capacity:
\* the slot goes back.
PutRefused(h, s) ==
  /\ s \in free /\ (capacity = 0 \/ h \in Resident)
  /\ UNCHANGED vars

\* Mutant of Keep: the slot of the victim is not given back.
KeepLeaks(h, s, v) == free' = free \ {s}

\* put: the new entry takes s, the victim's slot is handed back.
Keep(h, s, v) == free' = (free \ {s}) \cup {slots[g] : g \in v}

Put(h, s) ==
  /\ s \in free /\ capacity > 0 /\ h \notin Resident
  /\ LET full == Cardinality(Resident) >= capacity
         v == IF full /\ Candidates # {} THEN {FirstVictim} ELSE {}
         mid == IF v = {} THEN pol ELSE Evicted(pol, FirstVictim)
         q == Admit(mid, h)
     IN  /\ slots' = [g \in Hashes |->
                        IF g = h THEN s ELSE IF g \in v THEN NoSlot ELSE slots[g]]
         /\ pol' = q /\ Keep(h, s, v) /\ Used(h, mid, q)
  /\ UNCHANGED <<kind, capacity, copies>>

\* The reactor needs a slot.
EvictOne ==
  /\ Candidates # {}
  /\ LET v == FirstVictim q == Evicted(pol, v)
     IN  /\ slots' = [slots EXCEPT ![v] = NoSlot] /\ free' = free \cup {slots[v]}
         /\ pol' = q
         /\ uses' = [g \in Hashes |-> IF g \in Known(q) THEN uses[g] ELSE 0]
  /\ UNCHANGED <<kind, capacity, copies, recent>>

\* get and pin: a copy reads the entry.
CopyStarts(c, h) ==
  /\ copies[c] = Idle /\ h \in Resident
  /\ copies' = [copies EXCEPT ![c] = h]
  /\ pol' = Touch(pol, h) /\ Used(h, pol, pol')
  /\ UNCHANGED <<kind, capacity, slots, free>>

\* unpin
CopyEnds(c) ==
  /\ copies[c] # Idle /\ copies' = [copies EXCEPT ![c] = Idle]
  /\ UNCHANGED <<kind, capacity, slots, pol, free, recent, uses>>

\* drain: the entries go, their copies keep the entry they hold to themselves.
Drain ==
  /\ Resident # {}
  /\ slots' = [h \in Hashes |-> NoSlot] /\ free' = free \cup {slots[h] : h \in Resident}
  /\ copies' = [c \in Copies |-> IF copies[c] = Idle THEN Idle ELSE Orphan]
  /\ pol' = Empty /\ recent' = <<>> /\ uses' = [h \in Hashes |-> 0]
  /\ UNCHANGED <<kind, capacity>>

Next ==
  \/ \E h \in Hashes, s \in Slots : PutRefused(h, s) \/ Put(h, s)
  \/ EvictOne \/ Drain
  \/ \E c \in Copies : CopyEnds(c) \/ \E h \in Hashes : CopyStarts(c, h)

Spec == Init /\ [][Next]_vars

(* --- properties --------------------------------------------------------- *)

\* The policy's lists and the table of slots are changed by different calls,
\* yet the lists hold exactly the retained hashes, each once, no ghost is
\* retained and the ghosts are bounded.
PolicyMatchesSlots ==
  /\ Range(pol.t1) \cup Range(pol.t2) = Resident
  /\ Len(pol.t1) + Len(pol.t2) + Len(pol.b1) + Len(pol.b2) = Cardinality(Known(pol))
  /\ Len(pol.b1) <= ArcSize /\ Len(pol.b2) <= ArcSize /\ pol.p \in 0..ArcSize

\* A slot is in the cache under one hash or was handed back to the caller,
\* never both and never neither.
SlotsConserved ==
  /\ free = Slots \ {slots[h] : h \in Resident}
  /\ \A g, h \in Resident : slots[g] = slots[h] => g = h

\* Nothing is lost between policy, table and pool: an entry the policy has
\* lost could never be evicted, one it keeps after the eviction hides those
\* behind it (staging_cache.py:200), and a slot that put or evict_one does not
\* hand back is gone (staging_cache.py:174 "Returns a slot index the caller
\* must release").
EntriesExact == PolicyMatchesSlots /\ SlotsConserved

\* Each list is in the order of last use, through hits and evictions.
RecencyOrder ==
  \A q \in {pol.t1, pol.t2} : \A g, h \in Hashes : Before(q, g, h) => Before(recent, g, h)

\* Keys used once since the policy learned of them are in T1 or its ghosts,
\* keys used again in T2 or its ghosts.
ReusedInT2 ==
  kind = "arc" =>
    /\ \A h \in Range(pol.t1) \cup Range(pol.b1) : uses[h] = 1
    /\ \A h \in Range(pol.t2) \cup Range(pol.b2) : uses[h] = 2

\* The lists say what the policy promises: order of last use, and scan
\* resistance (staging_cache.py:61).  put evicts before it admits, so a ghost
\* that the eviction pushes out counts as forgotten even when it is the key
\* that comes back.
PolicyOrder == RecencyOrder /\ ReusedInT2

\* Either policy is a way to choose among the entries no copy reads: the
\* cache Reactor is checked with.
Retention == INSTANCE SlotRetention
ImplementsRetention == Retention!Spec
=============================================================================
