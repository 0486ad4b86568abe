---------------------------- MODULE LoadPlanner ----------------------------
(***************************************************************************)
(* LoadPlanner.plan: for every waiting request, load its prefix now        *)
(* (ADMIT), wait while it is read into DRAM (DEFER), or recompute it       *)
(* (DECLINE).  The planner keeps a model of the storage queue of its own:  *)
(* the shadow entries.  Every instant the code keeps is compared with the  *)
(* clock only, so an instant is held here as the time left until it, never *)
(* below 0, and Tick lets time pass.  One plan call is a run of steps, one *)
(* per candidate; `call` holds its local variables.                        *)
(***************************************************************************)
EXTENDS Integers, Sequences, FiniteSets, SequencesExt

CONSTANTS
  Reqs, Hashes,
  MaxBlocks,           \* last index of the cost tables
  Service,             \* seconds to read n blocks from storage
  LoadMem,             \* seconds to copy n blocks to the GPU
  Recompute,           \* seconds to compute n blocks anew
  MaxPreloadSlots, Tolerance, MinGrace, MaxGrace,
  AbsenceLimit         \* _STAGED_ABSENCE_LIMIT

ASSUME PlannerAssumption ==
  /\ MaxBlocks \in Nat /\ {MaxPreloadSlots, Tolerance, AbsenceLimit} \subseteq Nat
  /\ {MinGrace, MaxGrace} \subseteq Nat \ {0}
  /\ {Service, LoadMem, Recompute} \subseteq [0..MaxBlocks -> Nat]

VARIABLES
  entries,     \* _entries: reads of the shadow queue, in order
  staged,      \* _staged: requests modelled as read, with their absences
  deadline,    \* _deadline_at and _deadline_absent
  decisions,   \* _decisions of the last plan
  call         \* local variables of the plan call under way, or NoCall

planner == <<entries, staged, deadline, decisions, call>>

NoCall == [todo |-> <<>>]
Planning == call # NoCall
Empty == [x \in {} |-> 0]
MinOf(a, b) == IF a < b THEN a ELSE b
MaxOf(a, b) == IF a > b THEN a ELSE b

Cost(table, n) == table[MinOf(n, MaxBlocks)]
With(f, x, v)  == [y \in DOMAIN f \cup {x} |-> IF y = x THEN v ELSE f[y]]
Without(f, S)  == [y \in DOMAIN f \ S |-> f[y]]

PlannerInit ==
  /\ entries = <<>> /\ staged = Empty /\ deadline = Empty
  /\ decisions = Empty /\ call = NoCall

(* --- the start of a call ------------------------------------------------ *)

Residual(es) == IF es = <<>> THEN 0 ELSE Last(es).endsIn

JobsFloor(jobs) == FoldSeq(LAMBDA n, s : s + Cost(Service, n), 0, jobs)

\* The reads at the head of the queue that have ended by now.
Due == {i \in DOMAIN entries : \A k \in 1..i : entries[k].endsIn = 0}
Retired == {entries[i].req : i \in Due}

AbsentFor(n, r, present) == IF r \in present THEN 0 ELSE n + 1

\* Retired reads become hints; hints of requests long absent are dropped.
GcStaged(present) ==
  LET hint == [r \in DOMAIN staged \cup Retired |->
                 AbsentFor(IF r \in Retired THEN 0 ELSE staged[r], r, present)]
  IN  Without(hint, {r \in DOMAIN hint : hint[r] > AbsenceLimit})

GcDeadlines(present) ==
  LET aged == [r \in DOMAIN deadline |->
                 [deadline[r] EXCEPT !.absent = AbsentFor(@, r, present)]]
  IN  Without(aged, {r \in DOMAIN aged : aged[r].absent > AbsenceLimit})

\* A candidate: its request, the blocks to recompute, the hashes it can load
\* and whether one of them is being written.
BeginPlan(candidates, jobs) ==
  LET present == {candidates[i].req : i \in DOMAIN candidates}
      queue   == SubSeq(entries, Cardinality(Due) + 1, Len(entries))
  IN  /\ ~Planning
      /\ entries'  = queue
      /\ staged'   = GcStaged(present)
      /\ deadline' = GcDeadlines(present)
      /\ call' = [todo |-> candidates, candidates |-> candidates, decided |-> Empty,
                  gpuWait |-> 0, budget |-> MaxPreloadSlots, stagedAt |-> Empty,
                  storageWait |-> MaxOf(Residual(queue), JobsFloor(jobs))]
      /\ UNCHANGED decisions

(* --- one candidate ------------------------------------------------------ *)

cand == Head(call.todo)
Outstanding == {i \in DOMAIN entries : entries[i].req = cand.req}
OwnRead == entries[CHOOSE i \in Outstanding : TRUE]
LoadBlocks == Len(cand.hashes)

Uncovered == {h \in Range(cand.hashes) : h \notin DOMAIN call.stagedAt}
Distinct == Cardinality(Uncovered)
CoveredReady ==
  LET at == {call.stagedAt[h] : h \in Range(cand.hashes) \ Uncovered}
  IN  IF at = {} THEN 0 ELSE CHOOSE m \in at : \A a \in at : a <= m

StorageDone ==
  IF Distinct = 0 THEN CoveredReady
  ELSE MaxOf(CoveredReady, call.storageWait + Cost(Service, Distinct))
RecomputeTime == Cost(Recompute, cand.recompute)
TimeToLoad == MaxOf(StorageDone, call.gpuWait) + Cost(LoadMem, LoadBlocks)
TimeToRecompute == call.gpuWait + RecomputeTime

\* 0 distinct blocks cost nothing, whatever the table says of 0.
ReadTime == IF Distinct = 0 THEN 0 ELSE Cost(Service, Distinct)

\* When each hash of a read from start to end is delivered: spread evenly,
\* rounded up to a tick; the earliest delivery of a hash counts.
RecordStaged(hashes, start, end) ==
  LET n == Len(hashes)
      ready == [h \in Range(hashes) |->
                  LET i == CHOOSE k \in 1..n : hashes[k] = h
                  IN  start + (MaxOf(0, end - start) * i + n - 1) \div n]
  IN  [h \in DOMAIN call.stagedAt \cup Range(hashes) |->
         IF h \notin Range(hashes) THEN call.stagedAt[h]
         ELSE IF h \in DOMAIN call.stagedAt THEN MinOf(ready[h], call.stagedAt[h])
         ELSE ready[h]]

\* Mutant: the read starts at once, not behind the one before it.
AppendAtOnce ==
  entries' = Append(entries, [req |-> cand.req, startsIn |-> 0, endsIn |-> ReadTime,
                              blocks |-> LoadBlocks])
AppendShadowEntry ==
  entries' = Append(entries, [req |-> cand.req, startsIn |-> Residual(entries),
                              endsIn |-> Residual(entries) + ReadTime,
                              blocks |-> LoadBlocks])

\* Only the first deferral of a request starts its clock.
ArmDeadline(wait) ==
  deadline' = IF cand.req \in DOMAIN deadline THEN deadline
              ELSE With(deadline, cand.req,
                        [left |-> MinOf(MaxGrace, MaxOf(MinGrace, Tolerance * wait)),
                         absent |-> 0])

Expired == cand.req \in DOMAIN deadline /\ deadline[cand.req].left = 0

\* The decision on the head of the candidates, and what it charges.
Decide(decision, blocks, gpuWait, storageWait, budget, stagedAt) ==
  call' = [call EXCEPT !.todo = Tail(@), !.gpuWait = gpuWait, !.budget = budget,
             !.storageWait = storageWait, !.stagedAt = stagedAt,
             !.decided = With(@, cand.req, [decision |-> decision, blocks |-> blocks])]

Pass(decision, blocks) ==
  Decide(decision, blocks, call.gpuWait, call.storageWait, call.budget, call.stagedAt)

Candidate == Planning /\ call.todo # <<>>
Prefix(n) == SubSeq(cand.hashes, 1, MinOf(n, LoadBlocks))

\* A prefix block is being written: wait, whatever it costs, with no deadline.
DeferBlocked ==
  /\ Candidate /\ cand.blocked
  /\ \/ /\ Outstanding # {}
        /\ Decide("defer", OwnRead.blocks, call.gpuWait, call.storageWait, call.budget,
                  RecordStaged(Prefix(OwnRead.blocks), OwnRead.startsIn, OwnRead.endsIn))
        /\ UNCHANGED entries
     \/ /\ Outstanding = {} /\ Distinct <= call.budget
        /\ AppendShadowEntry
        /\ Decide("defer", LoadBlocks, call.gpuWait, call.storageWait + ReadTime,
                  call.budget - Distinct,
                  RecordStaged(cand.hashes, call.storageWait, call.storageWait + ReadTime))
     \/ /\ Outstanding = {} /\ Distinct > call.budget
        /\ Pass("defer", 0) /\ UNCHANGED entries
  /\ UNCHANGED <<staged, deadline, decisions>>

Scored == Candidate /\ ~cand.blocked /\ LoadBlocks > 0

Decline ==
  Decide("decline", 0, call.gpuWait + RecomputeTime, call.storageWait,
         call.budget, call.stagedAt)

DeclineMissing ==
  /\ Candidate /\ ~cand.blocked /\ LoadBlocks = 0
  /\ Decline
  /\ UNCHANGED <<entries, staged, deadline, decisions>>

\* The read of the request is modelled as done.
AdmitResident ==
  /\ Scored /\ cand.req \in DOMAIN staged
  /\ Pass("admit", 0)
  /\ staged' = Without(staged, {cand.req})
  /\ UNCHANGED <<entries, deadline, decisions>>

Waiting == Scored /\ cand.req \notin DOMAIN staged /\ Outstanding # {}

\* The read is modelled as under way: wait on, or load now past the deadline.
AdmitImpatient ==
  /\ Waiting /\ Expired
  /\ Pass("admit", 0)
  /\ UNCHANGED <<entries, staged, deadline, decisions>>

\* Mutant: the deadline is not looked at while the read is outstanding.
DeferPatiently ==
  /\ Waiting
  /\ Pass("defer", OwnRead.blocks)
  /\ ArmDeadline(OwnRead.endsIn)
  /\ UNCHANGED <<entries, staged, decisions>>
DeferAgain ==
  /\ Waiting /\ ~Expired
  /\ Decide("defer", OwnRead.blocks, call.gpuWait, call.storageWait, call.budget,
            RecordStaged(Prefix(OwnRead.blocks), OwnRead.startsIn, OwnRead.endsIn))
  /\ ArmDeadline(OwnRead.endsIn)
  /\ UNCHANGED <<entries, staged, decisions>>

Fresh == Scored /\ cand.req \notin DOMAIN staged /\ Outstanding = {}
BreakEven == TimeToRecompute <= TimeToLoad

DeclineBreakEven ==
  /\ Fresh /\ BreakEven
  /\ Decline
  /\ UNCHANGED <<entries, staged, deadline, decisions>>

\* Past its deadline, or with too many reads before it: load at once.  The
\* time its read ends becomes the storage wait of the next candidate.
AdmitNow ==
  /\ Fresh /\ ~BreakEven
  /\ Expired \/ Distinct > call.budget
  /\ Decide("admit", 0, call.gpuWait, StorageDone, call.budget, call.stagedAt)
  /\ UNCHANGED <<entries, staged, deadline, decisions>>

DeferFresh ==
  /\ Fresh /\ ~BreakEven /\ ~Expired /\ Distinct <= call.budget
  /\ ArmDeadline(StorageDone)
  /\ AppendShadowEntry
  /\ LET end   == call.storageWait + ReadTime
         start == IF Distinct = 0 THEN MaxOf(call.storageWait, CoveredReady)
                  ELSE call.storageWait
     IN  Decide("defer", LoadBlocks, call.gpuWait, end, call.budget - Distinct,
                RecordStaged(cand.hashes, start, MaxOf(end, CoveredReady)))
  /\ UNCHANGED <<staged, decisions>>

EndPlan ==
  /\ Planning /\ call.todo = <<>>
  /\ decisions' = call.decided /\ call' = NoCall
  /\ UNCHANGED <<entries, staged, deadline>>

PlanStep ==
  \/ DeferBlocked \/ DeclineMissing \/ AdmitResident \/ AdmitImpatient
  \/ DeferAgain \/ DeclineBreakEven \/ AdmitNow \/ DeferFresh \/ EndPlan

(* --- time, and reset ---------------------------------------------------- *)

OneLess(t) == MaxOf(0, t - 1)
Sooner(e)  == [e EXCEPT !.startsIn = OneLess(@), !.endsIn = OneLess(@)]

Tick ==
  /\ ~Planning
  /\ \/ \E i \in DOMAIN entries : entries[i].endsIn > 0
     \/ \E r \in DOMAIN deadline : deadline[r].left > 0
  /\ entries' = [i \in DOMAIN entries |-> Sooner(entries[i])]
  /\ deadline' = [r \in DOMAIN deadline |-> [deadline[r] EXCEPT !.left = OneLess(@)]]
  /\ UNCHANGED <<staged, decisions, call>>

ResetPlanner ==
  /\ ~Planning
  /\ entries' = <<>> /\ staged' = Empty /\ deadline' = Empty /\ decisions' = Empty
  /\ UNCHANGED call

(* --- properties --------------------------------------------------------- *)

\* A request has one read in the shadow queue, and each read starts when the
\* one before it ends: nothing is charged twice however often a deferred
\* prefix is emitted again, and the end of the last read is what is left of
\* them all (load_planner.py:218, 402).
ShadowQueueSound ==
  /\ \A i, k \in DOMAIN entries : entries[i].req = entries[k].req => i = k
  /\ \A i \in DOMAIN entries :
       /\ entries[i].startsIn <= entries[i].endsIn
       /\ i > 1 => entries[i].startsIn = entries[i - 1].endsIn

BlockedNow == {d.req : d \in {x \in Range(call.candidates) : x.blocked}}

\* Past its deadline a request that could be loaded is not deferred any more,
\* however many plans, re-emissions and retired reads came before
\* (README.md:156 "A request is not deferred indefinitely").  The plan that
\* defers it leaves it an armed deadline in the future.
NeverDeferredLate ==
  Planning =>
    \A r \in DOMAIN call.decided :
      call.decided[r].decision = "defer" /\ r \notin BlockedNow
        => r \in DOMAIN deadline /\ deadline[r].left > 0
=============================================================================
