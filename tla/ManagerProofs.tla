--------------------------- MODULE ManagerProofs ---------------------------
(***************************************************************************)
(* What is proved about the manager and its planner, for any number of     *)
(* requests and blocks, any cost tables and any order of events: the fence *)
(* counts the stores under way, no request is sent to compute what a store *)
(* is writing, and a request the planner admits finds its first block.     *)
(***************************************************************************)
EXTENDS Manager, FiniteSetTheorems, SequenceTheorems, WellFoundedInduction, TLAPS

-----------------------------------------------------------------------------
(* The fence.                                                              *)

StoreTypes ==
  /\ storing \in [Reqs -> SUBSET Hashes]
  /\ inflight \in [Hashes -> Nat]
  /\ phase \in [Reqs -> {"new", "waiting", "running"}]
  /\ offered \in [Reqs -> Nat]
  /\ \A r \in Reqs : storing[r] \subseteq FirstBlocks(r, offered[r])

\* Where the lookups of this step stand: requests that wait.
WalkTypes ==
  /\ walk # Idle => /\ walk \in [req : Reqs, hits : Nat, over : BOOLEAN]
                    /\ ~Planning /\ phase[walk.req] = "waiting"
                    /\ walk.hits <= Len(Keys[walk.req])
                    /\ ~walk.over => walk.hits < Len(Keys[walk.req])
  /\ turn \subseteq Reqs
  /\ \A r \in turn : phase[r] = "waiting" /\ (walk # Idle => r # walk.req)

FenceInv == StoreTypes /\ WalkTypes /\ FenceExact

WriterSet(h) == {r \in Reqs : h \in storing[r]}

LEMMA WritersFinite ==
  ASSUME NEW h \in Hashes
  PROVE  IsFiniteSet(WriterSet(h)) /\ Writers(h) = Cardinality(WriterSet(h)) /\ Writers(h) \in Nat
<1>1. IsFiniteSet(WriterSet(h))
  BY ManagerAssumption, FS_Subset DEF WriterSet
<1> QED
  BY <1>1, FS_CardinalityType DEF WriterSet, Writers

\* A store that begins is one more writer of each of its blocks, and one
\* that ends one less.
LEMMA WriterBegins ==
  ASSUME StoreTypes, NEW r \in Reqs, NEW S \in SUBSET Hashes, S \cap storing[r] = {},
         storing' = [storing EXCEPT ![r] = storing[r] \cup S], NEW h \in Hashes
  PROVE  Writers(h)' = IF h \in S THEN Writers(h) + 1 ELSE Writers(h)
<1>1. WriterSet(h)' = IF h \in S THEN WriterSet(h) \cup {r} ELSE WriterSet(h)
  BY DEF WriterSet, StoreTypes
<1>2. h \in S => r \notin WriterSet(h)
  BY DEF WriterSet
<1>3. Writers(h)' = Cardinality(WriterSet(h)')
  BY DEF Writers, WriterSet
<1>4. CASE h \in S
  <2>1. Cardinality(WriterSet(h) \cup {r}) = Cardinality(WriterSet(h)) + 1
    BY <1>2, <1>4, WritersFinite, FS_AddElement
  <2> QED
    BY <1>1, <1>3, <1>4, <2>1, WritersFinite
<1>5. CASE h \notin S
  BY <1>1, <1>3, <1>5, WritersFinite
<1> QED
  BY <1>4, <1>5

LEMMA WriterEnds ==
  ASSUME StoreTypes, NEW r \in Reqs, NEW S \in SUBSET storing[r],
         storing' = [storing EXCEPT ![r] = storing[r] \ S], NEW h \in Hashes
  PROVE  /\ Writers(h)' = IF h \in S THEN Writers(h) - 1 ELSE Writers(h)
         /\ h \in S => Writers(h) > 0
<1>1. WriterSet(h)' = IF h \in S THEN WriterSet(h) \ {r} ELSE WriterSet(h)
  BY DEF WriterSet, StoreTypes
<1>2. h \in S => r \in WriterSet(h)
  BY DEF WriterSet
<1>3. Writers(h)' = Cardinality(WriterSet(h)')
  BY DEF Writers, WriterSet
<1>4. CASE h \in S
  <2>1. Cardinality(WriterSet(h) \ {r}) = Cardinality(WriterSet(h)) - 1
    BY <1>2, <1>4, WritersFinite, FS_RemoveElement
  <2>2. Cardinality(WriterSet(h)) # 0
    BY <1>2, <1>4, WritersFinite, FS_EmptySet
  <2> QED
    BY <1>1, <1>3, <1>4, <2>1, <2>2, WritersFinite
<1>5. CASE h \notin S
  BY <1>1, <1>3, <1>5, WritersFinite
<1> QED
  BY <1>4, <1>5

LEMMA NobodyWrites ==
  ASSUME \A r \in Reqs : storing[r] = {}, NEW h \in Hashes
  PROVE  Writers(h) = 0
<1>1. WriterSet(h) = {}
  BY DEF WriterSet
<1> QED
  BY <1>1, FS_EmptySet, WritersFinite

\* Steps that touch neither stores nor fence.
LEMMA FenceKept ==
  ASSUME FenceInv, UNCHANGED <<inflight, storing, unfenced>>
  PROVE  FenceExact'
BY DEF FenceInv, FenceExact, Writers

LEMMA InitFence == Init => FenceInv
<1> SUFFICES ASSUME Init PROVE FenceInv
  OBVIOUS
<1>1. StoreTypes
  BY DEF Init, StoreTypes
<1>2. WalkTypes
  BY DEF Init, WalkTypes
<1>3. \A h \in Hashes : Writers(h) = 0
  BY NobodyWrites DEF Init
<1>4. FenceExact
  BY <1>3 DEF Init, FenceExact
<1> QED
  BY <1>1, <1>2, <1>4 DEF FenceInv

LEMMA PrepareFence ==
  ASSUME FenceInv, NEW r \in Reqs, PrepareStore(r)
  PROVE  FenceInv'
<1> DEFINE S == ToStore(r)
<1>1. PICK n \in (offered[r] + 1)..Len(Keys[r]) : offered' = [offered EXCEPT ![r] = n]
  BY DEF PrepareStore, Prepare
<1>2. n \in Nat /\ offered[r] \in Nat /\ offered'[r] = n /\ offered[r] <= n
  BY <1>1, ManagerAssumption DEF FenceInv, StoreTypes
<1>3. S \in SUBSET Hashes /\ S \subseteq FirstBlocks(r, n) /\ S \cap storing[r] = {}
  <2>1. S = (FirstBlocks(r, n) \ FirstBlocks(r, offered[r])) \ files
    BY <1>2 DEF ToStore
  <2>2. FirstBlocks(r, n) \subseteq Hashes
    <3>1. Keys[r] \in Seq(Hashes)
      BY ManagerAssumption
    <3>2. \A i \in 1..n : i \in 1..Len(Keys[r])
      BY <1>1, <1>2
    <3> QED
      BY <3>1, <3>2 DEF FirstBlocks
  <2>3. storing[r] \subseteq FirstBlocks(r, offered[r])
    BY DEF FenceInv, StoreTypes
  <2> QED
    BY <2>1, <2>2, <2>3
<1>4. FirstBlocks(r, offered[r]) \subseteq FirstBlocks(r, n)
  <2>1. \A i \in 1..offered[r] : i \in 1..n
    BY <1>2
  <2> QED
    BY <2>1 DEF FirstBlocks
<1>5. /\ storing' = [storing EXCEPT ![r] = storing[r] \cup S]
      /\ inflight' = [h \in Hashes |-> inflight[h] + IF h \in S THEN 1 ELSE 0]
      /\ UNCHANGED <<phase, walk, turn, unfenced, planner>>
      /\ walk = Idle /\ turn = {}
  BY DEF PrepareStore, Prepare, Resting
<1> HIDE DEF S
<1>6. StoreTypes'
  <2>1. /\ storing' \in [Reqs -> SUBSET Hashes] /\ inflight' \in [Hashes -> Nat]
        /\ phase' \in [Reqs -> {"new", "waiting", "running"}] /\ offered' \in [Reqs -> Nat]
    BY <1>1, <1>2, <1>3, <1>5 DEF FenceInv, StoreTypes
  <2>2. ASSUME NEW q \in Reqs PROVE storing'[q] \subseteq FirstBlocks(q, offered'[q])
    <3>1. CASE q = r
      <4>1. storing'[r] = storing[r] \cup S /\ storing[r] \subseteq FirstBlocks(r, offered[r])
        BY <1>5 DEF FenceInv, StoreTypes
      <4> QED
        BY <1>2, <1>3, <1>4, <3>1, <4>1
    <3>2. CASE q # r
      BY <1>1, <1>5, <3>2 DEF FenceInv, StoreTypes
    <3> QED
      BY <3>1, <3>2
  <2>3. \A q \in Reqs : (storing[q] \subseteq FirstBlocks(q, offered[q]))'
    BY <2>2 DEF FirstBlocks
  <2> QED
    BY <2>1, <2>3 DEF StoreTypes
<1>7. WalkTypes'
  BY <1>5 DEF WalkTypes
<1>8. ASSUME NEW h \in Hashes
      PROVE  inflight'[h] \in 0..Writers(h)' /\ (~unfenced' => inflight'[h] = Writers(h)')
  <2>1. Writers(h)' = IF h \in S THEN Writers(h) + 1 ELSE Writers(h)
    BY <1>3, <1>5, WriterBegins DEF FenceInv
  <2>2. inflight'[h] = IF h \in S THEN inflight[h] + 1 ELSE inflight[h]
    BY <1>5 DEF FenceInv, StoreTypes
  <2> QED
    BY <1>5, <2>1, <2>2, WritersFinite DEF FenceInv, FenceExact
<1> QED
  BY <1>6, <1>7, <1>8 DEF FenceInv, FenceExact

LEMMA CompleteFence ==
  ASSUME FenceInv, NEW r \in Reqs, NEW S \in SUBSET storing[r], CompleteStore(r, S)
  PROVE  FenceInv'
<1>1. /\ storing' = [storing EXCEPT ![r] = storing[r] \ S] /\ UNCHANGED <<phase, offered>>
      /\ unfenced' = (unfenced /\ \E q \in Reqs : storing'[q] # {})
      /\ UNCHANGED <<walk, turn, planner>>
      /\ walk = Idle /\ turn = {}
  BY DEF CompleteStore, StoreEnds, Resting
<1>2. inflight' = [h \in Hashes |-> IF h \in S THEN MaxOf(0, inflight[h] - 1) ELSE inflight[h]]
  BY DEF CompleteStore
<1>3. StoreTypes'
  <2>1. \A q \in Reqs : storing'[q] \in SUBSET storing[q]
    BY <1>1 DEF FenceInv, StoreTypes
  <2>2. /\ storing' \in [Reqs -> SUBSET Hashes] /\ inflight' \in [Hashes -> Nat]
    BY <1>1, <1>2 DEF FenceInv, StoreTypes, MaxOf
  <2> QED
    BY <1>1, <2>1, <2>2 DEF FenceInv, StoreTypes, FirstBlocks
<1>4. WalkTypes'
  BY <1>1 DEF WalkTypes
<1>5. ASSUME NEW h \in Hashes
      PROVE  inflight'[h] \in 0..Writers(h)' /\ (~unfenced' => inflight'[h] = Writers(h)')
  <2>1. /\ Writers(h)' = IF h \in S THEN Writers(h) - 1 ELSE Writers(h)
        /\ h \in S => Writers(h) > 0
    BY <1>1, WriterEnds DEF FenceInv
  <2>2. inflight[h] \in 0..Writers(h) /\ (~unfenced => inflight[h] = Writers(h))
    BY DEF FenceInv, FenceExact
  <2>3. inflight'[h] \in 0..Writers(h)'
    BY <1>2, <2>1, <2>2, WritersFinite DEF MaxOf
  <2>4. ASSUME ~unfenced PROVE inflight'[h] = Writers(h)'
    BY <1>2, <2>1, <2>2, <2>4, WritersFinite DEF MaxOf
  <2>5. ASSUME unfenced, ~unfenced' PROVE inflight'[h] = Writers(h)'
    <3>1. \A q \in Reqs : storing'[q] = {}
      BY <1>1, <2>5
    <3>2. WriterSet(h)' = {}
      BY <3>1 DEF WriterSet
    <3>3. Writers(h)' = Cardinality(WriterSet(h)')
      BY DEF Writers, WriterSet
    <3>4. Writers(h)' = 0
      BY <3>2, <3>3, FS_EmptySet
    <3> QED
      BY <2>3, <3>4
  <2> QED
    BY <2>3, <2>4, <2>5
<1> QED
  BY <1>3, <1>4, <1>5 DEF FenceInv, FenceExact

LEMMA ResetFence ==
  ASSUME FenceInv, ResetCache
  PROVE  FenceInv'
<1>1. /\ inflight' = [h \in Hashes |-> 0] /\ unfenced' = \E r \in Reqs : storing[r] # {}
      /\ UNCHANGED <<walk, turn, storing, offered, phase, call>>
      /\ walk = Idle /\ turn = {}
  BY DEF ResetCache, ResetPlanner, Resting, stores
<1>2. StoreTypes' /\ WalkTypes'
  BY <1>1 DEF FenceInv, StoreTypes, WalkTypes, FirstBlocks
<1>3. ASSUME NEW h \in Hashes
      PROVE  inflight'[h] \in 0..Writers(h)' /\ (~unfenced' => inflight'[h] = Writers(h)')
  <2>1. Writers(h)' = Writers(h)
    BY <1>1 DEF Writers
  <2> QED
    BY <1>1, <2>1, WritersFinite, NobodyWrites
<1> QED
  BY <1>2, <1>3 DEF FenceInv, FenceExact

\* The steps of the scheduler between two stores.
LEMMA StepFence ==
  ASSUME FenceInv,
         \/ \E jobs \in JobSets : PlanCandidates(jobs)
         \/ ContinuePlan \/ BeginLookups \/ Lookup \/ Run \/ NoRoom
         \/ \E r \in Reqs : Arrive(r)
         \/ \E h \in Hashes : Land(h)
         \/ TimePasses \/ UNCHANGED vars
  PROVE  FenceInv'
<1>1. UNCHANGED <<inflight, storing, offered, unfenced>>
  BY DEF PlanCandidates, ContinuePlan, BeginLookups, Lookup, Run, NoRoom, Arrive, Land,
         TimePasses, vars, manager, world, stores
<1>2. FenceExact'
  BY <1>1, FenceKept
<1>3. CASE \E jobs \in JobSets : PlanCandidates(jobs)
  <2>1. UNCHANGED <<phase, walk>> /\ walk = Idle /\ turn' = {Order[i] : i \in WaitingReqs}
    BY <1>3 DEF PlanCandidates, Resting
  <2>2. \A r \in turn' : r \in Reqs /\ phase[r] = "waiting"
    BY <2>1, ManagerAssumption DEF WaitingReqs
  <2> QED
    BY <1>1, <1>2, <2>1, <2>2 DEF FenceInv, StoreTypes, FirstBlocks, WalkTypes
<1>4. CASE ContinuePlan
  <2>1. UNCHANGED <<phase, walk, turn>> /\ Planning
    BY <1>4 DEF ContinuePlan, world, PlanStep, DeferBlocked, DeclineMissing, AdmitResident,
       AdmitImpatient, DeferAgain, DeclineBreakEven, AdmitNow, DeferFresh, EndPlan, Candidate,
       Scored, Waiting, Fresh
  <2> QED
    BY <1>1, <1>2, <2>1 DEF FenceInv, StoreTypes, FirstBlocks, WalkTypes
<1>5. CASE BeginLookups
  <2>1. PICK r \in turn : /\ walk' = [req |-> r, hits |-> 0, over |-> FALSE]
                          /\ turn' = turn \ {r}
    BY <1>5 DEF BeginLookups
  <2>2. UNCHANGED <<phase, call>> /\ ~Planning
    BY <1>5 DEF BeginLookups, planner
  <2>3. r \in Reqs /\ phase[r] = "waiting" /\ Len(Keys[r]) \in Nat /\ Len(Keys[r]) > 0
    BY ManagerAssumption, EmptySeq DEF FenceInv, WalkTypes
  <2> QED
    BY <1>1, <1>2, <2>1, <2>2, <2>3 DEF FenceInv, StoreTypes, FirstBlocks, WalkTypes, Planning
<1>6. CASE Lookup
  <2>1. UNCHANGED <<phase, turn, call>> /\ walk # Idle /\ ~walk.over
    BY <1>6 DEF Lookup, Looking, planner
  <2>2. \/ walk' = Idle
        \/ walk' = [walk EXCEPT !.over = TRUE]
        \/ walk' = [walk EXCEPT !.hits = walk.hits + 1,
                                !.over = walk.hits + 1 = Len(Keys[walk.req])]
    BY <1>6 DEF Lookup, Answer
  <2>3. /\ walk \in [req : Reqs, hits : Nat, over : BOOLEAN]
        /\ walk.hits < Len(Keys[walk.req])
    BY <2>1 DEF FenceInv, WalkTypes
  <2>4. Len(Keys[walk.req]) \in Nat
    BY <2>3, ManagerAssumption
  <2>5. walk' # Idle => /\ walk' \in [req : Reqs, hits : Nat, over : BOOLEAN]
                        /\ walk'.req = walk.req /\ walk'.hits <= Len(Keys[walk.req])
                        /\ ~walk'.over => walk'.hits < Len(Keys[walk.req])
    <3>1. CASE walk' = [walk EXCEPT !.over = TRUE]
      <4>1. walk'.req = walk.req /\ walk'.hits = walk.hits
        BY <2>3, <3>1
      <4>2. walk'.over
        BY <2>3, <3>1
      <4>3. walk' \in [req : Reqs, hits : Nat, over : BOOLEAN]
        BY <2>3, <3>1
      <4> QED
        BY <2>3, <2>4, <4>1, <4>2, <4>3
    <3>2. CASE walk' = [walk EXCEPT !.hits = walk.hits + 1,
                                   !.over = walk.hits + 1 = Len(Keys[walk.req])]
      <4> DEFINE n == walk.hits + 1
                 last == n = Len(Keys[walk.req])
      <4>1. walk'.req = walk.req /\ walk'.hits = walk.hits + 1
        BY <2>3, <3>2
      <4>2. walk'.over = (walk.hits + 1 = Len(Keys[walk.req]))
        BY <2>3, <3>2
      <4>3. walk' \in [req : Reqs, hits : Nat, over : BOOLEAN]
        <5>1. walk' = [walk EXCEPT !.hits = n, !.over = last]
          BY <3>2
        <5>2. n \in Nat /\ last \in BOOLEAN
          BY <2>3
        <5> HIDE DEF n, last
        <5> QED
          BY <2>3, <5>1, <5>2
      <4> QED
        BY <2>3, <2>4, <4>1, <4>2, <4>3
    <3> QED
      BY <2>2, <3>1, <3>2
  <2>6. WalkTypes'
    BY <2>1, <2>5 DEF FenceInv, WalkTypes, Planning
  <2> QED
    BY <1>1, <1>2, <2>1, <2>6 DEF FenceInv, StoreTypes, FirstBlocks
<1>7. CASE Run
  <2>1. /\ walk # Idle /\ phase' = [phase EXCEPT ![walk.req] = "running"] /\ walk' = Idle
        /\ turn' = turn
    BY <1>7 DEF Run
  <2>2. walk.req \in Reqs /\ phase[walk.req] = "waiting" /\ walk.req \notin turn
    BY <2>1 DEF FenceInv, WalkTypes
  <2> QED
    BY <1>1, <1>2, <2>1, <2>2 DEF FenceInv, StoreTypes, FirstBlocks, WalkTypes
<1>8. CASE NoRoom
  BY <1>1, <1>2, <1>8 DEF NoRoom, FenceInv, StoreTypes, FirstBlocks, WalkTypes
<1>9. CASE \E r \in Reqs : Arrive(r)
  BY <1>1, <1>2, <1>9 DEF Arrive, Resting, FenceInv, StoreTypes, FirstBlocks, WalkTypes
<1>10. CASE (\E h \in Hashes : Land(h)) \/ TimePasses \/ UNCHANGED vars
  <2>1. UNCHANGED <<phase, walk, turn, call>>
    BY <1>10 DEF Land, TimePasses, Tick, vars, world, planner
  <2> QED
    BY <1>1, <1>2, <2>1 DEF FenceInv, StoreTypes, FirstBlocks, WalkTypes, Planning
<1> QED
  BY <1>3, <1>4, <1>5, <1>6, <1>7, <1>8, <1>9, <1>10

LEMMA NextFence == FenceInv /\ [Next]_vars => FenceInv'
<1> SUFFICES ASSUME FenceInv, [Next]_vars PROVE FenceInv'
  OBVIOUS
<1>1. CASE \E r \in Reqs : PrepareStore(r)
  BY <1>1, PrepareFence
<1>2. CASE \E r \in Reqs : \E S \in SUBSET storing[r] : CompleteStore(r, S)
  BY <1>2, CompleteFence
<1>3. CASE ResetCache
  BY <1>3, ResetFence
<1> QED
  BY <1>1, <1>2, <1>3, StepFence DEF Next, SchedulerStep, Stores

\* The fence of a block counts the stores that write it, for every set of
\* requests that share blocks and however their stores are cut up (vllm.py:356,
\* 382): by FenceInv, which adds that a request stores only blocks that were
\* offered, so that none is counted twice, and where the lookups are.
THEOREM FenceIsExact == Spec => []FenceExact
<1>1. FenceInv => FenceExact
  BY DEF FenceInv
<1> QED
  BY InitFence, NextFence, <1>1, PTL DEF Spec

-----------------------------------------------------------------------------
(* The lookups.                                                            *)

\* What the lookup cache claims is on disk.
CacheTrue == lookupCache \subseteq files

\* The block at which the hits of a request end, when its walk is over.
Missing == Keys[walk.req][walk.hits + 1]

\* A walk that ended at a block ended at one nobody was writing.
EndedAlone ==
  \A h \in Hashes :
    walk # Idle /\ walk.over /\ walk.hits < Len(Keys[walk.req]) /\ h = Missing
      => unfenced \/ h \in files \/ Writers(h) = 0

WalkInv == FenceInv /\ CacheTrue /\ EndedAlone

LEMMA RememberTrue ==
  ASSUME CacheTrue, NEW S, Remember(S), files' = files
  PROVE  CacheTrue'
BY DEF CacheTrue, Remember, Known

LEMMA NextCacheTrue == CacheTrue /\ [Next]_vars => CacheTrue'
<1> SUFFICES ASSUME CacheTrue, [Next]_vars PROVE CacheTrue'
  OBVIOUS
<1>1. CASE \E jobs \in JobSets : PlanCandidates(jobs)
  <2>1. files' = files /\ \E S : Remember(S)
    BY <1>1 DEF PlanCandidates
  <2> QED
    BY <2>1, RememberTrue
<1>2. CASE Lookup
  <2>1. files' = files /\ \E S : Remember(S)
    BY <1>2 DEF Lookup
  <2> QED
    BY <2>1, RememberTrue
<1>3. CASE Run
  BY <1>3 DEF Run, FlushFor, CacheTrue
<1>4. CASE \E r \in Reqs : PrepareStore(r)
  BY <1>4 DEF PrepareStore, Prepare, FlushFor, CacheTrue
<1>5. CASE \E r \in Reqs : \E S \in SUBSET storing[r] : CompleteStore(r, S)
  BY <1>5 DEF CompleteStore, StoreEnds, CacheTrue
<1>6. CASE ResetCache
  BY <1>6 DEF ResetCache, CacheTrue
<1>7. CASE \E h \in Hashes : Land(h)
  BY <1>7 DEF Land, CacheTrue, manager
<1>8. CASE ContinuePlan \/ BeginLookups \/ NoRoom \/ (\E r \in Reqs : Arrive(r)) \/ TimePasses
           \/ UNCHANGED vars
  BY <1>8 DEF ContinuePlan, BeginLookups, NoRoom, Arrive, TimePasses, vars, manager, world,
     CacheTrue
<1> QED
  BY <1>1, <1>2, <1>3, <1>4, <1>5, <1>6, <1>7, <1>8 DEF Next, SchedulerStep, Stores

\* While a request is looked up no store begins or ends; files only appear.
LEMMA StoresRest ==
  ASSUME [Next]_vars, FenceInv, walk # Idle
  PROVE  UNCHANGED <<storing, unfenced, inflight>> /\ files \subseteq files'
BY DEF Next, SchedulerStep, Stores, PlanCandidates, ContinuePlan, BeginLookups, Lookup, Run,
   NoRoom, PrepareStore, Prepare, CompleteStore, StoreEnds, ResetCache, Arrive, Land,
   TimePasses, Resting, vars, stores, manager, world

\* Only Lookup and Run move a walk on.
LEMMA WalkRests ==
  ASSUME [Next]_vars, walk # Idle, ~Lookup
  PROVE  walk' = walk \/ walk' = Idle
BY DEF Next, SchedulerStep, Stores, PlanCandidates, ContinuePlan, BeginLookups, Run,
   NoRoom, PrepareStore, Prepare, CompleteStore, StoreEnds, ResetCache, Arrive, Land,
   TimePasses, Resting, vars, manager, world

\* What a lookup does to the walk.
LEMMA LookupSteps ==
  ASSUME FenceInv, Lookup
  PROVE  /\ walk.req \in Reqs /\ walk.hits \in Nat /\ walk.hits < Len(Keys[walk.req])
         /\ Missing \in Hashes
         /\ \/ walk' = Idle
            \/ /\ Answer(walk.req, Missing) = "miss"
               /\ walk' = [walk EXCEPT !.over = TRUE]
               /\ walk'.req = walk.req /\ walk'.hits = walk.hits
            \/ /\ Answer(walk.req, Missing) = "hit"
               /\ walk'.req = walk.req /\ walk'.hits = walk.hits + 1
               /\ walk'.over = (walk.hits + 1 = Len(Keys[walk.req]))
<1>1. /\ walk \in [req : Reqs, hits : Nat, over : BOOLEAN]
      /\ walk.hits < Len(Keys[walk.req])
  BY DEF Lookup, Looking, FenceInv, WalkTypes
<1>2. Missing \in Hashes
  BY <1>1, ManagerAssumption DEF Missing
<1>3. walk' = CASE Answer(walk.req, Missing) = "later" -> Idle
                [] Answer(walk.req, Missing) = "miss"  -> [walk EXCEPT !.over = TRUE]
                [] OTHER -> [walk EXCEPT !.hits = walk.hits + 1,
                                         !.over = walk.hits + 1 = Len(Keys[walk.req])]
  BY DEF Lookup, Missing
<1>4. Answer(walk.req, Missing) \in {"later", "miss", "hit"}
  BY DEF Answer
<1>5. CASE Answer(walk.req, Missing) = "later"
  BY <1>1, <1>2, <1>3, <1>5
<1>6. CASE Answer(walk.req, Missing) = "miss"
  <2>1. walk' = [walk EXCEPT !.over = TRUE]
    BY <1>3, <1>6
  <2>2. walk'.req = walk.req /\ walk'.hits = walk.hits
    BY <1>1, <2>1
  <2> QED
    BY <1>1, <1>2, <1>6, <2>1, <2>2
<1>7. CASE Answer(walk.req, Missing) = "hit"
  <2>1. walk' = [walk EXCEPT !.hits = walk.hits + 1,
                             !.over = walk.hits + 1 = Len(Keys[walk.req])]
    BY <1>3, <1>7
  <2>2. walk'.req = walk.req /\ walk'.hits = walk.hits + 1
    BY <1>1, <2>1
  <2>3. walk'.over = (walk.hits + 1 = Len(Keys[walk.req]))
    BY <1>1, <2>1
  <2> QED
    BY <1>1, <1>2, <1>7, <2>2, <2>3
<1> QED
  BY <1>4, <1>5, <1>6, <1>7

LEMMA NextEndedAlone == WalkInv /\ [Next]_vars => EndedAlone'
<1> SUFFICES ASSUME WalkInv, [Next]_vars, NEW h \in Hashes,
                    walk' # Idle, walk'.over, walk'.hits < Len(Keys[walk'.req]),
                    h = Keys[walk'.req][walk'.hits + 1]
             PROVE  unfenced' \/ h \in files' \/ Writers(h)' = 0
  BY DEF EndedAlone, Missing
<1> USE DEF WalkInv
<1>1. walk # Idle
  <2>1. CASE BeginLookups
    BY <2>1 DEF BeginLookups
  <2>2. CASE Lookup
    BY <2>2 DEF Lookup, Looking
  <2>3. CASE Run
    BY <2>3 DEF Run
  <2> QED
    BY <2>1, <2>2, <2>3 DEF Next, SchedulerStep, Stores, PlanCandidates, ContinuePlan,
       NoRoom, PrepareStore, Prepare, CompleteStore, StoreEnds, ResetCache, Arrive, Land,
       TimePasses, Resting, vars, manager, world
<1>2. UNCHANGED <<storing, unfenced>> /\ files \subseteq files'
  BY <1>1, StoresRest
<1>3. Writers(h)' = Writers(h)
  BY <1>2 DEF Writers
<1>4. CASE walk' = walk
  <2>1. h = Missing
    BY <1>4 DEF Missing
  <2>2. walk # Idle /\ walk.over /\ walk.hits < Len(Keys[walk.req])
    BY <1>4
  <2>3. unfenced \/ h \in files \/ Writers(h) = 0
    BY <2>1, <2>2 DEF EndedAlone
  <2> QED
    BY <1>2, <1>3, <2>3
<1>5. CASE Lookup
  <2>1. walk.hits \in Nat /\ Len(Keys[walk.req]) \in Nat
    BY <1>5, LookupSteps, ManagerAssumption, LenProperties
  <2>2. /\ Answer(walk.req, Missing) = "miss"
        /\ walk'.req = walk.req /\ walk'.hits = walk.hits
    <3>1. CASE walk'.req = walk.req /\ walk'.hits = walk.hits + 1
               /\ walk'.over = (walk.hits + 1 = Len(Keys[walk.req]))
      <4>1. walk.hits + 1 = Len(Keys[walk.req])
        BY <3>1
      <4>2. walk.hits + 1 < Len(Keys[walk.req])
        BY <3>1
      <4> QED
        BY <2>1, <4>1, <4>2
    <3> QED
      BY <1>5, <3>1, LookupSteps
  <2>3. h = Missing
    BY <2>2 DEF Missing
  <2>4. ~MidWrite(h)
    BY <2>2, <2>3 DEF Answer
  <2>5. CASE Known(h)
    BY <1>2, <2>5 DEF Known, CacheTrue
  <2>6. CASE inflight[h] = 0
    BY <1>2, <1>3, <2>6 DEF FenceInv, FenceExact
  <2> QED
    BY <2>4, <2>5, <2>6 DEF MidWrite, FenceInv, StoreTypes
<1> QED
  BY <1>1, <1>4, <1>5, WalkRests

LEMMA WalkInductive == Spec => []WalkInv
<1>1. Init => WalkInv
  BY InitFence DEF WalkInv, CacheTrue, EndedAlone, Init
<1>2. WalkInv /\ [Next]_vars => WalkInv'
  BY NextFence, NextCacheTrue, NextEndedAlone DEF WalkInv
<1> QED
  BY <1>1, <1>2, PTL DEF Spec

\* A request starts running only as the one whose walk is over.
LEMMA OnlyRunRuns ==
  ASSUME FenceInv, [Next]_vars, NEW r \in Reqs, phase[r] = "waiting", phase'[r] = "running"
  PROVE  walk # Idle /\ walk.over /\ r = walk.req
<1>1. CASE Run
  <2>1. walk # Idle /\ walk.over /\ phase' = [phase EXCEPT ![walk.req] = "running"]
    BY <1>1 DEF Run
  <2> QED
    BY <2>1 DEF FenceInv, StoreTypes
<1>2. CASE \E q \in Reqs : PrepareStore(q)
  BY <1>2 DEF PrepareStore, Prepare, FenceInv, StoreTypes
<1>3. CASE \E q \in Reqs : \E S \in SUBSET storing[q] : CompleteStore(q, S)
  BY <1>3 DEF CompleteStore, StoreEnds, FenceInv, StoreTypes
<1>4. CASE \E q \in Reqs : Arrive(q)
  BY <1>4 DEF Arrive, FenceInv, StoreTypes
<1> QED
  BY <1>1, <1>2, <1>3, <1>4 DEF Next, SchedulerStep, Stores, PlanCandidates, ContinuePlan,
     BeginLookups, Lookup, NoRoom, ResetCache, Land, TimePasses, vars, manager, world

\* No request is sent to recompute a block a store of this engine is writing
\* (vllm.py:315): the walk ends at such a block with an order to wait, and no
\* store begins before the request runs.
THEOREM RecomputesAlone == Spec => NeverRecomputesMidWrite
<1>1. ASSUME WalkInv, [Next]_vars, NEW r \in Reqs, phase[r] = "waiting", phase'[r] = "running",
             walk.hits < Len(Keys[walk.req])
      PROVE  r = walk.req /\ (unfenced \/ Missing \in files \/ Writers(Missing) = 0)
  <2>1. walk # Idle /\ walk.over /\ r = walk.req
    BY <1>1, OnlyRunRuns DEF WalkInv
  <2>2. Missing \in Hashes
    BY <1>1, <2>1, ManagerAssumption DEF WalkInv, FenceInv, WalkTypes, Missing
  <2> QED
    BY <1>1, <2>1, <2>2 DEF WalkInv, EndedAlone
<1>2. WalkInv /\ [Next]_vars =>
        [\A r \in Reqs :
           phase[r] = "waiting" /\ phase'[r] = "running" /\ walk.hits < Len(Keys[r])
             => LET h == Keys[r][walk.hits + 1]
                IN  unfenced \/ h \in files \/ Writers(h) = 0]_vars
  BY <1>1, OnlyRunRuns DEF Missing, WalkInv
<1> QED
  BY <1>2, WalkInductive, PTL DEF Spec, NeverRecomputesMidWrite

-----------------------------------------------------------------------------
(* The planner's promise to the requests it admits.                        *)

LEMMA LeastNat ==
  ASSUME NEW T \in SUBSET Nat, T # {}
  PROVE  \E m \in T : \A n \in T : m <= n
<1>1. PICK m \in T : \A n \in T : <<n, m>> \notin OpToRel(<, Nat)
  BY NatLessThanWellFounded, WFMin, Zenon
<1>2. \A n \in T : ~(n < m)
  BY <1>1, Zenon DEF OpToRel
<1>3. m \in Nat /\ \A n \in T : n \in Nat
  OBVIOUS
<1> QED
  BY <1>2, <1>3

\* A finite set of places has a first, a second, ... and a last.
LEMMA KthPlace ==
  ASSUME NEW len \in Nat, NEW W \in SUBSET (1..len), NEW k \in 1..Cardinality(W)
  PROVE  \E i \in W : Cardinality({n \in W : n <= i}) = k
<1> DEFINE upTo(i) == {n \in W : n <= i}
           count(i) == Cardinality(upTo(i))
           Enough  == {i \in 0..len : count(i) >= k}
<1>1. \A n \in W : n \in Nat /\ 1 <= n /\ n <= len
  OBVIOUS
<1>2. IsFiniteSet(W)
  <2>1. IsFiniteSet(1..len)
    BY FS_Interval
  <2> QED
    BY <2>1, FS_Subset
<1>3. ASSUME NEW i PROVE IsFiniteSet(upTo(i)) /\ count(i) \in Nat
  <2>1. upTo(i) \in SUBSET W
    OBVIOUS
  <2> QED
    BY <1>2, <2>1, FS_Subset, FS_CardinalityType
<1>4. Cardinality(W) \in Nat /\ k \in Nat /\ 1 <= k /\ k <= Cardinality(W)
  BY <1>2, FS_CardinalityType
<1>5. upTo(len) = W /\ upTo(0) = {}
  <2>1. \A n \in W : n <= len /\ ~(n <= 0)
    BY <1>1
  <2> QED
    BY <2>1
<1>6. count(len) >= k /\ count(0) = 0
  BY <1>4, <1>5, FS_EmptySet
<1> HIDE DEF upTo
<1>7. \E i \in Enough : \A j \in Enough : i <= j
  <2>1. len \in Enough
    BY <1>6
  <2>2. Enough \in SUBSET Nat
    OBVIOUS
  <2> HIDE DEF Enough
  <2> QED
    BY <2>1, <2>2, LeastNat
<1>8. PICK i \in Enough : \A j \in Enough : i <= j
  BY <1>7
<1> HIDE DEF count
<1>9. i \in 1..len /\ i - 1 \in 0..len /\ count(i) >= k
  <2>1. i \in 0..len /\ count(i) >= k
    BY <1>8
  <2>2. i # 0
    BY <1>4, <1>6, <2>1
  <2> QED
    BY <2>1, <2>2
<1>10. count(i) \in Nat /\ count(i - 1) \in Nat
  BY <1>3 DEF count
<1>11. count(i - 1) < k
  <2>1. i - 1 \notin Enough
    BY <1>8, <1>9
  <2> QED
    BY <1>4, <1>9, <1>10, <2>1
<1>12. CASE i \in W
  <2>1. upTo(i) = upTo(i - 1) \cup {i} /\ i \notin upTo(i - 1)
    <3>1. i \in Nat /\ ~(i <= i - 1) /\ i <= i
      BY <1>9
    <3>2. \A n \in W : n <= i <=> n <= i - 1 \/ n = i
      BY <1>1, <3>1
    <3> QED
      BY <1>12, <3>1, <3>2 DEF upTo
  <2>2. count(i) = count(i - 1) + 1
    BY <1>3, <2>1, FS_AddElement DEF count
  <2>3. count(i) = k
    BY <1>4, <1>9, <1>10, <1>11, <2>2
  <2> QED
    BY <1>12, <2>3 DEF upTo, count
<1>13. CASE i \notin W
  <2>1. upTo(i) = upTo(i - 1)
    <3>1. \A n \in W : n <= i <=> n <= i - 1
      BY <1>1, <1>9, <1>13
    <3> QED
      BY <3>1 DEF upTo
  <2> QED
    BY <1>4, <1>9, <1>10, <1>11, <2>1 DEF count
<1> QED
  BY <1>12, <1>13

LEMMA PlaceExists ==
  ASSUME NEW k \in 1..Cardinality(WaitingReqs)
  PROVE  Place(k) \in WaitingReqs
<1>1. Len(Order) \in Nat /\ WaitingReqs \in SUBSET (1..Len(Order))
  BY ManagerAssumption DEF WaitingReqs
<1>2. \E i \in WaitingReqs : Cardinality({n \in WaitingReqs : n <= i}) = k
  BY <1>1, KthPlace
<1> QED
  BY <1>2 DEF Place

\* The prefix of a request ends somewhere, and all of it is there or coming.
LEMMA PrefixIsGood ==
  ASSUME NEW r \in Reqs
  PROVE  /\ PrefixLength(r) \in 0..Len(Keys[r])
         /\ \A i \in 1..PrefixLength(r) : Known(Keys[r][i]) \/ MidWrite(Keys[r][i])
<1> DEFINE n       == Len(Keys[r])
           good(k) == \A i \in 1..k : Known(Keys[r][i]) \/ MidWrite(Keys[r][i])
           Ends    == {k \in 0..n : k = n \/ ~good(k + 1)}
<1>1. n \in Nat
  BY ManagerAssumption
<1> HIDE DEF n
<1>2. n \in Ends
  BY <1>1
<1> HIDE DEF good
<1>3. \E k \in Ends : \A m \in Ends : k <= m
  <2>1. Ends \in SUBSET Nat
    BY <1>1
  <2> HIDE DEF Ends
  <2> QED
    BY <1>2, <2>1, LeastNat
<1>4. PICK k \in Ends : \A m \in Ends : k <= m
  BY <1>3
<1>5. good(k)
  <2>1. CASE k = 0
    BY <2>1 DEF good
  <2>2. CASE k # 0
    <3>1. k - 1 \in 0..n /\ k - 1 # n /\ k - 1 \notin Ends /\ (k - 1) + 1 = k
      BY <1>1, <1>4, <2>2
    <3>2. good((k - 1) + 1)
      BY <3>1
    <3> QED
      BY <3>1, <3>2
  <2> QED
    BY <2>1, <2>2
<1>6. k \in 0..n /\ (k = n \/ ~good(k + 1))
  BY <1>4
<1>7. PrefixLength(r) = CHOOSE m \in 0..n : good(m) /\ (m = n \/ ~good(m + 1))
  BY DEF PrefixLength, n, good
<1>8. PrefixLength(r) \in 0..n /\ good(PrefixLength(r))
  BY <1>5, <1>6, <1>7
<1> QED
  BY <1>8 DEF good, n

\* A candidate that can be loaded begins with a block that is there.
Truthful(d) == ~d.blocked /\ Len(d.hashes) > 0 => Keys[d.req][1] \in files

\* Only requests whose first block is there are admitted.
Kept(f) == \A r \in DOMAIN f : f[r].decision = "admit" => Keys[r][1] \in files

CandidateType == [req : Reqs, hashes : Seq(Hashes), recompute : Nat, blocked : BOOLEAN]

CallSound ==
  /\ call = [todo |-> call.todo, candidates |-> call.candidates, decided |-> call.decided,
             gpuWait |-> call.gpuWait, budget |-> call.budget, stagedAt |-> call.stagedAt,
             storageWait |-> call.storageWait]
  /\ call.todo \in Seq(CandidateType)
  /\ \A i \in 1..Len(call.todo) : Truthful(call.todo[i])
  /\ Kept(call.decided)

PlanInv == (Planning => walk = Idle /\ CallSound) /\ Kept(decisions)

\* The lookups of an admitted request find its first block.
HitInv == walk # Idle /\ walk.over /\ Decision(walk.req) = "admit" => walk.hits > 0

LEMMA CandidateTrue ==
  ASSUME CacheTrue, NEW r \in Reqs
  PROVE  CandidateOf(r) \in CandidateType /\ Truthful(CandidateOf(r))
<1> DEFINE p == PrefixLength(r)
           s == SubSeq(Keys[r], 1, p)
<1>1. Keys[r] \in Seq(Hashes) /\ Len(Keys[r]) \in Nat
  BY ManagerAssumption
<1>2. p \in 0..Len(Keys[r]) /\ \A i \in 1..p : Known(Keys[r][i]) \/ MidWrite(Keys[r][i])
  BY PrefixIsGood
<1> HIDE DEF p
<1>3. s \in Seq(Hashes) /\ Len(s) = p /\ \A i \in 1..p : s[i] = Keys[r][i]
  BY <1>1, <1>2
<1>4. CandidateOf(r) = [req |-> r, hashes |-> s, recompute |-> Len(Keys[r]),
                        blocked |-> \E h \in Range(s) : MidWrite(h)]
  BY DEF CandidateOf, p
<1> HIDE DEF s
<1>5. (\E h \in Range(s) : MidWrite(h)) \in BOOLEAN
  OBVIOUS
<1>6. ASSUME ~ \E h \in Range(s) : MidWrite(h), Len(s) > 0
      PROVE  Keys[r][1] \in files
  <2>1. 1 \in 1..p /\ s[1] = Keys[r][1] /\ 1 \in DOMAIN s
    BY <1>2, <1>3, <1>6
  <2>2. s[1] \in Range(s)
    BY <2>1 DEF Range
  <2>3. Known(Keys[r][1])
    BY <1>2, <1>6, <2>1, <2>2
  <2> QED
    BY <2>3 DEF Known, CacheTrue
<1> DEFINE b == \E h \in Range(s) : MidWrite(h)
<1> HIDE DEF b
<1>7. CandidateOf(r) = [req |-> r, hashes |-> s, recompute |-> Len(Keys[r]), blocked |-> b]
  BY <1>4 DEF b
<1>8. b \in BOOLEAN /\ (~b /\ Len(s) > 0 => Keys[r][1] \in files)
  BY <1>5, <1>6 DEF b
<1>9. CandidateOf(r) \in CandidateType
  BY <1>1, <1>3, <1>7, <1>8 DEF CandidateType
<1>10. Truthful(CandidateOf(r))
  BY <1>7, <1>8 DEF Truthful
<1> QED
  BY <1>9, <1>10

LEMMA CandidatesTrue ==
  ASSUME CacheTrue
  PROVE  /\ Candidates \in Seq(CandidateType)
         /\ \A k \in 1..Len(Candidates) : Truthful(Candidates[k])
<1> DEFINE n == MinOf(Window, Cardinality(WaitingReqs))
<1>1. Window \in Nat /\ Cardinality(WaitingReqs) \in Nat
  <2>1. WaitingReqs \in SUBSET (1..Len(Order)) /\ Len(Order) \in Nat
    BY ManagerAssumption DEF WaitingReqs
  <2>2. IsFiniteSet(1..Len(Order))
    BY <2>1, FS_Interval
  <2>3. IsFiniteSet(WaitingReqs)
    BY <2>1, <2>2, FS_Subset
  <2> QED
    BY <2>3, ManagerAssumption, FS_CardinalityType
<1>2. n \in Nat /\ \A k \in 1..n : k \in 1..Cardinality(WaitingReqs)
  BY <1>1 DEF MinOf
<1>3. ASSUME NEW k \in 1..n
      PROVE  /\ CandidateOf(Order[Place(k)]) \in CandidateType
             /\ Truthful(CandidateOf(Order[Place(k)]))
  <2>1. Place(k) \in WaitingReqs
    BY <1>2, PlaceExists
  <2>2. Order[Place(k)] \in Reqs
    BY <2>1, ManagerAssumption DEF WaitingReqs
  <2> QED
    BY <2>2, CandidateTrue
<1>4. Candidates = [k \in 1..n |-> CandidateOf(Order[Place(k)])]
  BY DEF Candidates
<1> HIDE DEF n
<1>5. Candidates \in Seq(CandidateType) /\ Len(Candidates) = n
  BY <1>2, <1>3, <1>4
<1> QED
  BY <1>3, <1>4, <1>5

\* A plan begins with what the directory says.
LEMMA BeginsSound ==
  ASSUME CacheTrue, FenceInv, PlanInv, NEW jobs, PlanCandidates(jobs)
  PROVE  PlanInv'
<1>1. BeginPlan(Candidates, jobs)
  BY DEF PlanCandidates
<1>2. /\ call'.todo = Candidates /\ call'.decided = Empty
      /\ call' = [todo |-> call'.todo, candidates |-> call'.candidates,
                  decided |-> call'.decided, gpuWait |-> call'.gpuWait,
                  budget |-> call'.budget, stagedAt |-> call'.stagedAt,
                  storageWait |-> call'.storageWait]
      /\ decisions' = decisions
  BY <1>1 DEF BeginPlan
<1>3. walk' = walk /\ walk = Idle /\ files' = files
  BY DEF PlanCandidates, Resting
<1>4. \A d : Truthful(d)' <=> Truthful(d)
  BY <1>3 DEF Truthful
<1>5. Kept(call.decided)' /\ Kept(decisions)'
  BY <1>2, <1>3 DEF Kept, Empty, PlanInv
<1>6. \A i \in 1..Len(call'.todo) : Keys[call'.todo[i].req][1] \in files'
         \/ call'.todo[i].blocked \/ ~(Len(call'.todo[i].hashes) > 0)
  BY <1>2, <1>3, CandidatesTrue DEF Truthful
<1>7. call'.todo \in Seq(CandidateType)
  BY <1>2, CandidatesTrue
<1> QED
  BY <1>2, <1>3, <1>5, <1>6, <1>7 DEF PlanInv, CallSound, Truthful, Idle

\* A decision on a candidate keeps the rest of the call as it was.
LEMMA DecideSound ==
  ASSUME PlanInv, Candidate, files' = files,
         NEW decision, NEW blocks, NEW gpuWait, NEW storageWait, NEW budget, NEW stagedAt,
         Decide(decision, blocks, gpuWait, storageWait, budget, stagedAt),
         decision = "admit" => Scored
  PROVE  CallSound'
<1>1. CallSound
  BY DEF PlanInv, Candidate
<1>2. call.todo \in Seq(CandidateType) /\ call.todo # <<>>
  BY <1>1 DEF CallSound, Candidate
<1>3. /\ call'.todo = Tail(call.todo)
      /\ call'.decided = With(call.decided, cand.req, [decision |-> decision, blocks |-> blocks])
      /\ call' = [todo |-> call'.todo, candidates |-> call'.candidates,
                  decided |-> call'.decided, gpuWait |-> call'.gpuWait,
                  budget |-> call'.budget, stagedAt |-> call'.stagedAt,
                  storageWait |-> call'.storageWait]
  BY <1>1 DEF Decide, CallSound
<1>4. cand = call.todo[1] /\ Truthful(cand)
  BY <1>1, <1>2 DEF cand, CallSound
<1>5. decision = "admit" => Keys[cand.req][1] \in files
  BY <1>4 DEF Truthful, Scored, LoadBlocks
<1>6. Kept(call.decided)'
  BY <1>1, <1>3, <1>5 DEF Kept, With, CallSound
<1>7. /\ call'.todo \in Seq(CandidateType)
      /\ \A i \in 1..Len(call'.todo) : /\ i + 1 \in 1..Len(call.todo)
                                       /\ call'.todo[i] = call.todo[i + 1]
  BY <1>2, <1>3, HeadTailProperties
<1>8. \A i \in 1..Len(call'.todo) : Truthful(call.todo[i + 1])
  BY <1>1, <1>7 DEF CallSound
<1> QED
  BY <1>3, <1>6, <1>7, <1>8 DEF CallSound, Truthful

LEMMA StepSound ==
  ASSUME PlanInv, ContinuePlan
  PROVE  PlanInv'
<1>1. UNCHANGED <<files, walk>> /\ PlanStep /\ Planning
  BY DEF ContinuePlan, world, PlanStep, DeferBlocked, DeclineMissing, AdmitResident,
     AdmitImpatient, DeferAgain, DeclineBreakEven, AdmitNow, DeferFresh, EndPlan, Candidate,
     Waiting, Scored, Fresh
<1>2. CASE EndPlan
  <2>1. decisions' = call.decided /\ call' = NoCall
    BY <1>2 DEF EndPlan
  <2> QED
    BY <1>1, <2>1 DEF PlanInv, CallSound, Kept, Planning
<1>3. CASE ~EndPlan
  <2>1. /\ Candidate /\ decisions' = decisions
        /\ \E decision, blocks, gpuWait, storageWait, budget, stagedAt :
             /\ Decide(decision, blocks, gpuWait, storageWait, budget, stagedAt)
             /\ decision = "admit" => Scored
    <3>1. CASE DeferBlocked
      BY <3>1 DEF DeferBlocked, Pass
    <3>2. CASE DeclineMissing \/ DeclineBreakEven
      BY <3>2 DEF DeclineMissing, DeclineBreakEven, Decline, Fresh, Scored
    <3>3. CASE AdmitResident \/ AdmitImpatient
      BY <3>3 DEF AdmitResident, AdmitImpatient, Pass, Waiting, Scored
    <3>4. CASE DeferAgain \/ DeferFresh
      BY <3>4 DEF DeferAgain, DeferFresh, Waiting, Fresh, Scored
    <3>5. CASE AdmitNow
      BY <3>5 DEF AdmitNow, Fresh, Scored
    <3> QED
      BY <1>1, <1>3, <3>1, <3>2, <3>3, <3>4, <3>5 DEF PlanStep
  <2>2. CallSound'
    BY <1>1, <2>1, DecideSound
  <2> QED
    BY <1>1, <2>1, <2>2 DEF PlanInv, Kept
<1> QED
  BY <1>2, <1>3

LEMMA NextPlan == WalkInv /\ PlanInv /\ [Next]_vars => PlanInv'
<1> SUFFICES ASSUME WalkInv, PlanInv, [Next]_vars PROVE PlanInv'
  OBVIOUS
<1>1. CASE \E jobs \in JobSets : PlanCandidates(jobs)
  BY <1>1, BeginsSound DEF WalkInv
<1>2. CASE ContinuePlan
  BY <1>2, StepSound
<1>3. CASE ResetCache
  BY <1>3 DEF ResetCache, ResetPlanner, PlanInv, Kept, Empty, Planning, Resting
<1>4. CASE ~(\E jobs \in JobSets : PlanCandidates(jobs)) /\ ~ContinuePlan /\ ~ResetCache
  <2>1. call' = call /\ decisions' = decisions /\ files \subseteq files'
    BY <1>4 DEF Next, SchedulerStep, Stores, BeginLookups, Lookup, Run, NoRoom, PrepareStore,
       Prepare, CompleteStore, StoreEnds, Arrive, Land, TimePasses, Tick, vars, planner, world
  <2>2. Planning /\ walk = Idle => walk' = Idle
    BY <1>4 DEF Next, SchedulerStep, Stores, BeginLookups, Lookup, Looking, Run, NoRoom,
       PrepareStore, Prepare, CompleteStore, StoreEnds, Arrive, Land, TimePasses, vars, world
  <2>3. (CallSound => CallSound') /\ Kept(decisions)'
    BY <2>1 DEF CallSound, Kept, Truthful, PlanInv
  <2> QED
    BY <2>1, <2>2, <2>3 DEF PlanInv, Planning, Idle
<1> QED
  BY <1>1, <1>2, <1>3, <1>4

\* Decisions stay while a request is looked up.
LEMMA DecisionsRest ==
  ASSUME PlanInv, [Next]_vars, walk # Idle
  PROVE  decisions' = decisions
<1>1. ~Planning /\ ~Resting
  BY DEF PlanInv, Resting
<1>2. ~ContinuePlan
  BY <1>1 DEF ContinuePlan, PlanStep, DeferBlocked, DeclineMissing, AdmitResident,
     AdmitImpatient, DeferAgain, DeclineBreakEven, AdmitNow, DeferFresh, EndPlan, Candidate,
     Waiting, Scored, Fresh
<1>3. ~(\E jobs \in JobSets : PlanCandidates(jobs)) /\ ~ResetCache /\ ~TimePasses
  BY <1>1 DEF PlanCandidates, ResetCache, TimePasses
<1>4. CASE BeginLookups \/ Lookup \/ Run \/ NoRoom
  BY <1>4 DEF BeginLookups, Lookup, Run, NoRoom, planner
<1>5. CASE Stores
  BY <1>5 DEF Stores, PrepareStore, Prepare, CompleteStore, StoreEnds, planner
<1>6. CASE (\E r \in Reqs : Arrive(r)) \/ (\E h \in Hashes : Land(h)) \/ UNCHANGED vars
  BY <1>6 DEF Arrive, Land, vars, planner
<1> QED
  BY <1>2, <1>3, <1>4, <1>5, <1>6 DEF Next, SchedulerStep

LEMMA NextHit == WalkInv /\ PlanInv /\ HitInv /\ [Next]_vars => HitInv'
<1> SUFFICES ASSUME WalkInv, PlanInv, HitInv, [Next]_vars,
                    walk' # Idle, walk'.over, Decision(walk.req)' = "admit"
             PROVE  walk'.hits > 0
  BY DEF HitInv
<1>1. walk # Idle
  <2>1. CASE BeginLookups
    BY <2>1 DEF BeginLookups
  <2>2. CASE Lookup
    BY <2>2 DEF Lookup, Looking
  <2>3. CASE Run
    BY <2>3 DEF Run
  <2> QED
    BY <2>1, <2>2, <2>3 DEF Next, SchedulerStep, Stores, PlanCandidates, ContinuePlan,
       NoRoom, PrepareStore, Prepare, CompleteStore, StoreEnds, ResetCache, Arrive, Land,
       TimePasses, Resting, vars, manager, world
<1>2. decisions' = decisions
  BY <1>1, DecisionsRest
<1>3. CASE walk' = walk
  BY <1>1, <1>2, <1>3 DEF HitInv, Decision
<1>4. CASE Lookup
  <2>1. FenceInv /\ CacheTrue
    BY DEF WalkInv
  <2>2. /\ walk.req \in Reqs /\ walk.hits \in Nat /\ Missing \in Hashes
        /\ walk'.req = walk.req
        /\ \/ Answer(walk.req, Missing) = "miss" /\ walk'.hits = walk.hits
           \/ walk'.hits = walk.hits + 1
    BY <1>4, <2>1, LookupSteps
  <2>3. CASE walk'.hits = walk.hits + 1
    BY <2>2, <2>3
  <2>4. CASE Answer(walk.req, Missing) = "miss" /\ walk'.hits = walk.hits
    <3>1. walk.req \in DOMAIN decisions /\ decisions[walk.req].decision = "admit"
      BY <1>2, <2>2 DEF Decision
    <3>2. Keys[walk.req][1] \in files
      BY <3>1 DEF PlanInv, Kept
    <3>3. Missing \notin files
      BY <2>4, <3>1 DEF Answer, Decision, Known
    <3>4. walk.hits # 0
      BY <3>2, <3>3 DEF Missing
    <3> QED
      BY <2>2, <2>4, <3>4
  <2> QED
    BY <2>2, <2>3, <2>4
<1> QED
  BY <1>1, <1>3, <1>4, WalkRests

\* What a plan admits is still there when the lookups run (vllm.py:233): the
\* files a plan saw stay, a blocked candidate is never admitted, and no plan
\* changes the decisions while a request is looked up.
THEOREM AdmittedHits == Spec => AdmittedMeansHit
<1>1. Init => WalkInv /\ PlanInv /\ HitInv
  BY InitFence DEF WalkInv, CacheTrue, EndedAlone, PlanInv, HitInv, Kept, Planning, Init,
     PlannerInit, Empty
<1>2. WalkInv /\ PlanInv /\ HitInv /\ [Next]_vars => (WalkInv /\ PlanInv /\ HitInv)'
  BY NextFence, NextCacheTrue, NextEndedAlone, NextPlan, NextHit DEF WalkInv
<1>3. WalkInv /\ HitInv /\ [Next]_vars =>
        [\A r \in Reqs :
           phase[r] = "waiting" /\ phase'[r] = "running" /\ Decision(r) = "admit"
             => walk.hits > 0]_vars
  BY OnlyRunRuns DEF WalkInv, HitInv
<1> QED
  BY <1>1, <1>2, <1>3, PTL DEF Spec, AdmittedMeansHit

-----------------------------------------------------------------------------
(* The shadow queue and the deadlines.                                     *)

EntryType    == [req : Reqs, startsIn : Nat, endsIn : Nat, blocks : Nat]
DeadlineType == [left : Nat, absent : Nat]

\* Reads one after the other, one for a request.
Queue(es) ==
  /\ es \in Seq(EntryType)
  /\ \A i, k \in 1..Len(es) : es[i].req = es[k].req => i = k
  /\ \A i \in 1..Len(es) :
       /\ es[i].startsIn <= es[i].endsIn
       /\ i > 1 => es[i].startsIn = es[i - 1].endsIn

Deadlines == \A r \in DOMAIN deadline : deadline[r] \in DeadlineType

\* The times a call works with, and where its candidates come from.
Times(waits, staging) == waits \in Int /\ \A h \in DOMAIN staging : staging[h] \in Int
OfTheCall == \A i \in 1..Len(call.todo) : call.todo[i] \in Range(call.candidates)

ClockInv ==
  /\ Queue(entries) /\ Deadlines
  /\ Planning => Times(call.storageWait, call.stagedAt) /\ OfTheCall
  /\ NeverDeferredLate

LEMMA MaxExists ==
  ASSUME NEW S \in SUBSET Int, IsFiniteSet(S), S # {}
  PROVE  \E m \in S : \A a \in S : a <= m
<1> DEFINE above(m) == {a \in S : a > m}
           Counts == {Cardinality(above(m)) : m \in S}
<1>1. ASSUME NEW m \in S PROVE IsFiniteSet(above(m)) /\ Cardinality(above(m)) \in Nat
  <2>1. above(m) \in SUBSET S
    OBVIOUS
  <2> QED
    BY <2>1, FS_Subset, FS_CardinalityType
<1>2. Counts \in SUBSET Nat /\ Counts # {}
  BY <1>1
<1>3. PICK n \in Counts : \A k \in Counts : n <= k
  <2> HIDE DEF Counts
  <2> QED
    BY <1>2, LeastNat
<1>4. PICK m \in S : n = Cardinality(above(m))
  BY <1>3
<1>5. ASSUME NEW a \in S, a > m PROVE FALSE
  <2>1. above(a) \in SUBSET above(m) /\ a \in above(m) /\ a \notin above(a)
    <3>1. a \in Int /\ m \in Int /\ ~(a > a) /\ \A x \in S : x \in Int
      OBVIOUS
    <3>2. \A x \in S : x > a => x > m
      BY <1>5, <3>1
    <3>3. \A x \in above(a) : x \in above(m)
      BY <3>2
    <3>4. a \in above(m) /\ a \notin above(a)
      BY <1>5, <3>1
    <3> QED
      BY <3>3, <3>4
  <2>2. above(a) # above(m)
    BY <2>1
  <2>3. Cardinality(above(a)) < Cardinality(above(m))
    <3> HIDE DEF above
    <3>1. Cardinality(above(a)) <= Cardinality(above(m))
      BY <1>1, <2>1, FS_Subset, Zenon
    <3>2. Cardinality(above(a)) # Cardinality(above(m))
      BY <1>1, <2>1, <2>2, FS_Subset, Zenon
    <3>3. Cardinality(above(a)) \in Nat /\ Cardinality(above(m)) \in Nat
      BY <1>1, Zenon
    <3>4. \A x, y \in Nat : x <= y /\ x # y => x < y
      BY ONLY SMT
    <3> QED
      BY ONLY <3>1, <3>2, <3>3, <3>4, Zenon
  <2>4. Cardinality(above(a)) \in Counts
    OBVIOUS
  <2> HIDE DEF above, Counts
  <2> QED
    BY <1>1, <1>3, <1>4, <2>3, <2>4
<1>6. \A a \in S : a <= m
  BY <1>5
<1> QED
  BY <1>6

LEMMA CostNat ==
  ASSUME NEW n \in Nat
  PROVE  Cost(Service, n) \in Nat /\ Cost(Recompute, n) \in Nat /\ Cost(LoadMem, n) \in Nat
<1>1. MinOf(n, MaxBlocks) \in 0..MaxBlocks
  BY PlannerAssumption DEF MinOf
<1> QED
  BY <1>1, PlannerAssumption DEF Cost

\* Reads taken from the front of the queue leave a queue.
LEMMA QueueTail ==
  ASSUME NEW es, Queue(es), NEW n \in Nat
  PROVE  Queue(SubSeq(es, n + 1, Len(es)))
<1> DEFINE q == SubSeq(es, n + 1, Len(es))
<1>1. es \in Seq(EntryType) /\ Len(es) \in Nat
  BY DEF Queue
<1>2. /\ q \in Seq(EntryType) /\ Len(q) \in Nat
      /\ Len(q) = IF n + 1 <= Len(es) THEN Len(es) - n ELSE 0
      /\ \A i \in 1..Len(q) : q[i] = es[n + i]
  <2>1. \A i \in (n + 1)..Len(es) : es[i] \in EntryType
    BY <1>1
  <2>2. /\ q \in Seq(EntryType)
        /\ Len(q) = IF n + 1 <= Len(es) THEN Len(es) - (n + 1) + 1 ELSE 0
        /\ \A i \in 1..(Len(es) - (n + 1) + 1) : q[i] = es[(n + 1) + i - 1]
    BY <1>1, <2>1, SubSeqProperties
  <2> QED
    BY <1>1, <2>2
<1> HIDE DEF q
<1>3. \A i \in 1..Len(q) : n + i \in 1..Len(es) /\ q[i] = es[n + i]
  <2> SUFFICES ASSUME NEW i \in 1..Len(q) PROVE n + i \in 1..Len(es) /\ q[i] = es[n + i]
    OBVIOUS
  <2>1. q[i] = es[n + i]
    BY <1>2
  <2>2. i \in Nat /\ 1 <= i /\ i <= Len(q) /\ Len(q) = Len(es) - n
    BY <1>1, <1>2
  <2> QED
    BY <1>1, <2>1, <2>2
<1>4. \A i, k \in 1..Len(q) : q[i].req = q[k].req => i = k
  <2> SUFFICES ASSUME NEW i \in 1..Len(q), NEW k \in 1..Len(q), q[i].req = q[k].req PROVE i = k
    OBVIOUS
  <2>1. /\ n + i \in 1..Len(es) /\ n + k \in 1..Len(es)
        /\ es[n + i].req = es[n + k].req
    BY <1>3
  <2>2. n + i = n + k
    BY <2>1 DEF Queue
  <2> QED
    BY <1>2, <2>2
<1>5. ASSUME NEW i \in 1..Len(q)
      PROVE  q[i].startsIn <= q[i].endsIn /\ (i > 1 => q[i].startsIn = q[i - 1].endsIn)
  <2>1. q[i].startsIn <= q[i].endsIn
    BY <1>3 DEF Queue
  <2>2. ASSUME i > 1 PROVE q[i].startsIn = q[i - 1].endsIn
    <3>1. i - 1 \in 1..Len(q) /\ n + i > 1 /\ (n + i) - 1 = n + (i - 1) /\ n + i \in 1..Len(es)
      BY <1>2, <1>3, <2>2
    <3>2. es[n + i].startsIn = es[(n + i) - 1].endsIn
      BY <3>1 DEF Queue
    <3> QED
      BY <1>3, <3>1, <3>2
  <2> QED
    BY <2>1, <2>2
<1> QED
  BY <1>2, <1>4, <1>5 DEF Queue, q

LEMMA ResidualNat ==
  ASSUME NEW es, Queue(es)
  PROVE  Residual(es) \in Nat
<1>1. es \in Seq(EntryType)
  BY DEF Queue
<1>2. CASE es # <<>>
  <2>1. Len(es) \in 1..Len(es)
    BY <1>1, <1>2, EmptySeq, LenProperties
  <2>2. es[Len(es)] \in EntryType
    BY <1>1, <2>1
  <2> QED
    BY <1>2, <2>2 DEF Residual, Last, EntryType
<1> QED
  BY <1>2 DEF Residual

\* A new read goes behind the others.
LEMMA QueueAppend ==
  ASSUME NEW es, Queue(es), NEW r \in Reqs, NEW t \in Nat, NEW n \in Nat,
         \A i \in 1..Len(es) : es[i].req # r
  PROVE  Queue(Append(es, [req |-> r, startsIn |-> Residual(es), endsIn |-> Residual(es) + t,
                           blocks |-> n]))
<1> DEFINE e == [req |-> r, startsIn |-> Residual(es), endsIn |-> Residual(es) + t, blocks |-> n]
           q == Append(es, e)
<1>1. es \in Seq(EntryType) /\ Len(es) \in Nat
  BY DEF Queue
<1>2. /\ e \in EntryType /\ e.req = r /\ e.startsIn = Residual(es) /\ e.startsIn <= e.endsIn
  BY ResidualNat DEF EntryType
<1> HIDE DEF e
<1>3. /\ q \in Seq(EntryType) /\ Len(q) = Len(es) + 1 /\ q[Len(es) + 1] = e
      /\ \A i \in 1..Len(es) : q[i] = es[i]
  BY <1>1, <1>2, AppendProperties
<1>4. \A i \in 1..Len(q) : i \in 1..Len(es) \/ i = Len(es) + 1
  BY <1>1, <1>3
<1> HIDE DEF q
<1>5. \A i, k \in 1..Len(q) : q[i].req = q[k].req => i = k
  BY <1>2, <1>3, <1>4 DEF Queue
<1>6. ASSUME NEW i \in 1..Len(q)
      PROVE  q[i].startsIn <= q[i].endsIn /\ (i > 1 => q[i].startsIn = q[i - 1].endsIn)
  <2>1. CASE i \in 1..Len(es)
    <3>1. i > 1 => i - 1 \in 1..Len(es)
      BY <1>1, <2>1
    <3> QED
      BY <1>3, <2>1, <3>1 DEF Queue
  <2>2. CASE i = Len(es) + 1
    <3>1. q[i].startsIn <= q[i].endsIn
      BY <1>2, <1>3, <2>2
    <3>2. ASSUME i > 1 PROVE q[i].startsIn = q[i - 1].endsIn
      <4>1. Len(es) \in 1..Len(es) /\ i - 1 = Len(es) /\ es # <<>>
        BY <1>1, <2>2, <3>2, EmptySeq
      <4>2. Residual(es) = es[Len(es)].endsIn
        BY <4>1 DEF Residual, Last
      <4> QED
        BY <1>2, <1>3, <2>2, <4>1, <4>2
    <3> QED
      BY <3>1, <3>2
  <2> QED
    BY <1>4, <2>1, <2>2
<1> QED
  BY <1>3, <1>5, <1>6 DEF Queue, q, e

\* A tick takes the same off the end of a read and the start of the next.
LEMMA QueueTicks ==
  ASSUME NEW es, Queue(es)
  PROVE  Queue([i \in DOMAIN es |-> Sooner(es[i])])
<1> DEFINE q == [i \in DOMAIN es |-> Sooner(es[i])]
<1>1. es \in Seq(EntryType) /\ Len(es) \in Nat /\ DOMAIN es = 1..Len(es)
  BY DEF Queue
<1>2. ASSUME NEW e \in EntryType
      PROVE  /\ Sooner(e) \in EntryType /\ Sooner(e).req = e.req
             /\ Sooner(e).startsIn = OneLess(e.startsIn)
             /\ Sooner(e).endsIn = OneLess(e.endsIn)
  <2> DEFINE s == OneLess(e.startsIn)
             t == OneLess(e.endsIn)
             y == [e EXCEPT !.startsIn = s]
  <2>1. s \in Nat /\ t \in Nat
    BY DEF EntryType, OneLess, MaxOf
  <2> HIDE DEF s, t
  <2>2. y \in EntryType /\ y.req = e.req /\ y.startsIn = s
    BY <2>1 DEF EntryType
  <2>3. [e EXCEPT !.startsIn = s, !.endsIn = t] = [y EXCEPT !.endsIn = t]
    BY <2>1 DEF EntryType
  <2> HIDE DEF y
  <2>4. /\ [y EXCEPT !.endsIn = t] \in EntryType /\ [y EXCEPT !.endsIn = t].req = y.req
        /\ [y EXCEPT !.endsIn = t].startsIn = y.startsIn
        /\ [y EXCEPT !.endsIn = t].endsIn = t
    BY <2>1, <2>2 DEF EntryType
  <2>5. Sooner(e) = [e EXCEPT !.startsIn = s, !.endsIn = t]
    BY DEF s, t, Sooner
  <2>6. /\ Sooner(e) \in EntryType /\ Sooner(e).req = e.req
        /\ Sooner(e).startsIn = s /\ Sooner(e).endsIn = t
    BY <2>2, <2>3, <2>4, <2>5
  <2> QED
    BY <2>6 DEF s, t
<1>3. /\ q \in Seq(EntryType) /\ Len(q) = Len(es)
      /\ \A i \in 1..Len(es) : /\ q[i].req = es[i].req
                               /\ q[i].startsIn = OneLess(es[i].startsIn)
                               /\ q[i].endsIn = OneLess(es[i].endsIn)
  <2>1. \A i \in 1..Len(es) : es[i] \in EntryType
    BY <1>1
  <2>2. \A i \in 1..Len(es) : /\ Sooner(es[i]) \in EntryType
                               /\ Sooner(es[i]).req = es[i].req
                               /\ Sooner(es[i]).startsIn = OneLess(es[i].startsIn)
                               /\ Sooner(es[i]).endsIn = OneLess(es[i].endsIn)
    BY <1>2, <2>1
  <2>3. q = [i \in 1..Len(es) |-> Sooner(es[i])]
    BY <1>1
  <2> HIDE DEF q
  <2> QED
    BY <1>1, <2>2, <2>3
<1> HIDE DEF q
<1>4. \A i, k \in 1..Len(q) : q[i].req = q[k].req => i = k
  BY <1>3 DEF Queue
<1>5. \A s, t \in Nat : s <= t => OneLess(s) <= OneLess(t)
  BY DEF OneLess, MaxOf
<1>6. ASSUME NEW i \in 1..Len(q)
      PROVE  q[i].startsIn <= q[i].endsIn /\ (i > 1 => q[i].startsIn = q[i - 1].endsIn)
  <2>1. es[i].startsIn \in Nat /\ es[i].endsIn \in Nat /\ es[i].startsIn <= es[i].endsIn
    <3>1. i \in 1..Len(es)
      BY <1>3
    <3>2. es[i] \in EntryType
      BY <1>1, <3>1
    <3>3. es[i].startsIn <= es[i].endsIn
      BY <3>1 DEF Queue
    <3> QED
      BY <3>2, <3>3 DEF EntryType
  <2>2. i > 1 => i - 1 \in 1..Len(es) /\ es[i].startsIn = es[i - 1].endsIn
    BY <1>1, <1>3 DEF Queue
  <2> QED
    BY <1>3, <1>5, <2>1, <2>2
<1>7. Queue(q)
  BY <1>3, <1>4, <1>6 DEF Queue
<1> QED
  BY <1>7 DEF q

LEMMA ImageFinite ==
  ASSUME NEW S, IsFiniteSet(S), NEW f
  PROVE  IsFiniteSet({f[x] : x \in S})
<1> DEFINE g == [x \in S |-> f[x]]
           T == {f[x] : x \in S}
<1>1. g \in Surjection(S, T)
  BY DEF Surjection
<1> HIDE DEF g, T
<1>2. IsFiniteSet(T)
  BY <1>1, FS_Surjection, Zenon
<1> QED
  BY <1>2 DEF T

\* What the steps know of the candidate they decide on.
LEMMA CandidateFacts ==
  ASSUME PlanInv, ClockInv, Candidate
  PROVE  /\ CallSound /\ call.todo \in Seq(CandidateType) /\ call.todo # <<>>
         /\ cand = call.todo[1] /\ cand \in CandidateType /\ cand \in Range(call.candidates)
         /\ LoadBlocks \in Nat /\ ReadTime \in Nat
         /\ CoveredReady \in Int /\ StorageDone \in Int
         /\ call.storageWait \in Int
<1>1. /\ CallSound /\ call.todo \in Seq(CandidateType) /\ call.todo # <<>>
      /\ Times(call.storageWait, call.stagedAt) /\ OfTheCall
  BY DEF PlanInv, ClockInv, Candidate, CallSound
<1>2. 1 \in 1..Len(call.todo) /\ cand = call.todo[1]
  BY <1>1, EmptySeq, LenProperties DEF cand
<1>3. cand \in CandidateType /\ cand \in Range(call.candidates)
  BY <1>1, <1>2 DEF OfTheCall
<1>4. cand.hashes \in Seq(Hashes) /\ LoadBlocks \in Nat
  BY <1>3, LenProperties DEF CandidateType, LoadBlocks
<1>5. IsFiniteSet(Range(cand.hashes))
  <2> DEFINE n == Len(cand.hashes)
  <2>0. 1 \in Int /\ n \in Int /\ DOMAIN cand.hashes = 1..n
    BY <1>4, LenProperties
  <2> HIDE DEF n
  <2>1. IsFiniteSet(1..n)
    BY <2>0, FS_Interval, Zenon
  <2>2. Range(cand.hashes) = {cand.hashes[i] : i \in DOMAIN cand.hashes}
    BY DEF Range
  <2> QED
    BY <2>0, <2>1, <2>2, ImageFinite
<1>6. Distinct \in Nat
  <2>1. Uncovered \in SUBSET Range(cand.hashes)
    BY DEF Uncovered
  <2> QED
    BY <1>5, <2>1, FS_Subset, FS_CardinalityType DEF Distinct
<1>7. ReadTime \in Nat /\ Cost(Service, Distinct) \in Nat
  BY <1>6, CostNat DEF ReadTime
<1>8. CoveredReady \in Int
  <2> DEFINE covered == Range(cand.hashes) \ Uncovered
             at == {call.stagedAt[h] : h \in covered}
  <2>1. \A h \in covered : call.stagedAt[h] \in Int
    BY <1>1 DEF Times, Uncovered
  <2>2. IsFiniteSet(covered)
    BY <1>5, FS_Subset
  <2> HIDE DEF covered
  <2>3. at \in SUBSET Int /\ IsFiniteSet(at)
    BY <2>1, <2>2, ImageFinite
  <2>4. CoveredReady = IF at = {} THEN 0 ELSE CHOOSE m \in at : \A a \in at : a <= m
    BY DEF CoveredReady, covered
  <2> HIDE DEF at
  <2>5. CASE at = {}
    BY <2>4, <2>5
  <2>6. CASE at # {}
    <3>1. \E m \in at : \A a \in at : a <= m
      BY <2>3, <2>6, MaxExists
    <3>2. CoveredReady \in at
      BY <2>4, <2>6, <3>1
    <3> QED
      BY <2>3, <3>2
  <2> QED
    BY <2>5, <2>6
<1>9. call.storageWait \in Int
  BY <1>1 DEF Times
<1>10. StorageDone \in Int
  BY <1>7, <1>8, <1>9 DEF StorageDone, MaxOf
<1> QED
  BY <1>1, <1>2, <1>3, <1>4, <1>7, <1>8, <1>9, <1>10

\* Deliveries are recorded as times.
LEMMA RecordTimes ==
  ASSUME NEW hashes \in Seq(Hashes), NEW start \in Int, NEW end \in Int,
         \A h \in DOMAIN call.stagedAt : call.stagedAt[h] \in Int
  PROVE  LET s == RecordStaged(hashes, start, end)
         IN  \A h \in DOMAIN s : s[h] \in Int
<1> DEFINE n == Len(hashes)
           place(h) == CHOOSE k \in 1..n : hashes[k] = h
           time(h) == start + (MaxOf(0, end - start) * place(h) + n - 1) \div n
           ready == [h \in Range(hashes) |-> time(h)]
           new(h) == IF h \notin Range(hashes) THEN call.stagedAt[h]
                     ELSE IF h \in DOMAIN call.stagedAt THEN MinOf(ready[h], call.stagedAt[h])
                     ELSE ready[h]
           s == RecordStaged(hashes, start, end)
<1>1. n \in Nat /\ DOMAIN hashes = 1..n
  BY LenProperties
<1>2. ASSUME NEW h \in Range(hashes) PROVE ready[h] \in Int
  <2>1. \E k \in 1..n : hashes[k] = h
    BY <1>1 DEF Range
  <2>2. place(h) \in 1..n
    BY <2>1
  <2> DEFINE total == MaxOf(0, end - start) * place(h) + n - 1
  <2>3. total \in Int
    <3>1. MaxOf(0, end - start) \in Int
      BY DEF MaxOf
    <3> DEFINE m == MaxOf(0, end - start)
               p == place(h)
    <3>2. p \in Int /\ n \in Int /\ m \in Int
      BY <1>1, <2>2, <3>1
    <3> HIDE DEF m, p, n
    <3>3. m * p + n - 1 \in Int
      BY <3>2
    <3> QED
      BY <3>3 DEF m, p, n
  <2>4. n > 0
    BY <1>1, <2>2
  <2>5. ready[h] = start + total \div n
    OBVIOUS
  <2> HIDE DEF total, n, ready
  <2>6. total \div n \in Int
    BY <1>1, <2>3, <2>4
  <2> QED
    BY <2>5, <2>6
<1>3. s = [h \in DOMAIN call.stagedAt \cup Range(hashes) |-> new(h)]
  BY DEF RecordStaged
<1> HIDE DEF ready, s, n
<1>4. \A h \in DOMAIN call.stagedAt \cup Range(hashes) : new(h) \in Int
  BY <1>2 DEF MinOf
<1> HIDE DEF new
<1>5. \A h \in DOMAIN s : s[h] \in Int
  BY <1>3, <1>4
<1> QED
  BY <1>5 DEF s

\* A decision leaves the call's times, its candidates and its deferrals as
\* the invariant has them.
LEMMA DecideClock ==
  ASSUME PlanInv, ClockInv, Candidate,
         NEW decision, NEW blocks, NEW gpuWait, NEW storageWait, NEW budget, NEW stagedAt,
         Decide(decision, blocks, gpuWait, storageWait, budget, stagedAt),
         Times(storageWait, stagedAt),
         \A r \in DOMAIN deadline : r \in DOMAIN deadline' /\ deadline'[r] = deadline[r],
         decision = "defer" =>
           cand.blocked \/ (cand.req \in DOMAIN deadline' /\ deadline'[cand.req].left > 0)
  PROVE  Times(call'.storageWait, call'.stagedAt) /\ OfTheCall' /\ NeverDeferredLate'
<1>1. /\ CallSound /\ call.todo \in Seq(CandidateType) /\ call.todo # <<>>
      /\ cand \in Range(call.candidates)
  BY CandidateFacts
<1>2. /\ call'.todo = Tail(call.todo) /\ call'.candidates = call.candidates
      /\ call'.storageWait = storageWait /\ call'.stagedAt = stagedAt
      /\ call'.decided = With(call.decided, cand.req, [decision |-> decision, blocks |-> blocks])
  BY <1>1 DEF Decide, CallSound
<1>3. \A i \in 1..Len(call'.todo) : /\ i + 1 \in 1..Len(call.todo)
                                    /\ call'.todo[i] = call.todo[i + 1]
  BY <1>1, <1>2, HeadTailProperties
<1>4. OfTheCall'
  BY <1>2, <1>3 DEF ClockInv, OfTheCall, Candidate
<1>5. BlockedNow' = BlockedNow
  BY <1>2 DEF BlockedNow
<1>6. cand.blocked => cand.req \in BlockedNow
  BY <1>1 DEF BlockedNow
<1>7. ASSUME NEW r \in DOMAIN call'.decided,
             call'.decided[r].decision = "defer", r \notin BlockedNow'
      PROVE  r \in DOMAIN deadline' /\ deadline'[r].left > 0
  <2>1. CASE r = cand.req
    <3>1. decision = "defer"
      BY <1>2, <1>7, <2>1 DEF With
    <3> QED
      BY <1>5, <1>6, <1>7, <2>1, <3>1
  <2>2. CASE r # cand.req
    <3>1. r \in DOMAIN call.decided /\ call.decided[r].decision = "defer"
      BY <1>2, <1>7, <2>2 DEF With
    <3>2. r \in DOMAIN deadline /\ deadline[r].left > 0
      BY <1>5, <1>7, <3>1 DEF ClockInv, NeverDeferredLate, Candidate
    <3> QED
      BY <3>2
  <2> QED
    BY <2>1, <2>2
<1>8. NeverDeferredLate'
  BY <1>7 DEF NeverDeferredLate
<1> QED
  BY <1>2, <1>4, <1>8

\* A deferral leaves its request an armed deadline, and the others theirs.
LEMMA ArmFacts ==
  ASSUME PlanInv, ClockInv, Candidate, ~Expired, NEW wait \in Int, ArmDeadline(wait)
  PROVE  /\ Deadlines'
         /\ \A r \in DOMAIN deadline : r \in DOMAIN deadline' /\ deadline'[r] = deadline[r]
         /\ cand.req \in DOMAIN deadline' /\ deadline'[cand.req].left > 0
<1> DEFINE grace == MinOf(MaxGrace, MaxOf(MinGrace, Tolerance * wait))
           d == [left |-> grace, absent |-> 0]
<1>1. grace \in Nat /\ grace > 0
  <2> DEFINE x == Tolerance * wait
  <2>1. x \in Int
    BY PlannerAssumption
  <2> HIDE DEF x
  <2>2. MinOf(MaxGrace, MaxOf(MinGrace, x)) \in Nat /\ MinOf(MaxGrace, MaxOf(MinGrace, x)) > 0
    <3>1. MinGrace \in Nat \ {0} /\ MaxGrace \in Nat \ {0}
      BY PlannerAssumption, Zenon
    <3>2. MinGrace \in Nat /\ MinGrace > 0 /\ MaxGrace \in Nat /\ MaxGrace > 0
      BY <3>1
    <3> DEFINE y == MaxOf(MinGrace, x)
    <3> HIDE DEF y
    <3>3. y \in Int /\ y >= MinGrace
      BY <2>1, <3>2 DEF y, MaxOf
    <3>4. MinOf(MaxGrace, y) \in Nat /\ MinOf(MaxGrace, y) > 0
      BY <3>2, <3>3 DEF MinOf
    <3> QED
      BY <3>4 DEF y
  <2> QED
    BY <2>2 DEF x
<1>2. CASE cand.req \in DOMAIN deadline
  <2>1. deadline' = deadline
    BY <1>2 DEF ArmDeadline
  <2>2. deadline[cand.req] \in DeadlineType /\ deadline[cand.req].left # 0
    BY <1>2 DEF ClockInv, Deadlines, Expired
  <2> QED
    BY <1>2, <2>1, <2>2 DEF ClockInv, Deadlines, DeadlineType
<1>3. CASE cand.req \notin DOMAIN deadline
  <2>1. deadline' = With(deadline, cand.req, d)
    BY <1>3 DEF ArmDeadline
  <2>2. d \in DeadlineType /\ d.left > 0
    BY <1>1 DEF DeadlineType
  <2> HIDE DEF d
  <2> QED
    BY <1>3, <2>1, <2>2 DEF ClockInv, Deadlines, With
<1> QED
  BY <1>2, <1>3

\* The reads a request is told to wait for.
LEMMA OwnReadType ==
  ASSUME ClockInv, Outstanding # {}
  PROVE  OwnRead \in EntryType
BY DEF ClockInv, Queue, OwnRead, Outstanding

LEMMA PrefixType ==
  ASSUME PlanInv, ClockInv, Candidate, NEW n \in Nat
  PROVE  Prefix(n) \in Seq(Hashes)
<1>1. cand.hashes \in Seq(Hashes) /\ LoadBlocks \in Nat /\ LoadBlocks = Len(cand.hashes)
  BY CandidateFacts DEF CandidateType, LoadBlocks
<1>2. MinOf(n, LoadBlocks) \in 0..Len(cand.hashes)
  BY <1>1 DEF MinOf
<1>3. \A i \in 1..MinOf(n, LoadBlocks) : cand.hashes[i] \in Hashes
  BY <1>1, <1>2
<1> QED
  BY <1>1, <1>2, <1>3, SubSeqProperties DEF Prefix

\* A request without a read in the queue gets one behind the others.
LEMMA AppendQueue ==
  ASSUME PlanInv, ClockInv, Candidate, Outstanding = {}, AppendShadowEntry
  PROVE  Queue(entries')
<1>1. Queue(entries) /\ entries \in Seq(EntryType)
  BY DEF ClockInv, Queue
<1>2. cand.req \in Reqs /\ ReadTime \in Nat /\ LoadBlocks \in Nat
  BY CandidateFacts DEF CandidateType
<1>3. \A i \in 1..Len(entries) : entries[i].req # cand.req
  BY <1>1 DEF Outstanding
<1> QED
  BY <1>1, <1>2, <1>3, QueueAppend DEF AppendShadowEntry

LEMMA DeferBlockedClock ==
  ASSUME PlanInv, ClockInv, DeferBlocked
  PROVE  ClockInv'
<1>1. /\ Candidate /\ cand.blocked /\ deadline' = deadline
  BY DEF DeferBlocked
<1>2. /\ cand \in CandidateType /\ call.storageWait \in Int /\ ReadTime \in Nat
      /\ \A h \in DOMAIN call.stagedAt : call.stagedAt[h] \in Int
  BY <1>1, CandidateFacts DEF ClockInv, Times, Candidate
<1>3. Deadlines' /\ \A r \in DOMAIN deadline : r \in DOMAIN deadline' /\ deadline'[r] = deadline[r]
  BY <1>1 DEF ClockInv, Deadlines
<1>4. CASE Outstanding # {}
  <2>1. /\ Decide("defer", OwnRead.blocks, call.gpuWait, call.storageWait, call.budget,
                  RecordStaged(Prefix(OwnRead.blocks), OwnRead.startsIn, OwnRead.endsIn))
        /\ entries' = entries
    BY <1>4 DEF DeferBlocked
  <2>2. OwnRead.blocks \in Nat /\ OwnRead.startsIn \in Int /\ OwnRead.endsIn \in Int
    BY <1>4, OwnReadType DEF EntryType
  <2>3. Prefix(OwnRead.blocks) \in Seq(Hashes)
    BY <1>1, <2>2, PrefixType
  <2>4. Times(call.storageWait, RecordStaged(Prefix(OwnRead.blocks), OwnRead.startsIn, OwnRead.endsIn))
    BY <1>2, <2>2, <2>3, RecordTimes DEF Times
  <2>5. Times(call'.storageWait, call'.stagedAt) /\ OfTheCall' /\ NeverDeferredLate'
    BY <1>1, <1>3, <2>1, <2>4, DecideClock
  <2> QED
    BY <1>3, <2>1, <2>5 DEF ClockInv
<1>5. CASE /\ Outstanding = {} /\ AppendShadowEntry
           /\ Decide("defer", LoadBlocks, call.gpuWait, call.storageWait + ReadTime,
                     call.budget - Distinct,
                     RecordStaged(cand.hashes, call.storageWait, call.storageWait + ReadTime))
  <2> DEFINE start == call.storageWait
             end == call.storageWait + ReadTime
  <2>1. /\ Decide("defer", LoadBlocks, call.gpuWait, end, call.budget - Distinct,
                  RecordStaged(cand.hashes, start, end))
        /\ AppendShadowEntry
    BY <1>5
  <2>2. cand.hashes \in Seq(Hashes) /\ start \in Int /\ end \in Int
    BY <1>2 DEF CandidateType
  <2> HIDE DEF start, end
  <2>3. Times(end, RecordStaged(cand.hashes, start, end))
    BY <1>2, <2>2, RecordTimes DEF Times
  <2>4. Times(call'.storageWait, call'.stagedAt) /\ OfTheCall' /\ NeverDeferredLate'
    BY <1>1, <1>3, <2>1, <2>3, DecideClock
  <2>5. Queue(entries')
    BY <1>1, <1>5, <2>1, AppendQueue
  <2> QED
    BY <1>3, <2>4, <2>5 DEF ClockInv
<1>6. CASE Pass("defer", 0) /\ entries' = entries
  <2>1. /\ Decide("defer", 0, call.gpuWait, call.storageWait, call.budget, call.stagedAt)
        /\ entries' = entries
    BY <1>6 DEF Pass
  <2>2. Times(call.storageWait, call.stagedAt)
    BY <1>2 DEF Times
  <2>3. Times(call'.storageWait, call'.stagedAt) /\ OfTheCall' /\ NeverDeferredLate'
    BY <1>1, <1>3, <2>1, <2>2, DecideClock
  <2> QED
    BY <1>3, <2>1, <2>3 DEF ClockInv
<1> QED
  BY <1>4, <1>5, <1>6 DEF DeferBlocked

LEMMA DeferAgainClock ==
  ASSUME PlanInv, ClockInv, DeferAgain
  PROVE  ClockInv'
<1> DEFINE s == RecordStaged(Prefix(OwnRead.blocks), OwnRead.startsIn, OwnRead.endsIn)
<1>1. /\ Candidate /\ Outstanding # {} /\ ~Expired /\ ArmDeadline(OwnRead.endsIn)
      /\ entries' = entries
      /\ Decide("defer", OwnRead.blocks, call.gpuWait, call.storageWait, call.budget, s)
  BY DEF DeferAgain, Waiting, Scored
<1>2. OwnRead.blocks \in Nat /\ OwnRead.startsIn \in Int /\ OwnRead.endsIn \in Int
  BY <1>1, OwnReadType DEF EntryType
<1>3. Prefix(OwnRead.blocks) \in Seq(Hashes)
  BY <1>1, <1>2, PrefixType
<1>4. Times(call.storageWait, s)
  BY <1>1, <1>2, <1>3, RecordTimes DEF ClockInv, Times, Candidate
<1> HIDE DEF s
<1>5. /\ Deadlines'
      /\ \A r \in DOMAIN deadline : r \in DOMAIN deadline' /\ deadline'[r] = deadline[r]
      /\ cand.req \in DOMAIN deadline' /\ deadline'[cand.req].left > 0
  BY <1>1, <1>2, ArmFacts
<1>6. Times(call'.storageWait, call'.stagedAt) /\ OfTheCall' /\ NeverDeferredLate'
  BY <1>1, <1>4, <1>5, DecideClock
<1> QED
  BY <1>1, <1>5, <1>6 DEF ClockInv

LEMMA DeferFreshClock ==
  ASSUME PlanInv, ClockInv, DeferFresh
  PROVE  ClockInv'
<1> DEFINE end   == call.storageWait + ReadTime
           start == IF Distinct = 0 THEN MaxOf(call.storageWait, CoveredReady)
                    ELSE call.storageWait
           s == RecordStaged(cand.hashes, start, MaxOf(end, CoveredReady))
<1>1. /\ Candidate /\ Outstanding = {} /\ ~Expired /\ ArmDeadline(StorageDone)
      /\ AppendShadowEntry
      /\ Decide("defer", LoadBlocks, call.gpuWait, end, call.budget - Distinct, s)
  BY DEF DeferFresh, Fresh, Scored
<1>2. /\ cand.hashes \in Seq(Hashes) /\ call.storageWait \in Int /\ ReadTime \in Nat
      /\ CoveredReady \in Int /\ StorageDone \in Int
      /\ \A h \in DOMAIN call.stagedAt : call.stagedAt[h] \in Int
  BY <1>1, CandidateFacts DEF CandidateType, ClockInv, Times, Candidate
<1>3. end \in Int /\ start \in Int /\ MaxOf(end, CoveredReady) \in Int
  BY <1>2 DEF MaxOf
<1> HIDE DEF end, start
<1>4. Times(end, s)
  BY <1>2, <1>3, RecordTimes DEF Times
<1> HIDE DEF s
<1>5. /\ Deadlines'
      /\ \A r \in DOMAIN deadline : r \in DOMAIN deadline' /\ deadline'[r] = deadline[r]
      /\ cand.req \in DOMAIN deadline' /\ deadline'[cand.req].left > 0
  BY <1>1, <1>2, ArmFacts
<1>6. Times(call'.storageWait, call'.stagedAt) /\ OfTheCall' /\ NeverDeferredLate'
  BY <1>1, <1>4, <1>5, DecideClock
<1>7. Queue(entries')
  BY <1>1, AppendQueue
<1> QED
  BY <1>5, <1>6, <1>7 DEF ClockInv

\* The steps that admit or decline leave queue and deadlines alone.
LEMMA NotDeferredClock ==
  ASSUME PlanInv, ClockInv,
         DeclineMissing \/ DeclineBreakEven \/ AdmitResident \/ AdmitImpatient \/ AdmitNow
  PROVE  ClockInv'
<1>1. /\ Candidate /\ UNCHANGED <<entries, deadline>>
      /\ \E decision, gpuWait, storageWait :
           /\ Decide(decision, 0, gpuWait, storageWait, call.budget, call.stagedAt)
           /\ decision # "defer"
           /\ storageWait = call.storageWait \/ storageWait = StorageDone
  <2>1. CASE DeclineMissing \/ DeclineBreakEven
    BY <2>1 DEF DeclineMissing, DeclineBreakEven, Decline, Fresh, Scored
  <2>2. CASE AdmitResident \/ AdmitImpatient
    BY <2>2 DEF AdmitResident, AdmitImpatient, Pass, Waiting, Scored
  <2>3. CASE AdmitNow
    BY <2>3 DEF AdmitNow, Fresh, Scored
  <2> QED
    BY <2>1, <2>2, <2>3
<1>2. PICK decision, gpuWait, storageWait :
           /\ Decide(decision, 0, gpuWait, storageWait, call.budget, call.stagedAt)
           /\ decision # "defer"
           /\ storageWait = call.storageWait \/ storageWait = StorageDone
  BY <1>1
<1>3. Times(storageWait, call.stagedAt)
  BY <1>1, <1>2, CandidateFacts DEF ClockInv, Times, Candidate
<1>4. Times(call'.storageWait, call'.stagedAt) /\ OfTheCall' /\ NeverDeferredLate'
  BY <1>1, <1>2, <1>3, DecideClock
<1> QED
  BY <1>1, <1>4 DEF ClockInv, Deadlines

LEMMA BeginsClock ==
  ASSUME CacheTrue, ClockInv, NEW jobs \in JobSets, PlanCandidates(jobs)
  PROVE  ClockInv'
<1> DEFINE present == {Candidates[i].req : i \in DOMAIN Candidates}
           queue   == SubSeq(entries, Cardinality(Due) + 1, Len(entries))
<1>1. BeginPlan(Candidates, jobs)
  BY DEF PlanCandidates
<1>2. /\ entries' = queue /\ deadline' = GcDeadlines(present)
      /\ call'.todo = Candidates /\ call'.candidates = Candidates
      /\ call'.decided = Empty /\ call'.stagedAt = Empty
      /\ call'.storageWait = MaxOf(Residual(queue), JobsFloor(jobs))
  BY <1>1 DEF BeginPlan
<1>3. Cardinality(Due) \in Nat
  <2>1. Due \in SUBSET (1..Len(entries)) /\ Len(entries) \in Nat
    BY LenProperties DEF Due, ClockInv, Queue
  <2>2. IsFiniteSet(1..Len(entries))
    BY <2>1, FS_Interval
  <2> QED
    BY <2>1, <2>2, FS_Subset, FS_CardinalityType
<1>4. Queue(queue)
  BY <1>3, QueueTail DEF ClockInv
<1> HIDE DEF queue
<1>5. Deadlines'
  <2> DEFINE aged == [r \in DOMAIN deadline |->
                        [deadline[r] EXCEPT !.absent = AbsentFor(deadline[r].absent, r, present)]]
             late == {r \in DOMAIN aged : aged[r].absent > AbsenceLimit}
  <2>1. ASSUME NEW r \in DOMAIN deadline PROVE aged[r] \in DeadlineType
    <3> DEFINE n == AbsentFor(deadline[r].absent, r, present)
    <3>1. deadline[r] \in DeadlineType
      BY DEF ClockInv, Deadlines
    <3>2. n \in Nat
      BY <3>1 DEF AbsentFor, DeadlineType
    <3>3. aged[r] = [deadline[r] EXCEPT !.absent = n]
      OBVIOUS
    <3> HIDE DEF n, aged
    <3> QED
      BY <3>1, <3>2, <3>3 DEF DeadlineType
  <2>2. DOMAIN aged = DOMAIN deadline
    OBVIOUS
  <2>3. deadline' = Without(aged, late)
    BY <1>2 DEF GcDeadlines
  <2> HIDE DEF aged, late
  <2> QED
    BY <2>1, <2>2, <2>3 DEF Deadlines, Without
<1>6. MaxOf(Residual(queue), JobsFloor(jobs)) \in Int
  <2>1. JobsFloor(jobs) \in Nat
    BY ManagerAssumption
  <2> QED
    BY <1>4, <2>1, ResidualNat DEF MaxOf
<1>7. Times(call'.storageWait, call'.stagedAt)
  BY <1>2, <1>6 DEF Times, Empty
<1>8. OfTheCall'
  <2>1. DOMAIN Candidates = 1..Len(Candidates)
    BY CandidatesTrue, LenProperties
  <2> QED
    BY <1>2, <2>1 DEF OfTheCall, Range
<1>9. NeverDeferredLate'
  BY <1>2 DEF NeverDeferredLate, Empty
<1> QED
  BY <1>2, <1>4, <1>5, <1>7, <1>8, <1>9 DEF ClockInv

LEMMA NextClock == WalkInv /\ PlanInv /\ ClockInv /\ [Next]_vars => ClockInv'
<1> SUFFICES ASSUME WalkInv, PlanInv, ClockInv, [Next]_vars PROVE ClockInv'
  OBVIOUS
<1>1. CASE \E jobs \in JobSets : PlanCandidates(jobs)
  BY <1>1, BeginsClock DEF WalkInv
<1>2. CASE ContinuePlan
  <2>1. CASE EndPlan
    <3>1. UNCHANGED <<entries, deadline>> /\ ~Planning'
      BY <2>1 DEF EndPlan, Planning
    <3> QED
      BY <3>1 DEF ClockInv, Deadlines, NeverDeferredLate
  <2> QED
    BY <1>2, <2>1, DeferBlockedClock, DeferAgainClock, DeferFreshClock, NotDeferredClock
    DEF ContinuePlan, PlanStep
<1>3. CASE ResetCache
  <2>1. entries' = <<>> /\ deadline' = Empty /\ ~Planning'
    BY <1>3 DEF ResetCache, ResetPlanner, Planning
  <2>2. Queue(<<>>)
    BY EmptySeq DEF Queue
  <2> QED
    BY <2>1, <2>2 DEF ClockInv, Deadlines, Empty, NeverDeferredLate
<1>4. CASE TimePasses
  <2>1. /\ entries' = [i \in DOMAIN entries |-> Sooner(entries[i])]
        /\ deadline' = [r \in DOMAIN deadline |-> [deadline[r] EXCEPT !.left = OneLess(deadline[r].left)]]
        /\ ~Planning'
    BY <1>4 DEF TimePasses, Tick, Planning
  <2>2. Queue(entries')
    BY <2>1, QueueTicks DEF ClockInv
  <2>3. ASSUME NEW r \in DOMAIN deadline PROVE deadline'[r] \in DeadlineType
    <3> DEFINE n == OneLess(deadline[r].left)
    <3>1. deadline[r] \in DeadlineType
      BY DEF ClockInv, Deadlines
    <3>2. n \in Nat
      BY <3>1 DEF OneLess, MaxOf, DeadlineType
    <3>3. deadline'[r] = [deadline[r] EXCEPT !.left = n]
      BY <2>1
    <3> HIDE DEF n
    <3> QED
      BY <3>1, <3>2, <3>3 DEF DeadlineType
  <2>4. Deadlines'
    BY <2>1, <2>3 DEF Deadlines
  <2> QED
    BY <2>1, <2>2, <2>4 DEF ClockInv, NeverDeferredLate
<1>5. CASE /\ ~(\E jobs \in JobSets : PlanCandidates(jobs))
           /\ ~ContinuePlan /\ ~ResetCache /\ ~TimePasses
  <2>1. UNCHANGED <<entries, deadline, call>>
    BY <1>5 DEF Next, SchedulerStep, Stores, BeginLookups, Lookup, Run, NoRoom, PrepareStore,
       Prepare, CompleteStore, StoreEnds, Arrive, Land, vars, planner
  <2> QED
    BY <2>1 DEF ClockInv, Deadlines, OfTheCall, NeverDeferredLate, BlockedNow, Planning
<1> QED
  BY <1>1, <1>2, <1>3, <1>4, <1>5

LEMMA ClockInductive == Spec => []ClockInv
<1>1. Init => WalkInv /\ PlanInv /\ ClockInv
  <2> SUFFICES ASSUME Init PROVE WalkInv /\ PlanInv /\ ClockInv
    OBVIOUS
  <2>1. WalkInv /\ PlanInv
    BY InitFence DEF WalkInv, CacheTrue, EndedAlone, PlanInv, Kept, Planning, Init, PlannerInit,
       Empty
  <2>2. Queue(<<>>)
    BY EmptySeq DEF Queue
  <2> QED
    BY <2>1, <2>2 DEF Init, PlannerInit, ClockInv, Deadlines, Empty, NeverDeferredLate, Planning
<1>2. WalkInv /\ PlanInv /\ ClockInv /\ [Next]_vars => (WalkInv /\ PlanInv /\ ClockInv)'
  BY NextFence, NextCacheTrue, NextEndedAlone, NextPlan, NextClock DEF WalkInv
<1> QED
  BY <1>1, <1>2, PTL DEF Spec

\* The shadow queue holds one read for a request and the reads follow each
\* other without gap or overlap, whatever plans, re-emissions, ticks and
\* resets come (load_planner.py:218, 402): a read is appended only for a
\* request that has none.
THEOREM QueueIsSound == Spec => []ShadowQueueSound
<1>1. ClockInv => ShadowQueueSound
  <2> SUFFICES ASSUME ClockInv PROVE ShadowQueueSound
    OBVIOUS
  <2>1. DOMAIN entries = 1..Len(entries)
    BY DEF ClockInv, Queue
  <2> QED
    BY <2>1 DEF ClockInv, Queue, ShadowQueueSound
<1> QED
  BY <1>1, ClockInductive, PTL

\* A request whose deadline has passed is not deferred again unless a prefix
\* block is being written (README.md:156): the plan that defers it leaves it
\* an armed deadline in the future.
THEOREM DeadlinesAreKept == Spec => []NeverDeferredLate
<1>1. ClockInv => NeverDeferredLate
  BY DEF ClockInv
<1> QED
  BY <1>1, ClockInductive, PTL
=============================================================================
