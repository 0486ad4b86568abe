------------------------------ MODULE Manager ------------------------------
(***************************************************************************)
(* SharedStorageOffloadingManager: the scheduler's side of the offload.    *)
(* It answers for each block of a waiting request whether a file holds it, *)
(* fences the blocks that are being written, and asks the LoadPlanner.     *)
(* The vLLM scheduler that calls it (its steps, its waiting requests) and  *)
(* the workers that publish the files are external.                        *)
(***************************************************************************)
EXTENDS LoadPlanner

CONSTANTS
  Keys,          \* blocks of each request's prompt, a sequence of hashes
  Order,         \* the requests by priority
  Window,        \* preload_lookahead_requests
  JobSets,       \* outstanding_load_blocks the worker may report
  OnDisk,        \* blocks published before
  OtherEngine,   \* blocks another engine may publish meanwhile
  MaxNoRoom,     \* bound: times a request finds no room on the GPU
  MaxResets,     \* bound: reset_cache calls
  MaxFailures,   \* bound: store jobs that fail
  NoReq

ASSUME ManagerAssumption ==
  /\ Keys \in [Reqs -> Seq(Hashes) \ {<<>>}] /\ OnDisk \subseteq Hashes
  /\ NoReq \notin Reqs /\ IsFiniteSet(Reqs) /\ Order \in Seq(Reqs)
  /\ {Window, MaxNoRoom, MaxResets, MaxFailures} \subseteq Nat
  \* a block's hash covers all blocks before it
  /\ \A r \in Reqs : \A i, k \in DOMAIN Keys[r] : Keys[r][i] = Keys[r][k] => i = k
  /\ \A jobs \in JobSets : JobsFloor(jobs) \in Nat   \* a sum of costs

VARIABLES
  lookupCache,   \* _lookup_cache: positive hits
  lastIoReq,     \* _last_io_req_id
  inflight,      \* _store_inflight: stores counted per hash
  files,         \* blocks under their final names
  phase,         \* of each request: new, waiting or running
  walk,          \* request being looked up, its hits, and whether that is over
  turn,          \* requests still to be looked up in this scheduler step
  offered,       \* blocks at the head of each prompt offered to prepare_store
  storing,       \* hashes prepared for each request and not completed
  spent,         \* resets, failures and refusals so far
  unfenced       \* history: a reset has forgotten stores still under way

manager == <<lookupCache, lastIoReq, inflight>>
stores  == <<offered, storing>>
world   == <<files, phase, walk, turn, stores, spent, unfenced>>
vars    == <<planner, manager, world>>

Idle == [req |-> NoReq, hits |-> 0, over |-> FALSE]

Init ==
  /\ PlannerInit
  /\ lookupCache = {} /\ lastIoReq = NoReq /\ inflight = [h \in Hashes |-> 0]
  /\ files = OnDisk /\ phase = [r \in Reqs |-> "new"]
  /\ walk = Idle /\ turn = {}
  /\ offered = [r \in Reqs |-> 0] /\ storing = [r \in Reqs |-> {}]
  /\ spent = [noRoom |-> 0, resets |-> 0, failures |-> 0] /\ unfenced = FALSE

(* --- the files ---------------------------------------------------------- *)

Known(h)    == h \in lookupCache \/ h \in files
MidWrite(h) == ~Known(h) /\ inflight[h] > 0

\* _probe and lookup remember a hit.
Remember(S) == lookupCache' = lookupCache \cup {h \in S : Known(h)}

\* The flush when another request comes to load or store.
FlushFor(r) == /\ lookupCache' = IF r = lastIoReq THEN lookupCache ELSE {}
               /\ lastIoReq' = r

(* --- the plan of a scheduler step --------------------------------------- *)

\* The prefix that is there or is being written.
PrefixLength(r) ==
  LET n == Len(Keys[r])
      good(k) == \A i \in 1..k : Known(Keys[r][i]) \/ MidWrite(Keys[r][i])
  IN  CHOOSE k \in 0..n : good(k) /\ (k = n \/ ~good(k + 1))

\* Mutant: the walk goes on past a missing block.
CandidateOfAll(r) ==
  [req |-> r, hashes |-> SelectSeq(Keys[r], Known), recompute |-> Len(Keys[r]),
   blocked |-> FALSE]
CandidateOf(r) ==
  LET hashes == SubSeq(Keys[r], 1, PrefixLength(r))
  IN  [req |-> r, hashes |-> hashes, recompute |-> Len(Keys[r]),
       blocked |-> \E h \in Range(hashes) : MidWrite(h)]

\* The waiting requests, by their places in Order.
WaitingReqs == {i \in DOMAIN Order : phase[Order[i]] = "waiting"}
Place(k)    == CHOOSE i \in WaitingReqs : Cardinality({n \in WaitingReqs : n <= i}) = k
Candidates  == [k \in 1..MinOf(Window, Cardinality(WaitingReqs)) |-> CandidateOf(Order[Place(k)])]
Resting     == ~Planning /\ walk = Idle /\ turn = {}

\* The walk of plan_candidates probes one block past each prefix.
\* Taken together here: a file that lands between two probes is as one that
\* landed before the walk or is still to land, as files only become more.
Probed(cs) ==
  UNION {{Keys[d.req][i] : i \in 1..MinOf(Len(d.hashes) + 1, Len(Keys[d.req]))}
         : d \in Range(cs)}

PlanCandidates(jobs) ==
  /\ Resting
  /\ \E cs \in {Candidates} : BeginPlan(cs, jobs) /\ Remember(Probed(cs))
  /\ turn' = {Order[i] : i \in WaitingReqs}
  /\ UNCHANGED <<lastIoReq, inflight, files, phase, walk, stores, spent, unfenced>>

ContinuePlan == PlanStep /\ UNCHANGED <<manager, world>>

(* --- lookups ------------------------------------------------------------ *)

Before(q, r) == \E i, k \in DOMAIN Order : i < k /\ Order[i] = q /\ Order[k] = r

BeginLookups ==
  /\ ~Planning /\ walk = Idle
  /\ \E r \in turn :
       /\ \A q \in turn : ~Before(q, r)
       /\ walk' = [req |-> r, hits |-> 0, over |-> FALSE] /\ turn' = turn \ {r}
  /\ UNCHANGED <<planner, manager, files, phase, stores, spent, unfenced>>

Decision(r) == IF r \in DOMAIN decisions THEN decisions[r].decision ELSE "none"

\* A block that is being written defers, whatever the planner decided.
Answer(r, h) ==
  CASE MidWrite(h)                                    -> "later"
    [] ~MidWrite(h) /\ Decision(r) = "decline"        -> "miss"
    [] ~MidWrite(h) /\ Decision(r) = "defer"          -> "later"
    [] OTHER                                          -> IF Known(h) THEN "hit" ELSE "miss"

Looking == walk # Idle /\ ~walk.over

\* The scheduler asks key by key up to the first miss; a request that is
\* told to wait is left for the next step.
Lookup ==
  /\ Looking
  /\ LET h == Keys[walk.req][walk.hits + 1]
         n == walk.hits + 1
     IN  /\ Remember({h})
         /\ walk' = CASE Answer(walk.req, h) = "later" -> Idle
                      [] Answer(walk.req, h) = "miss"  -> [walk EXCEPT !.over = TRUE]
                      [] OTHER -> [walk EXCEPT !.hits = n, !.over = n = Len(Keys[walk.req])]
  /\ UNCHANGED <<planner, lastIoReq, inflight, files, phase, turn, stores, spent, unfenced>>

\* The request gets its room: the hits are loaded (prepare_load), the other
\* blocks computed.
Run ==
  /\ walk # Idle /\ walk.over
  /\ IF walk.hits > 0 THEN FlushFor(walk.req) ELSE UNCHANGED <<lookupCache, lastIoReq>>
  /\ phase' = [phase EXCEPT ![walk.req] = "running"] /\ walk' = Idle
  /\ UNCHANGED <<planner, inflight, files, turn, stores, spent, unfenced>>

NoRoom ==
  /\ walk # Idle /\ walk.over /\ spent.noRoom < MaxNoRoom
  /\ spent' = [spent EXCEPT !.noRoom = @ + 1]
  /\ walk' = Idle /\ turn' = {}
  /\ UNCHANGED <<planner, manager, files, phase, stores, unfenced>>

(* --- stores ------------------------------------------------------------- *)

\* As the blocks of a running request fill up, the next ones of its prompt
\* are offered.
FirstBlocks(r, n) == {Keys[r][i] : i \in 1..n}
ToStore(r) == (FirstBlocks(r, offered'[r]) \ FirstBlocks(r, offered[r])) \ files

Prepare(r) ==
  /\ Resting /\ phase[r] = "running"
  /\ \E n \in (offered[r] + 1)..Len(Keys[r]) : offered' = [offered EXCEPT ![r] = n]
  /\ FlushFor(r)
  /\ storing' = [storing EXCEPT ![r] = @ \cup ToStore(r)]
  /\ UNCHANGED <<planner, files, phase, walk, turn, spent, unfenced>>

\* Mutant: a block that is being written already is not counted again.
PrepareStoreOnce(r) ==
  /\ Prepare(r)
  /\ inflight' = [h \in Hashes |-> IF h \in ToStore(r) THEN 1 ELSE inflight[h]]
\* Mutant: a first store of a block does not raise the fence.
PrepareStoreLate(r) ==
  /\ Prepare(r)
  /\ inflight' = [h \in Hashes |->
                    inflight[h] + IF h \in ToStore(r) /\ inflight[h] > 0 THEN 1 ELSE 0]
PrepareStore(r) ==
  /\ Prepare(r)
  /\ inflight' = [h \in Hashes |-> inflight[h] + IF h \in ToStore(r) THEN 1 ELSE 0]

\* A worker publishes a block, of this engine or of another.
Land(h) ==
  /\ h \notin files
  /\ h \in OtherEngine \cup UNION Range(storing)
  /\ files' = files \cup {h}
  /\ UNCHANGED <<planner, manager, phase, walk, turn, stores, spent, unfenced>>

\* A job holds the blocks of one call or of several; it ends while others of
\* the request go on.
StoreEnds(r, S) ==
  /\ Resting /\ S # {} /\ S \subseteq storing[r]
  /\ \/ S \subseteq files /\ UNCHANGED spent
     \/ spent.failures < MaxFailures /\ spent' = [spent EXCEPT !.failures = @ + 1]
  /\ lookupCache' = lookupCache \ S
  /\ storing' = [storing EXCEPT ![r] = @ \ S]
  /\ unfenced' = (unfenced /\ \E q \in Reqs : storing'[q] # {})
  /\ UNCHANGED <<planner, lastIoReq, files, phase, walk, turn, offered>>

\* Mutant: a store that failed does not lift its fence.
CompleteStoreIfOk(r, S) ==
  /\ StoreEnds(r, S)
  /\ inflight' = [h \in Hashes |->
                    IF h \in S /\ S \subseteq files
                      THEN MaxOf(0, inflight[h] - 1) ELSE inflight[h]]
\* `success` is not looked at: the fence is lifted either way.
CompleteStore(r, S) ==
  /\ StoreEnds(r, S)
  /\ inflight' = [h \in Hashes |-> IF h \in S THEN MaxOf(0, inflight[h] - 1) ELSE inflight[h]]

ResetCache ==
  /\ Resting /\ spent.resets < MaxResets
  /\ spent' = [spent EXCEPT !.resets = @ + 1]
  /\ lookupCache' = {} /\ lastIoReq' = NoReq /\ inflight' = [h \in Hashes |-> 0]
  /\ ResetPlanner
  /\ unfenced' = \E r \in Reqs : storing[r] # {}
  /\ UNCHANGED <<files, phase, walk, turn, stores>>

Arrive(r) ==
  /\ Resting /\ phase[r] = "new"
  /\ phase' = [phase EXCEPT ![r] = "waiting"]
  /\ UNCHANGED <<planner, manager, files, walk, turn, stores, spent, unfenced>>

TimePasses == Resting /\ Tick /\ UNCHANGED <<manager, world>>

SchedulerStep ==
  \/ \E jobs \in JobSets : PlanCandidates(jobs)
  \/ ContinuePlan \/ BeginLookups \/ Lookup \/ Run
Stores ==
  \E r \in Reqs : PrepareStore(r) \/ \E S \in SUBSET storing[r] : CompleteStore(r, S)

Next ==
  \/ SchedulerStep \/ NoRoom \/ Stores
  \/ \E r \in Reqs : Arrive(r)
  \/ \E h \in Hashes : Land(h)
  \/ ResetCache \/ TimePasses

Spec == Init /\ [][Next]_vars

\* The scheduler goes on making steps, workers end their stores, time passes.
FairSpec ==
  /\ Spec
  /\ WF_vars(SchedulerStep) /\ SF_vars(Stores) /\ SF_vars(TimePasses)
  /\ WF_vars(\E h \in UNION Range(storing) : Land(h))

(* --- properties --------------------------------------------------------- *)

Writers(h) == Cardinality({r \in Reqs : h \in storing[r]})

\* The fence of a block counts the stores that are writing it: it never
\* outlives them, and as long as no reset has forgotten one it never falls
\* before the last of them ends, whichever stores share blocks, fail or are
\* overtaken by another engine (vllm.py:205, 356, 382).
FenceExact ==
  \A h \in Hashes : /\ inflight[h] \in 0..Writers(h)
                    /\ ~unfenced => inflight[h] = Writers(h)

\* The block at which the lookups of a request end, the first it has to
\* recompute, is not one that a store of this engine is writing (vllm.py:315
\* "mid-write always defers, regardless of any planner decision"), in whatever
\* order plans, stores and lookups came.  Until the stores that a reset has
\* forgotten are over, nothing is said.
NeverRecomputesMidWrite ==
  [][\A r \in Reqs :
       phase[r] = "waiting" /\ phase'[r] = "running" /\ walk.hits < Len(Keys[r])
         => LET h == Keys[r][walk.hits + 1]
            IN  unfenced \/ h \in files \/ Writers(h) = 0]_vars

\* A request the planner admitted finds its first block: of what the plan
\* counted as loadable at least that is still there when the lookups run,
\* although files are published and stores fail in between (in part vllm.py:233
\* "so the planner and `lookup` can never disagree about the filesystem").
AdmittedMeansHit ==
  [][\A r \in Reqs :
       phase[r] = "waiting" /\ phase'[r] = "running" /\ Decision(r) = "admit"
         => walk.hits > 0]_vars

\* A waiting request is not deferred for ever: it comes to run.
EveryRequestRuns == \A r \in Reqs : phase[r] = "waiting" ~> phase[r] # "waiting"
=============================================================================
