------------------------------ MODULE Reactor ------------------------------
(***************************************************************************)
(* The I/O reactor of py_kvcache (reactor.py): one thread that moves       *)
(* KV-cache blocks between GPU memory and files through a pool of staging  *)
(* slots.  Store jobs go GPU -> slot -> file, load jobs file -> slot ->    *)
(* GPU, preload requests read a file into a slot before the load that      *)
(* wants it arrives.  This module is the shared-preload mode               *)
(* (preload_share_staging), with the optional staging cache.               *)
(*                                                                         *)
(* The thread takes turns (_pump_once).  A turn visits the positions below *)
(* in order; at each it repeats the code's loop until the loop's exit      *)
(* condition holds, and only then moves on.  Between two turns, and only   *)
(* there, it takes submissions (_drain_incoming).  The kernel and the      *)
(* CUDA device act at any time: what a turn finds completed is any subset  *)
(* of what is in flight.                                                   *)
(***************************************************************************)
EXTENDS Integers, Sequences, FiniteSets

CONSTANTS
  Hashes,         \* block hashes: one immutable storage file each
  Reqs,           \* vLLM request ids
  Jobs,           \* transfer jobs the worker submits, each once
  Preloads,       \* preload requests the worker submits, each at most once
  Slots,          \* staging slots
  NoSlot,         \* "no entry" in sharedCached and cache
  Junk,           \* bytes nobody vouches for
  JobKind,        \* Jobs -> {"load", "store"}
  JobReq,         \* Jobs -> Reqs: the request a job belongs to
  JobHashes,      \* Jobs -> Seq(Hashes): block_hashes, distinct within a job
  PreReq,         \* Preloads -> Reqs
  PreHashes,      \* Preloads -> Seq(Hashes)
  OnDisk,         \* hashes whose file exists when the reactor starts
  IoDepth,        \* iodepth: reads and writes in flight
  OpenLookahead,  \* open_lookahead: opens in flight plus opened, unread fds
  CopyHeadroom,   \* slots the pool has beyond iodepth, at least
  CacheOn,        \* staging_cache # "off"
  SsdMin, MemMin, \* break-even thresholds, in files; 0 disables one
  MaxOwned,       \* _max_preload_owned
  MaxKnownMissing,\* _max_known_missing
  Faults          \* which calls may fail in this instance

FaultKinds == {"open", "read", "write", "submit", "map", "launch", "crash"}

ASSUME WorkloadAssumption ==
  /\ JobKind \in [Jobs -> {"load", "store"}]
  /\ JobReq \in [Jobs -> Reqs]
  /\ JobHashes \in [Jobs -> Seq(Hashes)]
  /\ PreReq \in [Preloads -> Reqs]
  /\ PreHashes \in [Preloads -> Seq(Hashes)]
  /\ OnDisk \subseteq Hashes
  \* submit_load and submit_store answer an empty job themselves
  /\ \A j \in Jobs : Len(JobHashes[j]) > 0
  /\ \A p \in Preloads : Len(PreHashes[p]) > 0
  /\ \A j \in Jobs : \A a, b \in DOMAIN JobHashes[j] :
       JobHashes[j][a] = JobHashes[j][b] => a = b

ASSUME SizeAssumption ==
  /\ IoDepth \in Nat \ {0} /\ OpenLookahead \in Nat \ {0}
  /\ CopyHeadroom \in Nat \ {0}
  /\ Cardinality(Slots) >= IoDepth + CopyHeadroom
  /\ CacheOn \in BOOLEAN
  /\ SsdMin \in Nat /\ MemMin \in Nat
  /\ MaxOwned \in Nat \ {0} /\ MaxKnownMissing \in Nat \ {0}
  /\ Faults \subseteq FaultKinds
  /\ NoSlot \notin Slots /\ Junk \notin Hashes

VARIABLES
  mode,         \* "run", "stopping" (_stop), "exited", "crashed"
  pc,           \* position of the reactor thread in its turn
  asked,        \* preload requests the reactor has taken in
  asking,       \* hash of a preload request being taken in (at most one)
  storing,      \* file of a store job being taken in (at most one)
  settling,     \* members of a finished or refused batch still to settle
  active,       \* _active
  order,        \* the order in which jobs became active
  next,         \* next_file_index of each job
  live,         \* files counted in a job's inflight_files
  done,         \* files counted in a job's done_files
  future,       \* state of each job's Future
  opens,        \* opens in flight for load jobs
  readyLoad,    \* _ready_fds_load
  reads,        \* reads in flight for load jobs
  openInflight, \* _open_inflight
  dataInflight, \* _data_inflight
  pending,      \* _preload_pending
  cancel,       \* _preload_pending_cancel
  blocked,      \* hashes in _preload_blocked_on_write
  knownMissing, \* hashes in _known_missing
  preOpens,     \* opens in flight for preloads
  preReady,     \* _ready_fds_preload
  preReads,     \* reads in flight for preloads
  preInflight,  \* _preload_inflight_hashes
  preTotal,     \* _preload_inflight_total
  waiters,      \* _preload_waiters
  refcount,     \* _preload_refcount
  owned,        \* _preload_owned
  free,         \* the free list of the StagingPool
  content,      \* the block each slot is known to hold
  sharedCached, \* _shared_cached: the slot of each shared preload object
  cache,        \* the staging cache: the slot of each resident hash
  copies,       \* copies_inflight of the shared or cached object in a slot
  storeInflight,\* _store_inflight
  storeOps,     \* store files between copy launch and write completion
  copyReady,    \* _copy_ready
  batches,      \* load copies in _pending_copies, one set per fused batch
  stored        \* hashes whose file is published

turn     == <<mode, pc>>
intake   == <<asked, asking, storing>>
jobList  == <<active, order>>
fileVars == <<live, done, future>>
loadIo   == <<opens, readyLoad, reads>>
budget   == <<openInflight, dataInflight>>
specQ    == <<pending, cancel>>
parked   == <<blocked, knownMissing>>
specIo   == <<preOpens, preReady, preReads>>
inflight == <<preInflight, preTotal>>
demand   == <<refcount, owned>>
pool     == <<free, content>>
retained == <<sharedCached, cache>>
storeIo  == <<storeInflight, storeOps>>
copying  == <<copyReady, batches>>
preload  == <<specQ, parked, specIo, inflight, waiters, demand>>
slots    == <<pool, retained, copies>>
jobs     == <<jobList, next, fileVars>>
transfers == <<storeIo, copying, stored>>

vars == <<turn, intake, settling, jobs, loadIo, budget, preload, slots, transfers>>
-----------------------------------------------------------------------------
(* Files of jobs, and the records of the tables. *)

Files == UNION {{j} \X (1..Len(JobHashes[j])) : j \in Jobs}
Asks  == UNION {{p} \X (1..Len(PreHashes[p])) : p \in Preloads}
\* Variant for mutation: the last file of a job is not looked at.
FilesButLast(j) == {j} \X (1..(Len(JobHashes[j]) - 1))

FilesOf(j) == {j} \X (1..Len(JobHashes[j]))
H(f)   == JobHashes[f[1]][f[2]]
Req(f) == JobReq[f[1]]
NumFiles(j) == Len(JobHashes[j])
NextFile(j) == <<j, next[j] + 1>>

ASSUME FinitenessAssumption ==
  /\ IsFiniteSet(Slots) /\ IsFiniteSet(Hashes) /\ IsFiniteSet(Reqs)
  /\ IsFiniteSet(Jobs) /\ IsFiniteSet(Files)

\* Where a load copy gets its bytes, and so what settling it gives back:
\* "own" a slot read for this file, "shared" a shared preload object,
\* "cache" a pinned cache entry, "detached" an object dropped at STOP.
Sources == {"own", "shared", "cache", "detached"}
Member  == [file : Files, slot : Slots, src : Sources]

Outcome == {"none", "pending", "ok", "error", "declined"}
Resolved(j) == future[j] \in {"ok", "error", "declined"}
Failed(j)   == future[j] = "error"

CacheCap == Cardinality(Slots) - IoDepth      \* _max_cache_slots
MaxPreloadSlots == Cardinality(Slots) - IoDepth
Resident == {h \in Hashes : cache[h] # NoSlot}
IsShared(h) == sharedCached[h] # NoSlot
SharedHashes == {h \in Hashes : IsShared(h)}
Queued(h) == \E k \in 1..Len(pending) : pending[k] = h

-----------------------------------------------------------------------------
(* Positions of a turn. *)

NJ == Cardinality(Jobs)
IntakePos   == 0
CudaPos     == 1
PollPos     == 2
ReadyPos    == 3
LoadPos(k)  == 3 + k
StorePos(k) == 3 + NJ + k
PreFdPos    == 4 + 2 * NJ
DrainPos    == 5 + 2 * NJ
SpecPos     == 6 + 2 * NJ
FlushPos    == 7 + 2 * NJ
EndPos      == 8 + 2 * NJ

-----------------------------------------------------------------------------
(* What the loops of a turn test. *)

CanOpen == openInflight + Cardinality(readyLoad) + Len(preReady) < OpenLookahead

HasCopy(h) == cache[h] # NoSlot \/ preInflight[h] > 0 \/ IsShared(h)

\* Variant for mutation: the last file is never reached.
LoadLeftButLast(j) == /\ j \in active /\ JobKind[j] = "load" /\ ~Failed(j)
                      /\ next[j] + 1 < NumFiles(j)

LoadLeft(j) == /\ j \in active /\ JobKind[j] = "load" /\ ~Failed(j)
               /\ next[j] < NumFiles(j)

\* _has_real_load_pressure: a load wants the disk.
LoadPressure ==
  \/ readyLoad # {} \/ opens # {} \/ reads # {}
  \/ \E j \in Jobs : LoadLeft(j) /\ ~Resolved(j) /\ ~HasCopy(H(NextFile(j)))

\* Variants for mutation: an entry or object a copy reads is a victim too.
EvictablePinned == Resident
IdleSharedBusy  == SharedHashes

Evictable  == {h \in Resident : copies[cache[h]] = 0}
IdleShared == {h \in SharedHashes : copies[sharedCached[h]] = 0}
CanReserveForeground == free # {} \/ Evictable # {} \/ IdleShared # {}
CanReservePreload    == free # {} \/ Evictable # {}

CanReadReady == readyLoad # {} /\ dataInflight < IoDepth /\ CanReserveForeground

CanLoad(j) == /\ LoadLeft(j)
              /\ HasCopy(H(NextFile(j))) \/ CanOpen

\* Variant for mutation: stores do not look at iodepth.
CanStoreUnbounded(j) == /\ j \in active /\ JobKind[j] = "store" /\ ~Failed(j)
                        /\ next[j] < NumFiles(j) /\ CanReserveForeground

CanStore(j) == /\ j \in active /\ JobKind[j] = "store" /\ ~Failed(j)
               /\ next[j] < NumFiles(j)
               /\ dataInflight < IoDepth /\ CanReserveForeground

\* Variant for mutation: parked loads are overlooked.
HeadNeverWaited == FALSE

HeadWaited == waiters[Head(preReady)] # {}

CanDrainPreFd ==
  /\ preReady # <<>>
  /\ IF HeadWaited THEN dataInflight < IoDepth /\ CanReserveForeground
     ELSE LoadPressure \/ (dataInflight < IoDepth /\ CanReservePreload)

HeadCancelled == pending # <<>> /\ cancel[Head(pending)] > 0

\* _preload_slots_available
PreloadSlotsAvailable ==
  Cardinality(SharedHashes) + preTotal < MaxPreloadSlots

CanSpeculate ==
  ~LoadPressure /\ pending # <<>> /\ CanOpen /\ PreloadSlotsAvailable

\* The loop at position p has another iteration to run.
Busy(p) ==
  \/ p = ReadyPos /\ CanReadReady
  \/ \E k \in 1..Len(order) : p = LoadPos(k) /\ CanLoad(order[k])
  \/ \E k \in 1..Len(order) : p = StorePos(k) /\ CanStore(order[k])
  \/ p = PreFdPos /\ CanDrainPreFd
  \/ p = DrainPos /\ HeadCancelled
  \/ p = SpecPos /\ CanSpeculate
  \/ p = FlushPos /\ copyReady # {}

Alive == mode \in {"run", "stopping"}
Quiet == asking = {} /\ storing = {} /\ settling = {}

\* The thread stands at position p, every loop before it having run out.
At(p) ==
  /\ Alive /\ Quiet
  /\ pc <= p /\ \A q \in pc..(p - 1) : ~Busy(q)
  /\ pc' = p
  /\ UNCHANGED <<mode, intake>>

-----------------------------------------------------------------------------
(* Futures and slots. *)

\* _file_terminal for the files in ok and in bad.
FileTerminal(ok, bad) ==
  /\ live' = live \ (ok \cup bad)
  /\ done' = done \cup ok
  /\ future' = [j \in Jobs |->
       IF future[j] # "pending" THEN future[j]
       ELSE IF bad \cap FilesOf(j) # {} THEN "error"
       ELSE IF FilesOf(j) \subseteq done \cup ok THEN "ok"
       ELSE "pending"]

\* StagingDataCache.put: what the cache keeps and which slots come back.
\* The policy's victim may be any unpinned entry.
Put(h, s) ==
  LET kept == [cache EXCEPT ![h] = s]
  IN IF ~CacheOn \/ cache[h] # NoSlot
       THEN {[cache |-> cache, freed |-> {s}]}
     ELSE IF Cardinality(Resident) < CacheCap \/ Evictable = {}
       THEN {[cache |-> kept, freed |-> {}]}
     ELSE {[cache |-> [kept EXCEPT ![v] = NoSlot], freed |-> {cache[v]}] : v \in Evictable}

Forget(ss) == [t \in Slots |-> IF t \in ss THEN Junk ELSE content[t]]

\* _release_or_cache of a slot that holds block h.
ReleaseOrCache(h, s) ==
  \E o \in Put(h, s) :
    /\ cache' = o.cache
    /\ free' = free \cup o.freed
    /\ content' = [t \in Slots |-> IF t \in o.freed THEN Junk
                                   ELSE IF t = s THEN h ELSE content[t]]

Release(s) == free' = free \cup {s} /\ content' = Forget({s})

\* Variant for mutation: the count is dropped, the owners stay.
PurgeCountOnly(h) == UNCHANGED owned /\ refcount' = [refcount EXCEPT ![h] = 0]

\* _purge_owned_for_hash and the refcount dropped with it.
Purge(h) == /\ owned' = owned \ (Reqs \X {h})
            /\ refcount' = [refcount EXCEPT ![h] = 0]

\* _reserve_foreground_slot: free slot, else cache victim, else an idle
\* shared preload whose demand is dropped.  back is the slot when the call
\* it was reserved for is refused and returns it.
ReserveForeground(s, back) ==
  \/ /\ s \in free
     /\ free' = (free \ {s}) \cup back
     /\ UNCHANGED <<retained, demand>>
  \/ /\ free = {} /\ free' = back
     /\ \E v \in Evictable : s = cache[v] /\ cache' = [cache EXCEPT ![v] = NoSlot]
     /\ UNCHANGED <<sharedCached, demand>>
  \/ /\ free = {} /\ Evictable = {} /\ free' = back
     /\ \E v \in IdleShared :
          /\ s = sharedCached[v]
          /\ sharedCached' = [sharedCached EXCEPT ![v] = NoSlot]
          /\ Purge(v)
     /\ UNCHANGED cache

\* _reserve_preload_slot: never takes another preload's slot.
ReservePreload(s, back) ==
  /\ free # {} \/ Evictable # {}
  /\ ReserveForeground(s, back)

-----------------------------------------------------------------------------
(* Demand and preload bookkeeping. *)

OwnersIn(qs, h) == {q \in qs : <<q, h>> \in owned}
RefAfter(qs, h) ==
  LET n == Cardinality(OwnersIn(qs, h))
  IN IF refcount[h] > n THEN refcount[h] - n ELSE 0

\* The claims of requests qs on h, without the release of the slot.
Claim(qs, h) ==
  /\ owned' = owned \ (qs \X {h})
  /\ refcount' = [refcount EXCEPT ![h] = RefAfter(qs, h)]

\* A claim that ends the demand uncaches the shared object of h.
EndsDemand(q, h) == <<q, h>> \in owned /\ refcount[h] <= 1

PreInflightAdd(h) ==
  /\ preInflight' = [preInflight EXCEPT ![h] = @ + 1]
  /\ preTotal' = preTotal + 1

\* Variant for mutation: the total is not counted down.
PreInflightHashOnly(h) ==
  /\ preInflight' = [preInflight EXCEPT ![h] = IF @ = 0 THEN 0 ELSE @ - 1]
  /\ UNCHANGED preTotal

PreInflightRemove(h) ==
  IF preInflight[h] = 0 THEN UNCHANGED inflight
  ELSE /\ preInflight' = [preInflight EXCEPT ![h] = @ - 1]
       /\ preTotal' = preTotal - 1

\* _shared_decref(q, h) when h may be cached: the last claim hands the slot on.
SharedDecref(q, h) ==
  /\ Claim({q}, h)
  /\ IF EndsDemand(q, h) /\ IsShared(h)
       THEN LET s == sharedCached[h]
            IN /\ sharedCached' = [sharedCached EXCEPT ![h] = NoSlot]
               /\ IF copies[s] = 0 THEN ReleaseOrCache(h, s) ELSE UNCHANGED <<cache, pool>>
       ELSE UNCHANGED <<retained, pool>>

\* _release_store_inflight: one store of h fewer.  The last one ends the
\* parking of preloads on h, which only a store that succeeded wakes up.
\* Variant for mutation: the last of the stores is not recognised.
LastStoreLate(h) == storeInflight[h] = 0

LastStore(h) == storeInflight[h] <= 1

\* Variant for mutation: parked preloads are left behind.
StoreInflightDoneKeepsParked(h) ==
  /\ storeInflight' = [storeInflight EXCEPT ![h] = IF LastStore(h) THEN 0 ELSE @ - 1]
  /\ UNCHANGED blocked

StoreInflightDone(h) ==
  /\ storeInflight' = [storeInflight EXCEPT ![h] = IF LastStore(h) THEN 0 ELSE @ - 1]
  /\ blocked' = IF LastStore(h) THEN blocked \ {h} ELSE blocked

\* With a staging cache the bytes are resident now and demand is dropped,
\* else one read-back is queued for all the requests parked on h.
WakeBlocked(h) ==
  LET wake == LastStore(h) /\ h \in blocked /\ mode = "run"
  IN /\ IF wake /\ CacheOn THEN Purge(h) ELSE UNCHANGED demand
     /\ pending' = IF wake /\ ~CacheOn THEN Append(pending, h) ELSE pending

-----------------------------------------------------------------------------
Init ==
  /\ mode = "run" /\ pc = IntakePos
  /\ asked = {} /\ asking = {} /\ storing = {} /\ settling = {}
  /\ active = {} /\ order = <<>> /\ next = [j \in Jobs |-> 0]
  /\ live = {} /\ done = {} /\ future = [j \in Jobs |-> "none"]
  /\ opens = {} /\ readyLoad = {} /\ reads = {}
  /\ openInflight = 0 /\ dataInflight = 0
  /\ pending = <<>> /\ cancel = [h \in Hashes |-> 0]
  /\ blocked = {} /\ knownMissing = {}
  /\ preOpens = {} /\ preReady = <<>> /\ preReads = {}
  /\ preInflight = [h \in Hashes |-> 0] /\ preTotal = 0
  /\ waiters = [h \in Hashes |-> {}]
  /\ refcount = [h \in Hashes |-> 0] /\ owned = {}
  /\ free = Slots /\ content = [s \in Slots |-> Junk]
  /\ sharedCached = [h \in Hashes |-> NoSlot]
  /\ cache = [h \in Hashes |-> NoSlot]
  /\ copies = [s \in Slots |-> 0]
  /\ storeInflight = [h \in Hashes |-> 0] /\ storeOps = {}
  /\ copyReady = {} /\ batches = {}
  /\ stored = OnDisk

-----------------------------------------------------------------------------
(* Taking submissions in (_intake).  A client's submit call and the intake  *)
(* of the queued item are one step: nothing in between reads the queue.     *)

CanIntake == mode = "run" /\ pc = IntakePos /\ Quiet

\* A preload request begins; its hashes are taken one at a time.
AskPreload(p) ==
  /\ CanIntake /\ p \notin asked
  /\ asked' = asked \cup {p} /\ asking' = {<<p, 1>>}
  /\ UNCHANGED <<turn, storing, settling, jobs, loadIo, budget, preload, slots,
       transfers>>

\* Variant for mutation: a queued read is not seen.
SharedStateUnqueued(h) ==
  IsShared(h) \/ preInflight[h] > 0 \/ h \in blocked \/ h \in knownMissing

\* Some shared state already stands for h: no read is queued for it.
HasAnySharedState(h) ==
  IsShared(h) \/ preInflight[h] > 0 \/ Queued(h) \/ h \in blocked \/ h \in knownMissing

\* _preload_own: the oldest key falls out of a full set.
Own(key) ==
  IF Cardinality(owned) < MaxOwned THEN owned' = owned \cup {key}
  ELSE \E old \in owned : owned' = (owned \ {old}) \cup {key}

PreloadHash(a) ==
  LET h == PreHashes[a[1]][a[2]]
      key == <<PreReq[a[1]], h>>
      last == a[2] = Len(PreHashes[a[1]])
  IN /\ Alive /\ settling = {} /\ storing = {} /\ a \in asking
     /\ asking' = IF last THEN {} ELSE {<<a[1], a[2] + 1>>}
     /\ IF h \in Resident \/ key \in owned
          THEN UNCHANGED <<demand, pending>>
          ELSE /\ Own(key)
               /\ refcount' = [refcount EXCEPT ![h] = @ + 1]
               /\ pending' = IF HasAnySharedState(h) THEN pending ELSE Append(pending, h)
     /\ UNCHANGED <<turn, asked, storing, settling, jobs, loadIo, budget,
          cancel, parked, specIo, inflight, waiters, slots, transfers>>

\* _should_decline_load: below the break-even size, recomputing is cheaper.
Declines(j) ==
  LET ram == \A k \in 1..NumFiles(j) : HasCopy(JobHashes[j][k])
      least == IF ram THEN MemMin ELSE SsdMin
  IN least > 0 /\ NumFiles(j) < least

IntakeLoad(j) ==
  /\ CanIntake /\ future[j] = "none" /\ JobKind[j] = "load"
  /\ IF Declines(j)
       THEN /\ future' = [future EXCEPT ![j] = "declined"]
            /\ UNCHANGED <<jobList, knownMissing>>
       ELSE /\ future' = [future EXCEPT ![j] = "pending"]
            /\ active' = active \cup {j} /\ order' = Append(order, j)
            /\ knownMissing' = knownMissing \ {H(f) : f \in FilesOf(j)}
  /\ UNCHANGED <<turn, intake, settling, next, live, done, loadIo, budget,
       specQ, blocked, specIo, inflight, waiters, demand, slots, transfers>>

\* A store job begins; its hashes are taken one at a time.
IntakeStore(j) ==
  /\ CanIntake /\ future[j] = "none" /\ JobKind[j] = "store"
  /\ future' = [future EXCEPT ![j] = "pending"]
  /\ storing' = {<<j, 1>>}
  /\ UNCHANGED <<turn, asked, asking, settling, jobList, next, live, done,
       loadIo, budget, preload, slots, transfers>>

\* The producer's own demand is withdrawn; a preload that found the file
\* missing is parked until this store has written it.
StoreHash(f) ==
  LET h == H(f)
      last == f[2] = NumFiles(f[1])
  IN /\ Alive /\ settling = {} /\ asking = {} /\ f \in storing
     /\ SharedDecref(Req(f), h)
     /\ knownMissing' = knownMissing \ {h}
     /\ blocked' = IF h \in knownMissing /\ refcount'[h] > 0 THEN blocked \cup {h}
                                                             ELSE blocked
     /\ storeInflight' = [storeInflight EXCEPT ![h] = @ + 1]
     /\ storing' = IF last THEN {} ELSE {<<f[1], f[2] + 1>>}
     /\ IF last THEN active' = active \cup {f[1]} /\ order' = Append(order, f[1])
                ELSE UNCHANGED jobList
     /\ UNCHANGED <<turn, asked, asking, settling, next, fileVars, loadIo,
          budget, specQ, specIo, inflight, waiters, copies, storeOps, copying,
          stored>>

\* Variants for mutation: entries are not told from empty table places; a
\* running copy keeps its claim on a slot that is given back.
DroppedUnfiltered == {sharedCached[h] : h \in Hashes} \cup {cache[h] : h \in Resident}
DetachNothing(m) == m

\* The STOP item.  Everything retained goes back to the pool and every
\* parked load fails; objects a copy still reads lose their owner.
Dropped == {sharedCached[h] : h \in SharedHashes} \cup {cache[h] : h \in Resident}
Detach(m) == IF m.src \in {"shared", "cache"} /\ m.slot \in Dropped
               THEN [m EXCEPT !.src = "detached"] ELSE m

Stop ==
  /\ CanIntake
  /\ mode' = "stopping"
  /\ free' = free \cup Dropped /\ content' = Forget(Dropped)
  /\ sharedCached' = [h \in Hashes |-> NoSlot] /\ cache' = [h \in Hashes |-> NoSlot]
  /\ copies' = [s \in Slots |-> IF s \in Dropped THEN 0 ELSE copies[s]]
  /\ copyReady' = {Detach(m) : m \in copyReady}
  /\ batches' = {{Detach(m) : m \in b} : b \in batches}
  /\ refcount' = [h \in Hashes |-> 0] /\ owned' = {}
  /\ preTotal' = 0
  /\ pending' = <<>> /\ cancel' = [h \in Hashes |-> 0]
  /\ blocked' = {} /\ knownMissing' = {}
  /\ FileTerminal({}, UNION {waiters[h] : h \in Hashes})
  /\ waiters' = [h \in Hashes |-> {}]
  /\ UNCHANGED <<pc, intake, settling, jobList, next, loadIo, budget, specIo,
       preInflight, storeIo, stored>>

\* submit_job once the reactor is closed.
SubmitClosed(j) ==
  /\ mode # "run" /\ future[j] = "none"
  /\ future' = [future EXCEPT ![j] = "error"]
  /\ UNCHANGED <<turn, intake, settling, jobList, next, live, done, loadIo,
       budget, preload, slots, transfers>>

-----------------------------------------------------------------------------
(* _drain_cuda_copies *)

\* A fused batch of load copies is seen complete.
BatchDone(b) ==
  /\ At(CudaPos) /\ b \in batches
  /\ batches' = batches \ {b}
  /\ settling' = {<<m, TRUE>> : m \in b}
  /\ UNCHANGED <<jobs, loadIo, budget, preload, slots, storeIo, copyReady,
       stored>>

\* _settle_load_slot and _file_terminal for one member of the batch.
Settle(w) ==
  LET m == w[1]
      h == H(m.file)
      gone == m.src = "shared" /\ sharedCached[h] # m.slot /\ copies[m.slot] = 1
  IN /\ Alive /\ w \in settling
     /\ settling' = settling \ {w}
     /\ copies' = IF m.src \in {"shared", "cache"}
                    THEN [copies EXCEPT ![m.slot] = @ - 1] ELSE copies
     /\ IF m.src = "own" \/ gone THEN ReleaseOrCache(h, m.slot)
                                 ELSE UNCHANGED <<cache, pool>>
     /\ IF w[2] THEN FileTerminal({m.file}, {}) ELSE FileTerminal({}, {m.file})
     /\ UNCHANGED <<turn, intake, jobList, next, loadIo, budget, preload,
          sharedCached, transfers>>

\* _on_store_copy_done: the slot holds the block; its write is queued.
OnStoreCopyDone(op) ==
  /\ At(CudaPos) /\ op \in storeOps /\ op.stage = "copy"
  /\ storeOps' = (storeOps \ {op}) \cup {[op EXCEPT !.stage = "write"]}
  /\ content' = [content EXCEPT ![op.slot] = H(op.file)]
  /\ UNCHANGED <<settling, jobs, loadIo, budget, preload, free, retained,
       copies, storeInflight, copying, stored>>

\* The end of a store file that did not reach the disk.
StoreFileFails(op) ==
  /\ storeOps' = storeOps \ {op}
  /\ dataInflight' = dataInflight - 1
  /\ Release(op.slot)
  /\ FileTerminal({}, {op.file})
  /\ StoreInflightDone(H(op.file))
  /\ UNCHANGED <<pending, demand>>

\* open_temp_write or queue_write raises.
OnStoreCopyFailed(op) ==
  /\ At(CudaPos) /\ op \in storeOps /\ op.stage = "copy"
  /\ "write" \in Faults \/ "submit" \in Faults
  /\ StoreFileFails(op)
  /\ UNCHANGED <<settling, jobList, next, loadIo, openInflight, cancel,
       knownMissing, specIo, inflight, waiters, retained, copies, copying,
       stored>>

-----------------------------------------------------------------------------
(* _poll_ring_completions *)

\* An openat ran between its submission and now: it may miss a file that
\* has been published since.  had is whether the file existed at submission.
\* Variant for mutation: a negative result counts as a descriptor.
FindsAny(o) == o.hash \in Hashes

Finds(o)  == o.hash \in stored
Misses(o) == ~o.had \/ "open" \in Faults

OnOpenComplete(o) ==
  /\ At(PollPos) /\ o \in opens /\ Finds(o)
  /\ opens' = opens \ {o} /\ openInflight' = openInflight - 1
  /\ readyLoad' = readyLoad \cup {o.file}
  /\ UNCHANGED <<settling, jobs, reads, dataInflight, preload, slots,
       transfers>>

OnOpenMiss(o) ==
  /\ At(PollPos) /\ o \in opens /\ Misses(o)
  /\ opens' = opens \ {o} /\ openInflight' = openInflight - 1
  /\ FileTerminal({}, {o.file})
  /\ UNCHANGED <<settling, jobList, next, readyLoad, reads, dataInflight,
       preload, slots, transfers>>

OnPreOpenComplete(o) ==
  /\ At(PollPos) /\ o \in preOpens /\ Finds(o)
  /\ preOpens' = preOpens \ {o} /\ openInflight' = openInflight - 1
  /\ preReady' = Append(preReady, o.hash)
  /\ UNCHANGED <<settling, jobs, loadIo, dataInflight, specQ, parked, preReads,
       inflight, waiters, demand, slots, transfers>>

\* _remember_known_missing
Remember(h) ==
  IF h \in knownMissing \/ Cardinality(knownMissing) < MaxKnownMissing
    THEN knownMissing' = knownMissing \cup {h}
    ELSE \E old \in knownMissing : knownMissing' = (knownMissing \ {old}) \cup {h}

\* The waiters fail; without any, the miss waits for a store of the file.
OnPreOpenMiss(o) ==
  LET h == o.hash
  IN /\ At(PollPos) /\ o \in preOpens /\ Misses(o)
     /\ preOpens' = preOpens \ {o} /\ openInflight' = openInflight - 1
     /\ PreInflightRemove(h)
     /\ FileTerminal({}, waiters[h])
     /\ waiters' = [waiters EXCEPT ![h] = {}]
     /\ IF waiters[h] # {} THEN UNCHANGED parked
        ELSE IF storeInflight[h] > 0
          THEN blocked' = blocked \cup {h} /\ UNCHANGED knownMissing
          ELSE Remember(h) /\ UNCHANGED blocked
     /\ UNCHANGED <<settling, jobList, next, loadIo, dataInflight, specQ,
          preReady, preReads, demand, slots, transfers>>

\* The read of a load file: its slot feeds a copy.
OnReadComplete(r) ==
  /\ At(PollPos) /\ r \in reads
  /\ reads' = reads \ {r} /\ dataInflight' = dataInflight - 1
  /\ content' = [content EXCEPT ![r.slot] = H(r.file)]
  /\ copyReady' = copyReady \cup {[file |-> r.file, slot |-> r.slot, src |-> "own"]}
  /\ UNCHANGED <<settling, jobs, opens, readyLoad, openInflight, preload, free,
       retained, copies, storeIo, batches, stored>>

\* A failed or short read, or a mapping that cannot be built.
OnReadFails(r) ==
  /\ At(PollPos) /\ r \in reads /\ ("read" \in Faults \/ "map" \in Faults)
  /\ reads' = reads \ {r} /\ dataInflight' = dataInflight - 1
  /\ Release(r.slot)
  /\ FileTerminal({}, {r.file})
  /\ UNCHANGED <<settling, jobList, next, opens, readyLoad, openInflight,
       preload, retained, copies, transfers>>

\* _on_shared_preload_read_complete: one read serves every parked load of
\* the hash; bad are those whose mapping cannot be built.  The slot stays
\* cached while other requests still want it.
OnSharedReadComplete(r) ==
  LET h == r.hash
      s == r.slot
      qs == {Req(f) : f \in waiters[h]}
  IN \E bad \in SUBSET waiters[h] :
     LET good == waiters[h] \ bad
         keep == mode = "run" /\ RefAfter(qs, h) > 0
     IN /\ At(PollPos) /\ r \in preReads
        /\ bad # {} => "map" \in Faults
        /\ preReads' = preReads \ {r} /\ dataInflight' = dataInflight - 1
        /\ PreInflightRemove(h)
        /\ waiters' = [waiters EXCEPT ![h] = {}]
        /\ copyReady' = copyReady \cup
             {[file |-> f, slot |-> s, src |-> "shared"] : f \in good}
        /\ copies' = [copies EXCEPT ![s] = Cardinality(good)]
        /\ FileTerminal({}, bad)
        /\ Claim(qs, h)
        /\ sharedCached' = IF keep THEN [sharedCached EXCEPT ![h] = s] ELSE sharedCached
        /\ IF ~keep /\ good = {} THEN ReleaseOrCache(h, s)
           ELSE content' = [content EXCEPT ![s] = h] /\ UNCHANGED <<cache, free>>
        /\ UNCHANGED <<settling, jobList, next, loadIo, openInflight, specQ,
             parked, preOpens, preReady, storeIo, batches, stored>>

OnSharedReadFails(r) ==
  LET h == r.hash
  IN /\ At(PollPos) /\ r \in preReads /\ "read" \in Faults
     /\ preReads' = preReads \ {r} /\ dataInflight' = dataInflight - 1
     /\ PreInflightRemove(h)
     /\ FileTerminal({}, waiters[h])
     /\ waiters' = [waiters EXCEPT ![h] = {}]
     /\ Release(r.slot)
     /\ UNCHANGED <<settling, jobList, next, loadIo, openInflight, specQ,
          parked, preOpens, preReady, demand, retained, copies, transfers>>

\* _on_write_complete: the file is published (or was already), its slot is
\* retained, and the preloads parked on the write wake up.
OnWriteComplete(op) ==
  LET h == H(op.file)
  IN /\ At(PollPos) /\ op \in storeOps /\ op.stage = "write"
     /\ storeOps' = storeOps \ {op} /\ dataInflight' = dataInflight - 1
     /\ stored' = stored \cup {h}
     /\ ReleaseOrCache(h, op.slot)
     /\ FileTerminal({op.file}, {})
     /\ StoreInflightDone(h) /\ WakeBlocked(h)
     /\ UNCHANGED <<settling, jobList, next, loadIo, openInflight, cancel,
          knownMissing, specIo, inflight, waiters, sharedCached, copies,
          copying>>

\* A failed or short write; finish_write may raise after it has linked the file.
OnWriteFails(op) ==
  /\ At(PollPos) /\ op \in storeOps /\ op.stage = "write" /\ "write" \in Faults
  /\ stored' \in {stored, stored \cup {H(op.file)}}
  /\ StoreFileFails(op)
  /\ UNCHANGED <<settling, jobList, next, loadIo, openInflight, cancel,
       knownMissing, specIo, inflight, waiters, retained, copies, copying>>

-----------------------------------------------------------------------------
(* _schedule_work: opened load files first. *)

SubmitRead(f, s) ==
  /\ At(ReadyPos) /\ f \in readyLoad /\ dataInflight < IoDepth
  /\ readyLoad' = readyLoad \ {f}
  /\ ReserveForeground(s, {})
  /\ reads' = reads \cup {[file |-> f, slot |-> s]}
  /\ dataInflight' = dataInflight + 1
  /\ content' = Forget({s})
  /\ UNCHANGED <<settling, jobs, opens, openInflight, specQ, parked, specIo,
       inflight, waiters, copies, transfers>>

SubmitReadRefused(f, s) ==
  /\ At(ReadyPos) /\ f \in readyLoad /\ dataInflight < IoDepth /\ "submit" \in Faults
  /\ readyLoad' = readyLoad \ {f}
  /\ ReserveForeground(s, {s})
  /\ FileTerminal({}, {f})
  /\ content' = Forget({s})
  /\ UNCHANGED <<settling, jobList, next, opens, reads, budget, specQ, parked,
       specIo, inflight, waiters, copies, transfers>>

-----------------------------------------------------------------------------
(* Load jobs, in the order they became active. *)

\* Variant for mutation: the file is not counted as in flight.
StartUncounted(f) == f \in Files /\ UNCHANGED fileVars

\* The job's next file is taken up: now counted as in flight.
Schedule(j) == next' = [next EXCEPT ![j] = @ + 1]
Start(f) == live' = live \cup {f} /\ UNCHANGED <<done, future>>

LoadAt(k) ==
  /\ k \in 1..Len(order) /\ CanLoad(order[k])
  /\ At(LoadPos(k)) /\ Schedule(order[k])

\* _schedule_cache_hit: the entry is pinned until the copy is done.
ScheduleCacheHit(k) ==
  LET f == NextFile(order[k])
      h == H(f)
      s == cache[h]
  IN /\ LoadAt(k) /\ h \in Resident
     /\ \/ /\ Start(f)
           /\ copies' = [copies EXCEPT ![s] = @ + 1]
           /\ copyReady' = copyReady \cup {[file |-> f, slot |-> s, src |-> "cache"]}
        \/ /\ "map" \in Faults /\ FileTerminal({}, {f})
           /\ UNCHANGED <<copies, copyReady>>
     /\ UNCHANGED <<settling, jobList, loadIo, budget, preload, pool, retained,
          storeIo, batches, stored>>

\* _shared_claim_from_cache: the copy holds the object, the claim may
\* uncache it.
SharedClaimFromCache(k) ==
  LET f == NextFile(order[k])
      h == H(f)
      s == sharedCached[h]
      ends == EndsDemand(Req(f), h)
  IN /\ LoadAt(k) /\ h \notin Resident /\ IsShared(h)
     /\ copies' = [copies EXCEPT ![s] = @ + 1]
     /\ copyReady' = copyReady \cup {[file |-> f, slot |-> s, src |-> "shared"]}
     /\ Start(f)
     /\ Claim({Req(f)}, h)
     /\ sharedCached' = IF ends THEN [sharedCached EXCEPT ![h] = NoSlot] ELSE sharedCached
     /\ UNCHANGED <<settling, jobList, loadIo, budget, specQ, parked, specIo,
          inflight, waiters, pool, cache, storeIo, batches, stored>>

\* The same claim when the mapping of its copy cannot be built.
SharedClaimFails(k) ==
  LET f == NextFile(order[k])
  IN /\ LoadAt(k) /\ H(f) \notin Resident /\ IsShared(H(f)) /\ "map" \in Faults
     /\ FileTerminal({}, {f})
     /\ SharedDecref(Req(f), H(f))
     /\ UNCHANGED <<settling, jobList, loadIo, budget, specQ, parked, specIo,
          inflight, waiters, copies, transfers>>

\* No retained copy of the next block of job order[k].
NoCopyAt(k) == LET h == H(NextFile(order[k])) IN h \notin Resident /\ ~IsShared(h)

\* _schedule_preload_inflight: park on the read already under way.
SchedulePreloadInflight(k) ==
  LET f == NextFile(order[k])
  IN /\ LoadAt(k) /\ NoCopyAt(k) /\ preInflight[H(f)] > 0
     /\ Start(f)
     /\ waiters' = [waiters EXCEPT ![H(f)] = @ \cup {f}]
     /\ UNCHANGED <<settling, jobList, loadIo, budget, specQ, parked, specIo,
          inflight, demand, slots, transfers>>

\* _submit_open_preload: refused submissions are only logged.
SubmitOpenPreload(h) ==
  \/ /\ preOpens' = preOpens \cup {[hash |-> h, had |-> h \in stored]}
     /\ openInflight' = openInflight + 1
     /\ PreInflightAdd(h)
  \/ "submit" \in Faults /\ UNCHANGED <<preOpens, openInflight, inflight>>

\* _cancel_one_pending
CancelOnePending(h) ==
  LET count == Cardinality({k \in 1..Len(pending) : pending[k] = h})
  IN cancel' = IF count > cancel[h] THEN [cancel EXCEPT ![h] = @ + 1] ELSE cancel

\* _promote_pending_to_shared_read: open the queued hash now and park on it.
PromotePendingToSharedRead(k) ==
  LET f == NextFile(order[k])
      h == H(f)
  IN /\ LoadAt(k) /\ NoCopyAt(k) /\ preInflight[h] = 0 /\ Queued(h)
     /\ CancelOnePending(h)
     /\ SubmitOpenPreload(h)
     /\ Start(f)
     /\ waiters' = [waiters EXCEPT ![h] = @ \cup {f}]
     /\ UNCHANGED <<settling, jobList, loadIo, dataInflight, pending, parked,
          preReady, preReads, demand, slots, transfers>>

\* _submit_open_read; the load reads for itself and withdraws its demand.
SubmitOpenRead(k) ==
  LET f == NextFile(order[k])
      h == H(f)
  IN /\ LoadAt(k) /\ NoCopyAt(k) /\ preInflight[h] = 0 /\ ~Queued(h)
     /\ \/ /\ opens' = opens \cup {[file |-> f, hash |-> h, had |-> h \in stored]}
           /\ openInflight' = openInflight + 1
           /\ Start(f)
        \/ /\ "submit" \in Faults
           /\ FileTerminal({}, {f})
           /\ UNCHANGED <<opens, openInflight>>
     /\ Claim({Req(f)}, h)
     /\ UNCHANGED <<settling, jobList, readyLoad, reads, dataInflight, specQ,
          parked, specIo, inflight, waiters, slots, transfers>>

-----------------------------------------------------------------------------
(* Store jobs, in the order they became active. *)

StoreAt(k) ==
  /\ k \in 1..Len(order) /\ CanStore(order[k])
  /\ At(StorePos(k)) /\ Schedule(order[k])

\* _schedule_store_copy: GPU -> slot, one device-budget unit until written.
ScheduleStoreCopy(k, s) ==
  LET f == NextFile(order[k])
  IN /\ StoreAt(k)
     /\ ReserveForeground(s, {})
     /\ Start(f)
     /\ storeOps' = storeOps \cup {[file |-> f, slot |-> s, stage |-> "copy"]}
     /\ dataInflight' = dataInflight + 1
     /\ content' = Forget({s})
     /\ UNCHANGED <<settling, jobList, loadIo, openInflight, specQ, parked,
          specIo, inflight, waiters, copies, storeInflight, copying, stored>>

ScheduleStoreCopyFails(k, s) ==
  LET f == NextFile(order[k])
  IN /\ StoreAt(k) /\ "launch" \in Faults
     /\ ReserveForeground(s, {s}) /\ content' = Forget({s})
     /\ FileTerminal({}, {f})
     /\ StoreInflightDone(H(f))
     /\ UNCHANGED <<settling, jobList, loadIo, budget, specQ, knownMissing,
          specIo, inflight, waiters, copies, storeOps, copying, stored>>

-----------------------------------------------------------------------------
(* Speculative preloads: _drain_ready_preload_fds, oldest fd first. *)

\* A slot is reserved for the head fd, as foreground work if a load waits.
ReadHead(s, back) ==
  /\ preReady # <<>> /\ dataInflight < IoDepth /\ At(PreFdPos)
  /\ IF HeadWaited THEN ReserveForeground(s, back)
                   ELSE ~LoadPressure /\ ReservePreload(s, back)
  /\ preReady' = Tail(preReady)
  /\ content' = Forget({s})

SubmitPreloadRead(s) ==
  /\ ReadHead(s, {})
  /\ preReads' = preReads \cup {[hash |-> Head(preReady), slot |-> s]}
  /\ dataInflight' = dataInflight + 1
  /\ UNCHANGED <<settling, jobs, loadIo, openInflight, specQ, parked, preOpens,
       inflight, waiters, copies, transfers>>

SubmitPreloadReadRefused(s) ==
  LET h == Head(preReady)
  IN /\ ReadHead(s, {s}) /\ "submit" \in Faults
     /\ PreInflightRemove(h)
     /\ FileTerminal({}, waiters[h])
     /\ waiters' = [waiters EXCEPT ![h] = {}]
     /\ UNCHANGED <<settling, jobList, next, loadIo, budget, specQ, parked,
          preOpens, preReads, copies, transfers>>

\* A load wants the disk: the speculative fd is closed and queued again.
YieldOpenFd ==
  LET h == Head(preReady)
  IN /\ preReady # <<>> /\ ~HeadWaited /\ LoadPressure /\ At(PreFdPos)
     /\ preReady' = Tail(preReady)
     /\ PreInflightRemove(h)
     /\ pending' = Append(pending, h)
     /\ UNCHANGED <<settling, jobs, loadIo, budget, cancel, parked, preOpens,
          preReads, waiters, demand, slots, transfers>>

\* A load has read the head of the queue itself: _drain_cancelled_pending
\* before the gate, the same test in the loop behind it.
DropCancelled ==
  LET h == Head(pending)
  IN /\ HeadCancelled
     /\ At(DrainPos) \/ (At(SpecPos) /\ CanSpeculate)
     /\ pending' = Tail(pending)
     /\ cancel' = [cancel EXCEPT ![h] = @ - 1]
     /\ UNCHANGED <<settling, jobs, loadIo, budget, parked, specIo, inflight,
          waiters, demand, slots, transfers>>

\* A store of the head is under way: wait for its write.
DeferOnWrite ==
  LET h == Head(pending)
  IN /\ CanSpeculate /\ ~HeadCancelled /\ storeInflight[h] > 0 /\ At(SpecPos)
     /\ pending' = Tail(pending)
     /\ blocked' = blocked \cup {h}
     /\ UNCHANGED <<settling, jobs, loadIo, budget, cancel, knownMissing,
          specIo, inflight, waiters, demand, slots, transfers>>

OpenSpeculative ==
  LET h == Head(pending)
  IN /\ CanSpeculate /\ ~HeadCancelled /\ storeInflight[h] = 0 /\ At(SpecPos)
     /\ pending' = Tail(pending)
     /\ SubmitOpenPreload(h)
     /\ UNCHANGED <<settling, jobs, loadIo, dataInflight, cancel, parked,
          preReady, preReads, waiters, demand, slots, transfers>>

-----------------------------------------------------------------------------
(* The end of a turn: _flush_copy_batch, submit_pending, _finish_jobs. *)

FlushCopyBatch ==
  /\ copyReady # {} /\ At(FlushPos)
  /\ copyReady' = {}
  /\ \/ batches' = batches \cup {copyReady} /\ UNCHANGED settling
     \/ /\ "launch" \in Faults
        /\ settling' = {<<m, FALSE>> : m \in copyReady}
        /\ UNCHANGED batches
  /\ UNCHANGED <<jobs, loadIo, budget, preload, slots, storeIo, stored>>

\* Nothing of the job is in flight or left to schedule, and its Future is set.
Drained(j) ==
  /\ Resolved(j) /\ FilesOf(j) \cap live = {}
  /\ next[j] >= NumFiles(j) \/ Failed(j)

EndTurn ==
  /\ Alive /\ Quiet /\ \A q \in pc..(EndPos - 1) : ~Busy(q)
  /\ pc' = IntakePos
  /\ active' = {j \in active : ~Drained(j)}
  /\ UNCHANGED <<mode, intake, settling, order, next, fileVars, loadIo, budget,
       preload, slots, transfers>>

\* Calls of a turn that no handler guards: the query of a copy's event and the
\* cleanup_temp inside an exception handler, poll_all and the same cleanup_temp,
\* the set-up of a fused batch, submit_pending.
Unguarded(p) ==
  \/ p = CudaPos /\ (batches # {} \/ \E op \in storeOps : op.stage = "copy")
  \/ p = PollPos \/ (p = FlushPos /\ copyReady # {}) \/ p = EndPos

\* Variant for mutation: only the parked loads are failed.
AbandonedParked == {f[1] : f \in UNION {waiters[h] : h \in Hashes}}

\* Jobs whose Futures a dying thread fails.
Abandoned == active \cup {f[1] : f \in UNION {waiters[h] : h \in Hashes}}

\* One of these calls raises: the thread dies and fails what is outstanding.
\* A file whose write was being finished may have been linked by then.
FailEverything ==
  /\ Alive /\ Quiet /\ "crash" \in Faults
  /\ \E p \in CudaPos..EndPos :
       pc <= p /\ (\A q \in pc..(p - 1) : ~Busy(q)) /\ Unguarded(p)
  /\ mode' = "crashed"
  /\ future' = [j \in Jobs |-> IF j \in Abandoned /\ future[j] = "pending"
                                 THEN "error" ELSE future[j]]
  /\ active' = {} /\ waiters' = [h \in Hashes |-> {}]
  /\ \/ UNCHANGED stored
     \/ \E op \in storeOps : op.stage = "write" /\ stored' = stored \cup {H(op.file)}
  /\ UNCHANGED <<pc, intake, settling, order, next, live, done, loadIo, budget,
       specQ, parked, specIo, inflight, demand, slots, storeIo, copying>>

\* Variant for mutation: the counter of preload reads stands for the reads.
HasWorkByCount ==
  \/ active # {} \/ opens # {} \/ readyLoad # {} \/ reads # {}
  \/ preTotal # 0 \/ storeOps # {} \/ copyReady # {} \/ batches # {}
  \/ pending # <<>> \/ SharedHashes # {}

\* _has_work
HasWork ==
  \/ active # {} \/ opens # {} \/ readyLoad # {} \/ reads # {}
  \/ preOpens # {} \/ preReady # <<>> \/ preReads # {}
  \/ storeOps # {} \/ copyReady # {} \/ batches # {}
  \/ pending # <<>> \/ SharedHashes # {}

\* The loop of _run ends.
Exit ==
  /\ mode = "stopping" /\ pc = IntakePos /\ Quiet /\ ~HasWork
  /\ mode' = "exited"
  /\ UNCHANGED <<pc, intake, settling, jobs, loadIo, budget, preload, slots,
       transfers>>

-----------------------------------------------------------------------------
\* What other threads ask of the reactor.
Client ==
  \/ \E p \in Preloads : AskPreload(p)
  \/ \E j \in Jobs : IntakeLoad(j) \/ IntakeStore(j) \/ SubmitClosed(j)
  \/ Stop

\* The reactor's own steps, with the completions it finds.
Work ==
  \/ \E a \in asking : PreloadHash(a)
  \/ \E f \in storing : StoreHash(f)
  \/ \E b \in batches : BatchDone(b)
  \/ \E w \in settling : Settle(w)
  \/ \E op \in storeOps : \/ OnStoreCopyDone(op) \/ OnStoreCopyFailed(op)
                           \/ OnWriteComplete(op) \/ OnWriteFails(op)
  \/ \E o \in opens : OnOpenComplete(o) \/ OnOpenMiss(o)
  \/ \E o \in preOpens : OnPreOpenComplete(o) \/ OnPreOpenMiss(o)
  \/ \E r \in reads : OnReadComplete(r) \/ OnReadFails(r)
  \/ \E r \in preReads : OnSharedReadComplete(r) \/ OnSharedReadFails(r)
  \/ \E f \in readyLoad, s \in Slots : SubmitRead(f, s) \/ SubmitReadRefused(f, s)
  \/ \E k \in 1..Len(order) :
       \/ ScheduleCacheHit(k) \/ SharedClaimFromCache(k) \/ SharedClaimFails(k)
       \/ SchedulePreloadInflight(k) \/ PromotePendingToSharedRead(k)
       \/ SubmitOpenRead(k)
       \/ \E s \in Slots : ScheduleStoreCopy(k, s) \/ ScheduleStoreCopyFails(k, s)
  \/ \E s \in Slots : SubmitPreloadRead(s) \/ SubmitPreloadReadRefused(s)
  \/ YieldOpenFd \/ DropCancelled \/ DeferOnWrite \/ OpenSpeculative
  \/ FlushCopyBatch \/ EndTurn \/ Exit

Next == Client \/ Work \/ FailEverything

Spec == Init /\ [][Next]_vars

\* The thread keeps running and the devices keep completing.
FairSpec == Spec /\ WF_vars(Work)

-----------------------------------------------------------------------------
(* Types. *)

LoadOpen  == [file : Files, hash : Hashes, had : BOOLEAN]
PreOpen   == [hash : Hashes, had : BOOLEAN]
FileRead  == [file : Files, slot : Slots]
PreRead   == [hash : Hashes, slot : Slots]
StoreOp   == [file : Files, slot : Slots, stage : {"copy", "write"}]

TurnTypes ==
  /\ mode \in {"run", "stopping", "exited", "crashed"} /\ pc \in Nat
  /\ asked \subseteq Preloads /\ asking \subseteq Asks /\ storing \subseteq Files
  /\ settling \subseteq Member \X BOOLEAN

JobTypes ==
  /\ active \subseteq Jobs /\ order \in Seq(Jobs) /\ next \in [Jobs -> Nat]
  /\ live \subseteq Files /\ done \subseteq Files /\ future \in [Jobs -> Outcome]

LoadTypes ==
  /\ opens \subseteq LoadOpen /\ readyLoad \subseteq Files /\ reads \subseteq FileRead
  /\ openInflight \in Int /\ dataInflight \in Int

QueueTypes ==
  /\ pending \in Seq(Hashes) /\ cancel \in [Hashes -> Int]
  /\ blocked \subseteq Hashes /\ knownMissing \subseteq Hashes

PreloadTypes ==
  /\ preOpens \subseteq PreOpen /\ preReady \in Seq(Hashes) /\ preReads \subseteq PreRead
  /\ preInflight \in [Hashes -> Nat] /\ preTotal \in Int
  /\ waiters \in [Hashes -> SUBSET Files]

DemandTypes == refcount \in [Hashes -> Nat] /\ owned \subseteq Reqs \X Hashes

PoolTypes ==
  /\ free \subseteq Slots /\ content \in [Slots -> Hashes \cup {Junk}]
  /\ cache \in [Hashes -> Slots \cup {NoSlot}]
SharedTypes ==
  /\ sharedCached \in [Hashes -> Slots \cup {NoSlot}] /\ copies \in [Slots -> Int]

TransferTypes ==
  /\ storeInflight \in [Hashes -> Nat] /\ storeOps \subseteq StoreOp
  /\ copyReady \subseteq Member /\ batches \subseteq SUBSET Member
  /\ stored \subseteq Hashes

TypeOK ==
  /\ TurnTypes /\ JobTypes /\ LoadTypes /\ QueueTypes /\ PreloadTypes
  /\ DemandTypes /\ PoolTypes /\ SharedTypes /\ TransferTypes

-----------------------------------------------------------------------------
(* Safety. *)

\* The members of every load copy that is queued, running or being settled.
Copying == copyReady \cup (UNION batches) \cup {w[1] : w \in settling}

\* Who holds a slot.  A detached copy has lost its claim on the slot.
Holders ==
  {<<"read", r.file, r.slot>> : r \in reads}
    \cup {<<"preload", r.hash, r.slot>> : r \in preReads}
    \cup {<<"store", op.file, op.slot>> : op \in storeOps}
    \cup {<<"copy", m.file, m.slot>> : m \in {c \in Copying : c.src = "own"}}
    \cup {<<"cache", h, cache[h]>> : h \in Resident}
    \cup {<<"shared", h, sharedCached[h]>> : h \in SharedHashes}
    \cup {<<"shared", H(m.file), m.slot>> : m \in {c \in Copying : c.src = "shared"}}

\* Every slot has exactly one owner: it is free, or one read, store, copy,
\* preload object or cache entry holds it.  A slot released twice, or handed
\* on by the refcount while another path releases it, breaks this; a slot no
\* one holds has leaked.
SlotsPartition ==
  Alive => \A s \in Slots :
    Cardinality({c \in Holders : c[3] = s}) = IF s \in free THEN 0 ELSE 1

\* A load copy, queued or running, reads the bytes of the block it is for,
\* as does every retained slot: no read or store is issued into a slot that
\* a DMA still drains.  Copies detached by STOP are left out.
CopiesReadTheirBlock ==
  Alive =>
    /\ \A m \in Copying : m.src # "detached" => content[m.slot] = H(m.file)
    /\ \A h \in Hashes : /\ IsShared(h) => content[sharedCached[h]] = h
                        /\ h \in Resident => content[cache[h]] = h

\* copies_inflight of a shared object or cache entry counts the copies that
\* read it, so no eviction sees an object in use as idle.
CopyCountsExact ==
  Alive => \A s \in Slots :
    copies[s] = Cardinality({m \in Copying : m.slot = s /\ m.src \in {"shared", "cache"}})

\* The open and data budgets equal what is in flight and stay within
\* open_lookahead and iodepth, over every error path.
BudgetsExact ==
  Alive =>
    /\ openInflight = Cardinality(opens) + Cardinality(preOpens)
    /\ dataInflight = Cardinality(reads) + Cardinality(preReads) + Cardinality(storeOps)
    /\ openInflight + Cardinality(readyLoad) + Len(preReady) <= OpenLookahead
    /\ dataInflight <= IoDepth

ReadsUnderWay(h) ==
  Cardinality({o \in preOpens : o.hash = h})
    + Cardinality({k \in 1..Len(preReady) : preReady[k] = h})
    + Cardinality({r \in preReads : r.hash = h})

\* The per-hash count of preload reads matches the opens, fds and reads of the
\* hash, and until STOP resets it so does the total the preload budget uses.
InflightExact ==
  Alive =>
    /\ \A h \in Hashes : preInflight[h] = ReadsUnderWay(h)
    /\ mode = "run" =>
         preTotal = Cardinality(preOpens) + Len(preReady) + Cardinality(preReads)

\* A parked load is always served: the read it waits for is in flight.
WaitersServed ==
  Alive => \A h \in Hashes : waiters[h] # {} => ReadsUnderWay(h) > 0

\* Shared mode keeps one read and one slot per hash: a hash is queued,
\* being read, staged, parked on a write or known missing, never two of them.
LiveQueued(h) == Cardinality({k \in 1..Len(pending) : pending[k] = h}) - cancel[h]
OneSourcePerHash ==
  Alive => \A h \in Hashes :
    /\ LiveQueued(h) >= 0
    /\ LiveQueued(h) + preInflight[h]
         + Cardinality({h} \cap SharedHashes) + Cardinality({h} \cap blocked)
         + Cardinality({h} \cap knownMissing) <= 1

\* The demand count of a hash covers every request that owns it, and a shared
\* object is retained only while some demand for it is counted.
DemandCoversOwners ==
  Alive => \A h \in Hashes :
    /\ refcount[h] >= Cardinality({q \in Reqs : <<q, h>> \in owned})
    /\ IsShared(h) => refcount[h] > 0

\* Every file counted as in flight sits in exactly one table, so the job it
\* belongs to will hear of it exactly once.
Places(f) ==
  Cardinality({o \in opens : o.file = f}) + Cardinality({f} \cap readyLoad)
    + Cardinality({r \in reads : r.file = f})
    + Cardinality({op \in storeOps : op.file = f})
    + Cardinality({h \in Hashes : f \in waiters[h]})
    + Cardinality({m \in Copying : m.file = f})
FilesPartition ==
  Alive => \A f \in Files : Places(f) = Cardinality({f} \cap live)

\* A Future that succeeded means every block of the job is on disk: a store
\* has published it, a load has only handed over published bytes, wherever
\* they were staged on the way.
OkMeansPublished ==
  \A j \in Jobs : future[j] = "ok" => \A f \in FilesOf(j) : H(f) \in stored

\* Wherever bytes are on their way to a load, they are those of a published
\* block: an open found the file, a retained slot was filled from it or by
\* its own store, and a load is parked only on reads of the hash it wants.
DoneProv   == /\ \A f \in done : H(f) \in stored
              /\ \A j \in Jobs : future[j] = "ok" => FilesOf(j) \subseteq done
LoadProv   == /\ \A o \in opens : o.hash = H(o.file)
              /\ \A f \in readyLoad : H(f) \in stored
              /\ \A r \in reads : H(r.file) \in stored
PreProv    == /\ \A k \in 1..Len(preReady) : preReady[k] \in stored
              /\ \A r \in preReads : r.hash \in stored
ParkedProv == \A h \in Hashes : \A f \in waiters[h] : H(f) = h
CacheProv  == Resident \subseteq stored
SharedProv == SharedHashes \subseteq stored
CopyProv   == \A m \in Copying : H(m.file) \in stored
Provenance == /\ DoneProv /\ LoadProv /\ PreProv /\ ParkedProv
              /\ CacheProv /\ SharedProv /\ CopyProv

\* A preload parked on a write waits for a store that is still going to end:
\* some file of the hash is unscheduled or in flight in a store job.
StoreUnfinished(f) ==
  /\ JobKind[f[1]] = "store"
  /\ f \in live \/ (future[f[1]] = "pending" /\ f[2] > next[f[1]])
BlockedHasWriter ==
  Alive => \A h \in blocked : \E f \in Files : H(f) = h /\ StoreUnfinished(f)

\* A thread that is gone leaves no caller waiting: every Future of a job it
\* had taken in is set, wherever the files of the job were when it died or
\* stopped (reactor.py:569 "so vLLM gets errors instead of blocking forever").
DeadAnswersAll == ~Alive => \A j \in Jobs : future[j] # "pending"

\* What a comment of the repository says, and a run refutes.

\* A slot goes back to the pool only when no copy reads from it any more
\* (the comment on _SharedPreloadSlot).
ReleasedWhenUnread == Alive => \A m \in Copying : m.slot \notin free

-----------------------------------------------------------------------------
(* Actions and liveness. *)

\* The reactor keeps the promises of BlockTransfer: a Future succeeds exactly
\* when the last block is delivered, no file completes twice, and no load
\* completes from bytes that were never published.
Transfer == INSTANCE BlockTransfer
ImplementsTransfer == Transfer!Spec

\* The oldest descriptor of the preloads is a speculative one that gets no
\* slot, and behind it stands one that a load is parked on.  Nothing in the
\* code resolves this but a slot that comes back (reactor.py:1528).
HeadOfLineBlocked ==
  /\ preReady # <<>> /\ ~CanDrainPreFd /\ ~HeadWaited
  /\ \E k \in 2..Len(preReady) : waiters[preReady[k]] # {}

\* Every accepted job is answered, provided that no speculative descriptor
\* holds up a parked load for ever.  The code does not ensure the condition:
\* with every slot staged for another request it fails, and the load hangs.
EveryJobResolves ==
  []<>~HeadOfLineBlocked => \A j \in Jobs : (future[j] = "pending" ~> Resolved(j))

\* A preload parked on a store is woken or dropped when the store has ended.
ParkedPreloadsWake == \A h \in Hashes : h \in blocked ~> h \notin blocked

\* shutdown() joins a thread that ends.
ShutdownCompletes == mode = "stopping" ~> mode # "stopping"
=============================================================================
