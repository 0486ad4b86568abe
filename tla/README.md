# py-kvcache in TLA+

TLA+ models of py-kvcache, the KV-cache offloading engine in `src/`, with the
TLC configurations that model-check them on small instances and theorems about
them that the TLA+ proof system (tlapm) checks for every size.

Modules are checked with `tlc -config MC_<run>.cfg <MC module>` and proofs with
`tlapm <module>.tla`. `PROJECT.json` lists every run with its properties, the
source lines behind every definition, the hazards the properties are about, the
findings and the theorems.

## 1. The system

vLLM runs the engine in two halves. The scheduler side answers "is this prefix
stored?"; the worker side moves blocks. A worker hands jobs to a
`TransferCoordinator`, which queues them for one `IoReactor` thread. That thread
owns an `io_uring` ring, the staging slots and the CUDA streams, and answers each
job through a `Future`. A directory shared by every process holds one immutable
file per block hash.

```
scheduler: Manager --plan--> LoadPlanner
           Manager --lookup/prepare--> (files)
worker:    Handler --submit--> Coordinator --queue--> Reactor --ring--> kernel
                                                        |  \--> CUDA copies
                                       StagingPool, StagingDataCache, FileStore
```

### Components

| Component | State | Operations | What is hard | What makes it correct |
| --- | --- | --- | --- | --- |
| I/O reactor (`reactor.py`) | jobs, Futures, opens, fds, reads, writes, copies in flight, preload queue and its cancellations, demand counts and owners, waiters, parked preloads, budgets, shared preload objects | intake of loads, stores, preloads, STOP; completions; the loops of a turn; crash | kernel and GPU complete in any order; each file may be in one of a dozen tables; a hash found queued, read, staged or cached leads each time to a different table | one owner per slot; one place per file; exact budgets and counters; no byte reaches a load unpublished; every job answered; shutdown ends |
| Transfer coordinator (`reactor.py`) | none of its own | submit, shutdown | submission after STOP or a crash | a job is answered once |
| Staging pool (`staging.py`) | free list | reserve, release | double release, leak | slots are partitioned |
| Staging cache (`staging_cache.py`) | residency, pins, LRU or ARC order | lookup, pin, put, evict | eviction of an entry a copy reads; everything pinned | bounded, never evicts what is read |
| Direct-I/O file store (`liburing_file.py`) | descriptors, temporary and final names, bytes on disk | open, write, fsync, close, link, unlink, directory fsync, clean-up, open/read/close for loads | every call can fail, processes race and die, power fails, numbers are reused while the ring works | final names hold whole blocks and never change; descriptors belong to one operation; nothing left behind |
| io_uring binding (`liburing_file.py`) | head, tail, mask, submission and completion entries | queue, submit, poll | 32-bit wrap, full queue | every queued entry is submitted once and reaped once |
| Offloading manager (`vllm.py`) | lookup cache, in-flight stores | lookup, prepare, complete, reset | file and table are read in two steps; completions of failed stores | never answers "present" for a half-written block, nothing deferred for ever |
| Offloading handler (`vllm.py`) | active and finished jobs, declined blocks | transfer, preload, get_finished | preload and load of one request race | each job reported once |
| Load planner (`load_planner.py`) | deferrals with deadlines, booked storage and GPU time | plan | stale predictions, deadlines | a request is not deferred indefinitely |
| Break-even gate, cost model (`break_even.py`, `cost_model.py`, `_pchip.py`) | fitted curves | should_load | floating point | monotone thresholds |
| Block mapping, layout (`transfer.py`) | none | build_block_mapping, split_block_ids_for_files | first block in the middle of a storage block | each GPU block is copied from its place in the file |
| File mapper, configuration, profiling | none | formatting, parsing, event recording | none | out of scope |

## 2. Modules

| Module | What it is |
| --- | --- |
| `BlockTransfer` | What the reactor promises its caller: each job is answered once, `ok` exactly when its last file completes, and a load file completes only if its block is published. |
| `Reactor` | The reactor thread in shared-preload mode, with pool, cache, budgets, demand, waiters, parked preloads, store/preload hand-off, STOP and crash. |
| `SlotRetention` | What the reactor needs of the staging cache, whatever the policy. |
| `StagingCache` | `StagingDataCache` with its two policies, LRU and ARC. |
| `HashStore` | What the directory promises a reader: a hash is published once and for good, a load gets that block or an error. |
| `FileStore` | The file store, one system call per action, several processes, crashes and power loss. |
| `Ring` | The submission and completion rings of `LiburingRing` and the kernel on their other side. |
| `LoadPlanner` | `LoadPlanner.plan`, its shadow queue, hints and deadlines. |
| `Manager` | The scheduler-side manager around the planner: lookup cache, store fence, lookups, stores. Extends `LoadPlanner`. |
| `BlockMapping` | `transfer.py`: splitting a job's GPU blocks into files, and the mapping of their parts. Operators only. |
| `Handler` | The worker-side handler and the contents of GPU blocks and files. Extends `BlockMapping`, uses the reactor through `BlockTransfer`. |
| `OrderedKeys` | Python's `OrderedDict` as the sequence of its keys: `pop`, `move_to_end`. Used by `StagingCache` and `Handler`. |
| `ReactorProofs` | Type correctness of `Reactor`; inductive invariants that follow bytes from file to GPU, account for every file of every job and count the writers of parked hashes; the refinement of `BlockTransfer`. |
| `ReactorResources` | Inductive invariants that balance the preload books, keep the I/O budgets and share out the staging slots. Extends `ReactorProofs`. |
| `FileStoreProofs` | Theorems about `FileStore`, including that it implements `HashStore`. |
| `ManagerProofs` | Theorems about `Manager` and `LoadPlanner`: the fence, what lookups and plans may not do, the shadow queue and the deadlines. |
| `HandlerProofs` | Theorems about `Handler` and `BlockMapping`: the counts line up, bytes end where they belong, declined blocks are listed, preload ids are remembered. |
| `OrderedKeysProofs`, `StagingCacheProofs` | What dropping and moving a key does to a list; theorems about `StagingCache`, including that it implements `SlotRetention`. |
| `RingProofs` | The theorem about `Ring`. |
| `MCReactor`, `MCFileStore`, `MCStagingCache`, `MCRing`, `MCManager`, `MCHandler` | Workloads for the runs. |

How they compose: `Reactor` implements `BlockTransfer` (checked and proved), and `Handler`
is built on `BlockTransfer`; `FileStore` implements `HashStore` (checked and
proved), and `Reactor` uses the file store through that promise: `stored` only
grows, a write publishes in one step or fails before or after having published;
`StagingCache` implements `SlotRetention` (checked and proved), the freedom `Put` and
`ReserveForeground` of `Reactor` have in the choice of a victim; `Manager` takes
published files as a set that grows, which is `HashStore` seen from the
scheduler.

### Reactor and `reactor.py`

A variable stands for an attribute of `IoReactor`; the comments at `VARIABLES`
name it. The thread's turn, `_pump_once`, is a sequence of loops. Variable `pc`
holds the position in the turn; `At(p)` lets the thread reach position `p` only
when every loop before it has nothing left to do (`Busy`), so a turn follows the
code's order and does all the work the code does, neither more nor less:

| Position | Loop | Actions |
| --- | --- | --- |
| `IntakePos` | `_drain_incoming` | `AskPreload`, `PreloadHash`, `IntakeLoad`, `IntakeStore`, `StoreHash`, `Stop`, `Exit` |
| `CudaPos` | `_drain_cuda_copies` | `BatchDone`, `Settle`, `OnStoreCopyDone`, `OnStoreCopyFailed` |
| `PollPos` | `_poll_ring_completions` | `OnOpenComplete`, `OnOpenMiss`, `OnPreOpenComplete`, `OnPreOpenMiss`, `OnReadComplete`, `OnReadFails`, `OnSharedReadComplete`, `OnSharedReadFails`, `OnWriteComplete`, `OnWriteFails` |
| `ReadyPos` | `_drain_ready_load_fds` | `SubmitRead`, `SubmitReadRefused` |
| `LoadPos(k)` | `_schedule_work`, part 1, for the k-th job | `ScheduleCacheHit`, `SharedClaimFromCache`, `SharedClaimFails`, `SchedulePreloadInflight`, `PromotePendingToSharedRead`, `SubmitOpenRead` |
| `StorePos(k)` | `_schedule_work`, part 2, for the k-th job | `ScheduleStoreCopy`, `ScheduleStoreCopyFails` |
| `PreFdPos` | `_drain_ready_preload_fds` | `SubmitPreloadRead`, `SubmitPreloadReadRefused`, `YieldOpenFd` |
| `DrainPos`, `SpecPos` | `_drain_cancelled_pending`, `_schedule_work`, part 3 | `DropCancelled`, `DeferOnWrite`, `OpenSpeculative` |
| `FlushPos`, `EndPos` | `_flush_copy_batch`, `submit_pending`, removal of finished jobs | `FlushCopyBatch`, `EndTurn` |

`FailEverything` may happen at each position with an unguarded call.

Kernel and GPU act between any two actions: a completion action takes any
element of what is in flight. Handlers that loop over hashes, waiters or batch
members run one element per action where the elements could interact with a
failure in the middle (`asking`, `storing`, `settling` hold what remains), with
the thread unable to do anything else before it is finished.

Abstractions, and why they keep the properties meaningful:

- A block is the name of its hash, a slot's `content` the hash whose bytes it
  holds, or `Junk` once it has been handed out. File contents are bytes nobody
  inspects.
- Ready descriptors of loads, waiters and parked preloads are sets where the
  code has deques: no property depends on the order among them. The preload
  queue and the descriptors of preloads stay sequences, because the code looks
  at the head only.
- The staging cache evicts any unpinned entry, which covers LRU and ARC.
- The owner set and the known-missing set are bounded and drop some element.
- CUDA batches complete in any order; two of them are on different streams.
- Break-even thresholds are in files (`SsdMin`, `MemMin`).
- Submission by the caller and intake by the thread are one step: nothing reads
  the queue in between, and a submission after STOP is refused (`SubmitClosed`).
- A crash (`FailEverything`) is an exception in a call of a turn that no handler
  guards (`Unguarded`): the query of a copy's event and the `cleanup_temp` inside an
  exception handler (`CudaPos`), `poll_all` and that same clean-up (`PollPos`), the
  set-up of a fused batch (`FlushPos`), `submit_pending` (`EndPos`). The file whose
  write was being finished may have been linked by then. Afterwards the tables are
  abandoned, so table invariants are stated for a thread that is `Alive`, and
  `DeadAnswersAll` for one that is not.
- `_async_close` changes nothing the reactor looks at; it is in `FileStore`.
- `CopyHeadroom` is max(4, iodepth / 2) in the code and 1 or 2 in the runs, so
  that slots run out; an empty fused batch and jobs with repeated hashes are not
  modelled; each job and each preload of a workload is submitted at most once.

### FileStore and `liburing_file.py`

An action is one system call: `OpenTempWrite` (makedirs, open and the queued
write), `WriteComplete`/`WriteFails` (the write ends and its completion is
reaped), then `Fsync`, `CloseTemp`, `Link`, `Unlink`, `FsyncDir` of
`finish_write`, and `CleanupClose`, `CleanupUnlink` of `cleanup_temp`. Each has
its failure. While the handler of one completion runs, `thread` holds its store
and the reactor thread of that process does nothing else. Loads are different:
their open, read and close are executed by the kernel for the ring, so
`OpenDone`, `ReadDone` and `CloseDone` happen at any time, between the calls of
the thread. Descriptors are numbers in a table per process, any free number may
be handed out, and read, write and close resolve the number when they are
executed. `Crash(p)` kills a process: its descriptors are gone, its temporary
names stay. `PowerLoss` kills all, may drop every name whose directory was not
synced (or was itself new and never synced), and may tear every file that was
not synced. A close that reports an error has released its number all the same; only
the closes of reads, whose result the code ignores, have no failure.

Abstractions: a write and the reaping of its completion are one step; temporary
names survive a power loss; each hash has a directory of its own; running out of
descriptors is an `open` that fails; nobody but the engine touches the files.

### StagingCache and `staging_cache.py`

`pol` holds the lists of the policy, oldest first: `t1` alone for LRU, all four
and the target `p` for ARC. `Admit`, `Touch`, `Evicted`, `Victims` and
`TrimGhosts` are the methods of the policies; `Put`, `EvictOne`, `CopyStarts`
(get and pin), `CopyEnds` (unpin) and `Drain` those of `StagingDataCache`. The
cache is taken in the order the code has: `put` evicts first and admits then. A
pin is a copy that reads; a copy whose entry was drained is an `Orphan`. `recent`
and `uses` are history: what the lists are compared with.

### Ring and `LiburingRing`

The four indices are words modulo `Word` in shared memory; the code's own
arithmetic (`Full`, the loop of `poll_all`) is on unbounded integers, as in
Python. `poll` holds the locals of `poll_all`, so the kernel posts completions
while it runs. A queued operation finds room (`Queue`), makes room by a flush
(`QueueAfterFlush`) or is refused (`QueueRefused`): the call failed, took nothing, or
took entries of a ring that is too full after the wrap to have room even then. The
kernel is external: it takes the oldest entries during
`io_uring_enter`, as many as it likes, finishes operations in any order, and posts
a completion when there is room.

### LoadPlanner, Manager and `load_planner.py`, `vllm.py:184-398`

A call of `plan` is a run of steps, one per candidate, with its local variables
in `call`; each branch of the loop is an action (`DeferBlocked`,
`DeclineMissing`, `AdmitResident`, `AdmitImpatient`, `DeferAgain`,
`DeclineBreakEven`, `AdmitNow`, `DeferFresh`). Every instant the planner keeps is
compared with the clock only, so it is held as the time left, in ticks, and `Tick`
lets time pass between calls. `plan_candidates` never sets
`predicted_dram_resident`, so that half of a condition is left out. Costs are tables of small integers:
the curves are floating-point.

`Manager` adds the methods of `SharedStorageOffloadingManager`. The scheduler
that calls them is external: in one step it plans (`PlanCandidates`), then asks for
each waiting request, block by block, until the first miss (`Lookup`), and lets
the request run or wait. Blocks land in the directory at any moment (`Land`), also
between a plan and the lookups it was made for, also from another engine. Stores
are prepared between scheduler steps, the next blocks of a prompt at a time
(`offered`, `ToStore`), are completed in whatever parts, may share blocks and may
fail; a gap, where one block has failed and a later one is under way, is reached. All
probes of one `plan_candidates` are one step: files only appear, and only a positive
answer is remembered. `unfenced` remembers that a reset has forgotten stores under way: see
section 3 for what the code does then.

### Handler and `vllm.py:401-600`, `transfer.py`

Here the data matters: a GPU block holds a part of a hash or `Junk`, a published
block the parts that were gathered for it. `Gather` and `Scatter` apply
`StoreMapping` and `LoadMapping`, so a wrong offset shows as wrong contents. The
reactor is `BlockTransfer` with the copies of each file between its steps
(`Schedule`, `Gather`, `Publish`, `Scatter`, `FileFails`). The worker is external:
it uses the blocks of a job again once it has the result (`Reuse`); whether it
does so after a failure is the constant `FreeOnFailure`. A load passes the place of its
first block on to the split, a store does not (`SplitFrom`). `mentions` and `passed` are
history: the calls of `preload_async` and which of them went on to `submit_preload`.

## 3. Runs

The workloads are chosen so that each run reaches the collisions it is about;
`Faults` names the calls that may fail in a run. All runs have
`CHECK_DEADLOCK FALSE`, because the system stops: a workload is finite, and the
thread exits or dies.

### Runs that pass

| Run | Instance | Shows |
| --- | --- | --- |
| `faults` | 3 slots, store h1 and load h1 h2, two announcements, one owner remembered; every call may fail, the thread may die | `TypeOK`, `CopyCountsExact`, `BudgetsExact`, `FilesPartition`, `Provenance`, `OkMeansPublished`, `Reactor` implements `BlockTransfer`; `DeadAnswersAll`: wherever in a turn the thread dies, no Future stays pending |
| `cache` | 2 slots, one may be retained; jobs: store h1, load h2 h1, load h2; both loads announced; break-even gate at 2 files; mappings fail | `SlotsPartition`, `CopiesReadTheirBlock`: no slot has two owners or leaks, no copy reads a slot that was given away; `WaitersServed`, `OneSourcePerHash`, `DemandCoversOwners`, `InflightExact`: the preload books are exact while three jobs compete for two slots |
| `live` | 2 slots, store h1 and load h2 h3 h4, and another request that announces all four | `ShutdownCompletes`; `BlockedHasWriter`, `ParkedPreloadsWake`: a preload parked on the store of its block is woken or dropped when the store ends; `EveryJobResolves`, on condition that no speculative descriptor holds up a parked load for ever, which the code does not ensure and this run reaches |
| `publish` | 2 processes, 2 descriptors each, three stores (two of one hash), one load; open, read, write fail, processes die | `TypeOK`, `DescriptorsOwned`, `NamesImmutable`, `LoadsGetTheirBlock`, and `FileStore` implements `HashStore` |
| `power` | 2 processes storing one hash, a load; `sync_on_store`; write, fsync, close, link, unlink and directory fsync fail, power fails; directories durable before | `PublishedComplete`, `AnsweredBlocksSurvive`, `NoTempLeft` |
| `policy` | 5 hashes, 3 slots, 2 copies, capacity 0, 1 or 2, both policies | `EntriesExact`: lists, ghosts, table and pool agree; `PolicyOrder`: the lists are in the order of use and ARC tells keys used again; `ImplementsRetention` |
| `ring` | rings of 2 entries, 5 operations, calls fail, partial submission | `NothingLostOrTwice`, `EveryOpReaped` |
| `planner` | 2 requests, one prompt the beginning of the other, preload budget 1; stores of a prompt in one call or block by block, completed in parts; one refusal of room, one reset, one failed store | `FenceExact`, `NeverRecomputesMidWrite`, `AdmittedMeansHit`, `ShadowQueueSound`, `NeverDeferredLate`, `EveryRequestRuns` |
| `handler` | storage blocks of 2 GPU blocks; a store of two, a load that begins in the middle of one on blocks the store has used; 3 preload ids, 2 kept | `PublishedRight`, `LoadedRight`; `PassedOnWhenForgotten`: a preload goes on to the reactor exactly when its id is new, or so many others were named since that the table has lost it |

Why these bounds are enough. The preload machinery is per hash; two hashes and
two requests are what a queue with a head, a hash two requests want, and a
request that owns two hashes need. Two slots against three users, with
`IoDepth = 1`, make every reservation fail at some point and force both kinds of
eviction. `OpenLookahead = 2` allows an opened descriptor to wait behind
another. In `faults` the owner set holds one of the owners the workload creates,
so the bound is exceeded; in `cache` it is not, and `DemandCoversOwners` beyond it is
the theorem `RetainedIsWanted`. In `live` three loaded blocks that stay staged for the
other request take both slots, with an announced descriptor still without one, which is
the smallest way to the blocked head. A second store of a hash does not fit in a liveness
run; `ParkedHaveWriters` covers it. For the file store, two descriptors are the smallest
table in which a number is reused while another is open, two processes the
smallest race for a name. Slots and descriptors are interchangeable, hence the
symmetry sets; the liveness runs use none.

For the cache, capacity 2 with five hashes gives ARC one entry in each list and
a ghost list that overflows; capacities 0 and 1 are the corner cases of `Delta` and
`TrimGhosts`. Rings of two entries are full, empty and wrapped in their arrays with
five operations; `Word` is far from reached in `ring` and is crossed in `wrap`.
Two requests that share a prefix are enough for every relation a candidate has to
an earlier one (covered, budget used up, read re-emitted); `AbsenceLimit`, the
grace times and the bounds `MaxNoRoom`, `MaxResets`, `MaxFailures` are 1 or 2, so
that deadlines pass, hints are dropped and stores overlap with a reset.
`MaxMentions` of 5 lets an id be named again after none, one and two others, of which two
push it out, and once more after it has been passed on again. With two requests in a
window of two no candidate is ever absent from a plan; the theorem `DeadlinesAreKept`
covers absences.

Liveness in `live` is checked under `WF_vars(Work)`: as long as some step of the
reactor is possible, one is eventually taken. The thread is a loop that only
blocks when `_has_work` is false (`_drain_incoming(block=not self._has_work())`),
and device completions are part of `Work`, so this says no more than that the
thread is scheduled and that kernel and GPU keep completing. No fairness is
assumed of individual operations: which completion arrives next is never
constrained. `EveryJobResolves` has a condition besides: `HeadOfLineBlocked`, the state in
which the oldest descriptor of the preloads gets no slot and a load is parked on one
behind it, does not last. The code does not see to that (below, `reactor.py:1528`);
without the condition TLC finds in this very run a load that is never answered. What the
property shows is that a job is left unanswered only where that state lasts for ever.

`ring` assumes that each turn polls and submits (`_pump_once`) and that the kernel
finishes what it took. `planner` assumes that the
scheduler goes on making steps, that blocks of prepared stores land, that running
requests come to store and stores come to end, and that time passes. The last two are
strong fairness: they happen between scheduler steps, and each step disables them
while it lasts.

### Runs that end in a violation

Each checks one statement that the repository makes and the code breaks.

| Run | Statement | What happens |
| --- | --- | --- |
| `stoprelease` | "Released only when not cached and no copy still reads from it" (`reactor.py:105`) | STOP frees the slots of shared objects without looking at `copies_inflight`; a running copy reads a slot in the free list |
| `wrap` | each queued operation is reaped once (`tests/test_py_kvcache_async_open.py:102-105`) | `poll_all` compares an unbounded head with a 32-bit tail; after 2^32 completions it never meets it and reaps entries that were never posted |
| `early` | "a cached buffer is always valid for its hash" (`staging_cache.py:5`) | the first failed file answers a store job; the worker uses its GPU blocks again while another file of it is still to be copied, and that file is published with other data |

### Further disagreements met while modelling

These were found on the way, on instances or faults the runs above leave out, or by
reading. The models follow the code in each of them.

- `reactor.py:1366`, `728`: after one file of a store job has failed, the files
  never scheduled keep their count in `_store_inflight`, and a preload stays parked
  on a write that does not come ("preload defers until write completes",
  `reactor.py:284`).
- `reactor.py:1624`, `1661`: a load is parked although the ring refused the open
  that was to serve it ("every waiter is served by some CQE", `reactor.py:413`).
- `reactor.py:1528`: an opened speculative descriptor that gets no slot stays at
  the head of the queue; a load parked on one behind it waits for ever ("Slot
  priority: foreground > preload > cache", `reactor.py:1242`). Run `live` reaches the
  blocked head, and `EveryJobResolves` excepts the behaviours in which it lasts.
- `staging_cache.py:182-187`: with every entry pinned the cache keeps one more
  entry than "bounded at `capacity` slots" (`staging_cache.py:148`) says.
  `SlotRetention` states what holds instead.
- `staging_cache.py:184-186`: `put` evicts before it admits; the eviction may trim
  the very ghost that would have told ARC that the key comes back.
- `liburing_file.py:416`, `424`: after a failed link or directory fsync,
  (or a close that reports an error) `cleanup_temp` closes a descriptor that is closed already, and by then may belong
  to a load, which reads another block.
- `liburing_file.py:351`, `418`: new directories are not synced in their parents; a
  power failure takes an answered block ("`fsync` temp files and parent dirs before
  publishing", README, `sync_on_store`).
- `liburing_file.py:191`: between the wrap of the tail and that of the head the
  submission ring is never seen full.
- `vllm.py:391`: `reset_cache` forgets stores under way; when one of them completes it
  lowers the count of a newer store of the same block, and the fence falls early.
  `FenceExact` and `NeverRecomputesMidWrite` except exactly this case (`unfenced`).
- `load_planner.py:298`: a request admitted past its deadline sets the storage wait to
  the time its own blocks are there. If earlier reads of the same plan deliver all of
  them that is before the end of the queue, and later candidates are priced as if the
  queue were shorter ("given the storage and GPU work already booked ahead of it",
  README). No property here speaks of prices.

One disagreement has no run because its text settles it: `staging_cache.py:6` and
`fs_config.py:80` say that store buffers are never cached, `_on_write_complete`
(`reactor.py:1160`) retains them, and the repository's configuration table calls
the cache write-through. The model follows the code.

## 4. Proofs

Every theorem holds for all values of the constants that satisfy the named
assumptions of the module (`WorkloadAssumption`, `SizeAssumption`,
`FinitenessAssumption`; `FilesAssumption`; `PlannerAssumption`, `ManagerAssumption`;
`CacheAssumption`; `RingAssumption`; `HandlerAssumption`), that is for any
workload, any number of slots, processes and descriptors, and any set of faults
unless a theorem excludes some.

**Reactor.** `TypeCorrect` is `Spec => []TypeOK`. `TypeOK` is inductive by
itself; the lemmas say what each shared helper (`ReleaseOrCache`,
`ReserveForeground`, `SharedDecref`, ...) does to its tables, and one lemma per
group of actions combines them. `SuccessMeansPublished` says that a Future that
succeeded means published blocks. That is not inductive: whether a load file may
complete depends on where its bytes were staged. The strengthening is
`Provenance`, which says of every table bytes pass through (opened descriptors,
reads, retained slots, copies, waiters) that they are those of a published
block. `BytesAreTraceable` proves it from `TypeOK` and `Provenance`.

`EachFileOnce` (`FilesPartition`) and `ReactorImplementsTransfer`
(`ImplementsTransfer`) rest on `Accounts`, in two parts. `Ledger` is what outlives
the reactor thread: live and finished files are disjoint and below the next number,
each belongs to a job that started, and a job whose Future is open lacks a file.
`Tables` holds while the thread lives: each live file is in exactly one of `opens`,
`readyLoad`, `reads`, `storeOps`, `waiters` and the copies, no table names another,
and two copies share no member. A step moves files from table to table or retires
them; a STOP or a crash answers them all at once. The refinement needs `Ledger` only:
`BlockTransfer` answers a job in the step that takes its last file away.

`DeadLeaveNobodyWaiting` (`DeadAnswersAll`) rests on `Awaited`: a job whose Future is
pending is one the thread, which is alive, has in `_active`, or the store it is taking in.
So a dying thread finds all of them in what it fails, and one that exits has none left. A
job leaves `_active` only when it is finished or failed, and then its Future is set.

`ParkedHaveWriters` (`BlockedHasWriter`) rests on `StoreBooks`: `_store_inflight` of a
hash is the number of its `Writers`, the files of store jobs that the intake has
counted and no write has ended, and every parked hash has a count above zero. For a
step to keep that, a job being taken in must have nothing taken up yet, and a store
job with files to come must still be open and in `_active` (`StoreRecord`). The theorem
assumes `StoresSucceed`: no write, submission or copy launch fails. Without it the
property is false, as the count of a job that failed is never taken back
(`reactor.py:1366`, section 3); opens, reads, mappings and the thread may fail.

`OneReadPerHash`, `CountersAreExact`, `RetainedIsWanted` and `ParkedAreServed` rest on
`Preloading`, which has one `Book` per hash. The property to keep is that queue entries
not cancelled, reads under way and places on the shelf (staged, parked on a write,
known missing) come to at most one. That needs more: a hash that is parked, known
missing or read for nobody has no queue entry at all, not even a cancelled one, or it
could be opened twice when a write wakes it or its descriptor is given up; and the
counter of a hash is the number of its opens, descriptors and reads, so that a
completion finds itself counted. `Covered` and `Wanted` tie demand, owners and objects;
the lemmas on `Claim`, `Purge` and `Own` are about cardinalities. `Served` is the part
that needs submissions not to be refused: otherwise a load is parked with no read to
wake it (`reactor.py:1624`, section 3).

`BudgetsHold` (`BudgetsExact`) rests on `Budgets`: the tables are finite, the two
counters are their sizes, and the sums stay within `open_lookahead` and `iodepth`. A
counter is exact only if each entry added is new. For files that is the partition of
`Accounts`, for hashes the one place of `Preloading` and its exact counter: a hash is
opened only with no read of its own under way.

`SlotsHeldOnce` (`SlotsPartition`), `ReadersAreCounted` (`CopyCountsExact`) and
`BytesStayPut` (`CopiesReadTheirBlock`) rest on one invariant, `Sharing`, because none
of the three can be kept without the others: a slot is given to a new holder only if
its count says nobody reads it (`Exact`), the count is that of the copies of the one
object or entry in the slot (`Sheltered`: one holder per slot, its block in it), and an
entry a copy reads is never evicted, so the count is still about that entry when the
copy ends (`Pinned`). Each step is then one exchange of holders, `Moves`: those in
`Out` leave, at most one in `In` takes a slot they had or a free one, and nothing else
is written; `Exchange` proves this once and the step lemmas only say who moves.
`Preloading` is needed in one place: a preload read ends with no object of its hash
staged. What STOP detaches is outside the three properties; run `stoprelease` shows why.

**File store.**

- `FilesTypeCorrect`: types, with the strengthening `Numbered`: an operation
  that may still use its descriptor has a number.
- `NothingLeftBehind` (`NoTempLeft`), for every set of faults. `Tidy` adds the
  stages before the temporary file is made and after it is unlinked.
- `AnswersOutlivePower` (`AnsweredBlocksSurvive`) under `DirsLast`:
  `sync_on_store`, directories durable beforehand, and `_fsync_dir` able to open
  them. Without the second
  condition a power failure takes the block with its new directory.
- `PublishedWhole`, `NumbersHeldOnce`, `LoadsAreTrue` and
  `StoreImplementsHashStore` under `Benign`: no call of `finish_write` fails
  from its close on (else clean-up closes a number it no longer owns), and files are synced where power may fail. The inductive
  invariant `FInv` relates four things that depend on each other: descriptors
  belong to one operation (`Owned`), so a write reaches only the store's own
  inode; inodes about to be linked are whole and those linked are not written to
  any more (`Whole`); so a load that read through its own descriptor got the
  block of its hash (`Answered`). The refinement maps `published` to the names
  that exist, and excludes power loss, after which unsynced names disappear.
- `NamesStay` (`NamesImmutable`) without power failures, whatever else fails.

**Manager.** For any number of requests and prompts, any order, window, cost
tables and bounds.

- `FenceIsExact` (`FenceExact`). The count is compared with the number of requests
  that store the block; the strengthening `FenceInv` adds that the stores of a
  request are of blocks that were offered for it, so that with the next blocks of its
  prompt, which are others, come new writers only, and where the lookups stand. Its lemmas
  `WriterBegins` and `WriterEnds` are about cardinalities.
- `RecomputesAlone` (`NeverRecomputesMidWrite`). `WalkInv` adds that the lookup cache
  claims only what is on disk, and that a walk which ended at a block ended at one
  nobody was writing: while a request is looked up no store begins or ends.
- `AdmittedHits` (`AdmittedMeansHit`). `PlanInv` says of the plan under way that each
  candidate not blocked begins with a block that is there, and of the decisions taken
  that an admitted request has its first block; files do not go away, so it is still
  there when the lookups run. `PrefixIsGood` and `PlaceExists` show that the two
  CHOOSEs of the model choose something.

- `QueueIsSound` (`ShadowQueueSound`). `ClockInv` adds what the queue is made of and
  that only candidates of the plan are left to do. A read is appended only if the
  request has none (`QueueAppend`), the reads that retire are a beginning of the queue
  (`QueueTail`), and a tick takes the same off the end of a read and the start of the
  next, because neither goes below 0 before the other (`QueueTicks`).
- `DeadlinesAreKept` (`NeverDeferredLate`). A deadline is armed with at least `MinGrace`,
  and nothing but time takes from it; time does not pass during a plan, so what the plan
  finds unexpired stays so until its end.

`ManagerAssumption` states of each set of jobs that may run that its cost is a natural
number. It is a sum of table entries, but a fold, and what a fold computes is out of
the provers' reach; TLC evaluates the assumption.

**Staging cache.** For both policies, any capacity and any sets of hashes, slots and
copies. The invariant is `Table /\ History`. `Table` says that the four lists are
disjoint, each without repetition, that those of T1 and T2 are the hashes in the table
of slots, and that slots and free slots are complements. `History` says that each list
is in the order of last use and that T1 with its ghosts holds what was used once.

- `EntriesExactHolds` and `PolicyOrderHolds`. The policy is proved apart from the cache:
  `AdmitFacts`, `TouchOK` and `EvictedOK` say for each policy which list a key
  leaves and which it joins and that the order of the others is kept. They rest on
  `OrderedKeysProofs`, where a list is a sequence without repetition, and on `TrimFacts`
  for the ghosts that are pushed out.
- `PoliciesImplementRetention`. Each step is a step of `SlotRetention` or stutters: the
  victim exists when a candidate does (least element of a set of places), is retained
  and read by nobody.

**Ring.** `RingLosesNothing` (`NothingLostOrTwice`) under `NoWrap`: the number of
operations stays below the word size. Run `wrap` shows that the code loses its count
there, so the condition is necessary. The invariant has three parts: `Counts`, by which
the indices are what has been queued and reaped, and what is queued is in one of the
four places; `Places`, by which the entries between head and tail of either ring are
distinct and the places disjoint; and `Polling`, by which the walk of `poll_all` has
read exactly the entries it has passed, although completions are posted meanwhile. An
entry is at the remainder of its index, so the lemmas on remainders say that fewer than
`Entries` indices in a row do not meet.

**Handler.** `HandlerAssumption` says of a job what vLLM's connector guarantees: its
hashes are those of the storage blocks that its GPU blocks span, to the end of the last
one; a store begins at the beginning of a block; no GPU block is named twice.

- `CopiesLineUp`: then neither `ValueError` of `transfer.py` (lines 72 and 255) is ever
  raised, whatever `Factor`, the lengths and the place where a load begins. `ChunkIs` is
  the arithmetic of one chunk, `StoreParts` and `LoadParts` what the mapping does with it.
- `PublishedRightHolds` (`PublishedRight`) and `LoadedRightHolds` (`LoadedRight`), both
  with `FreeOnFailure = FALSE`: run `early` shows the code publishing wrong data when the
  blocks of a failed job are used again. The invariant says that live jobs, those
  submitted whose blocks have not been used again, have disjoint GPU blocks (`Table`);
  that what is gathered for a file is its block (`FileStages`); that the GPU blocks of a
  live store hold what they are meant to, and those of a live load what its finished files
  brought (`Contents`, `Filled`); and that the blocks of a reported load that was declined
  are listed (`Declines`). A step of one file changes only blocks of its own
  chunk, which `EveryPlace` shows to be its part of the job and no other file's.
- `PassedOnHolds` (`PassedOnWhenForgotten`). The property compares each call that went on
  to the reactor with how many other ids were named since the id was named before;
  the strengthening `Kept` says that only younger ids
  of the table follow the newest mention of an id in it (`Newest`), that they all do
  (`InTurn`), and that each mention of an id not in it is followed by all those in it,
  `MaxPreloadIds` of them (`Forgotten`). From it `KnownIsRecent`: an id is in the table
  exactly when fewer than `MaxPreloadIds` others were named since some mention of it.
  `OthersKept` says that later calls change nothing about earlier ones.

**Checked by TLC only:** all liveness; every safety invariant of a passing run is also
the conclusion of a theorem, some under an assumption named with it. Liveness under
fairness and ENABLED are out of the prover's reach, as is induction over data (the library's induction theorems take an operator as
parameter): where a property needs the value of a fold, as the cost of running jobs
above, it is assumed by name and evaluated by TLC. RECURSIVE operators are used by no
module.

## 5. Not modelled, and what is left

- The mode without shared staging (`preload_share_staging = false`), which the
  repository's README calls an experiment. It would be a module `MultiCopyReactor`
  with the turn, the pool and the budgets of `Reactor` and tables of its own for
  one staged copy per request.
- Reading break-even files and fitting curves (`break_even.py`, `cost_model.py`,
  `_pchip.py`): floating-point arithmetic. What is decided with them is modelled.
- `wait` of the handler, which changes no state; tensors, streams and CUDA memory;
  the layout of ring entries; file-name formatting and configuration; profiling.
