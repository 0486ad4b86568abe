------------------------------ MODULE Handler ------------------------------
(***************************************************************************)
(* NoopSharedStorageOffloadingHandler, the worker's side of the offload,   *)
(* and the part of TransferCoordinator that splits a job into files.  The  *)
(* reactor behind it is taken by what it promises, BlockTransfer (which    *)
(* Reactor is shown to implement); what is added here is the data: the     *)
(* contents of GPU blocks and files, and when a copy touches them.  The    *)
(* vLLM worker that submits jobs, collects results and hands GPU blocks to *)
(* other requests is external.                                             *)
(***************************************************************************)
EXTENDS BlockMapping, FiniteSets, OrderedKeys

CONSTANTS
  Hashes, Jobs, JobKind, JobHashes, OnDisk,   \* as in BlockTransfer
  GpuBlocks, JobBlocks,   \* the GPU blocks of each job, in order
  FirstBlock,             \* block_indices[0] of its GPU side
  Preloads, MaxPreloadIds,
  MaxMentions,            \* bound: preload_async calls
  FreeOnFailure,          \* the blocks of a failed job are used again
  Junk

VARIABLES
  future, done, stored,   \* of BlockTransfer
  active,                 \* _active
  declinedBlocks, declinedReqs,
  preloadIds,             \* _submitted_preload_ids, oldest first
  isShutdown,
  file,                   \* copy state of each file of a job
  staged,                 \* contents gathered for each store file
  data,                   \* contents of each published block
  gpu,                    \* contents of each GPU block
  reported,               \* jobs whose result the worker has been given
  freed,                  \* reported jobs whose GPU blocks have been used again
  told,                   \* blocks the worker was told to recompute
  mentions,               \* history: preload ids in the order of the calls
  passed                  \* history: the calls that went on to submit_preload

transfer == <<future, done, stored>>
table    == <<active, declinedBlocks, declinedReqs, isShutdown>>
copies   == <<file, staged, data>>
worker   == <<gpu, reported, freed, told>>
preload  == <<preloadIds, mentions, passed>>
vars == <<transfer, table, copies, worker, preload>>

Transfer == INSTANCE BlockTransfer
Files    == UNION {Transfer!FilesOf(j) : j \in Jobs}
Block(f) == Transfer!Block(f)
IsStore(j) == JobKind[j] = "store"

\* A store splits its blocks from the start of a storage block, a load from
\* where first_group_block_index says.
SplitFrom(j) == IF IsStore(j) THEN 0 ELSE FirstBlock[j]
ChunkFromStart(f) == Chunk(JobBlocks[f[1]], SplitFrom(f[1]), 1)   \* mutant
ChunkOf(f) == Chunk(JobBlocks[f[1]], SplitFrom(f[1]), f[2])

\* vLLM offloads whole storage blocks: the hashes of a job are those of the
\* storage blocks that its GPU blocks span, from wherever in the first one a
\* load begins to the end of the last one.  The blocks of a job are distinct.
ASSUME HandlerAssumption ==
  /\ JobHashes \in [Jobs -> Seq(Hashes)] /\ OnDisk \subseteq Hashes
  /\ JobBlocks \in [Jobs -> Seq(GpuBlocks)] /\ FirstBlock \in [Jobs -> Nat]
  /\ MaxPreloadIds \in Nat \ {0}
  /\ \A j \in Jobs :
       LET n == Len(JobBlocks[j])
           m == Len(JobHashes[j])
       IN  /\ IF m = 0 THEN n = 0 ELSE (FirstBlock[j] % Factor) + n = m * Factor
           /\ IsStore(j) => FirstBlock[j] % Factor = 0
           /\ \A i, k \in 1..n : JobBlocks[j][i] = JobBlocks[j][k] => i = k

\* What position k of a job's GPU blocks is meant to hold.
Meant(j, k) ==
  LET at == FirstBlock[j] + k - 1
  IN  <<JobHashes[j][at \div Factor - FirstBlock[j] \div Factor + 1], at % Factor>>
Parts == 0..(Factor - 1)
Whole(h) == [p \in Parts |-> <<h, p>>]
Holds(j) == \A k \in DOMAIN JobBlocks[j] : gpu[JobBlocks[j][k]] = Meant(j, k)

Init ==
  /\ Transfer!Init
  /\ active = {} /\ declinedBlocks = {} /\ declinedReqs = {} /\ isShutdown = FALSE
  /\ file = [f \in Files |-> "new"] /\ staged = [f \in Files |-> Whole(Junk)]
  /\ data = [h \in Hashes |-> Whole(IF h \in OnDisk THEN h ELSE Junk)]
  /\ gpu = [b \in GpuBlocks |-> Junk]
  /\ reported = {} /\ freed = {} /\ told = {} /\ preloadIds = <<>> /\ mentions = <<>> /\ passed = {}

(* --- jobs --------------------------------------------------------------- *)

InUse == UNION {Range(JobBlocks[j]) : j \in (active \cup reported) \ freed}

\* The worker submits a job on blocks of its own; those of a store have
\* been computed.
TransferAsync(j) ==
  /\ ~isShutdown /\ j \notin active \cup reported
  /\ Range(JobBlocks[j]) \cap InUse = {}
  /\ Transfer!Submit(j)
  /\ active' = active \cup {j}
  /\ gpu' = IF ~IsStore(j) THEN gpu
            ELSE [b \in GpuBlocks |->
                    IF \E k \in DOMAIN JobBlocks[j] : JobBlocks[j][k] = b
                      THEN Meant(j, CHOOSE k \in DOMAIN JobBlocks[j] : JobBlocks[j][k] = b)
                      ELSE gpu[b]]
  /\ UNCHANGED <<declinedBlocks, declinedReqs, isShutdown, copies, reported, freed, told, preload>>

Done(j) == future[j] \notin {"none", "pending"}

\* The jobs that are done leave the table and are handed out; those that
\* were declined leave their blocks and their request behind.
GetFinished ==
  LET ready    == {j \in active : Done(j)}
      declined == {j \in ready : future[j] = "declined"}
  IN  /\ ready # {}
      /\ active' = active \ ready
      /\ reported' = reported \cup ready
      /\ declinedBlocks' = declinedBlocks \cup UNION {Range(JobBlocks[j]) : j \in declined}
      /\ declinedReqs' = declinedReqs \cup declined
      /\ UNCHANGED <<transfer, isShutdown, copies, gpu, freed, told, preload>>

GetDeclinedBlockIds ==
  /\ declinedBlocks # {} /\ declinedBlocks' = {}
  /\ told' = told \cup declinedBlocks
  /\ UNCHANGED <<transfer, active, declinedReqs, isShutdown, copies, gpu, reported, freed, preload>>

GetDeclinedReqIds ==
  /\ declinedReqs # {} /\ declinedReqs' = {}
  /\ UNCHANGED <<transfer, active, declinedBlocks, isShutdown, copies, worker, preload>>

\* The results that were not collected are dropped, and the reactor runs
\* until its last transfer has ended.
Shutdown ==
  /\ ~isShutdown /\ isShutdown' = TRUE
  /\ active' = {} /\ preloadIds' = <<>>
  /\ declinedBlocks' = declinedBlocks
       \cup UNION {Range(JobBlocks[j]) : j \in {x \in active : future[x] = "declined"}}
  /\ declinedReqs' = declinedReqs \cup {j \in active : future[j] = "declined"}
  /\ UNCHANGED <<transfer, copies, worker, mentions, passed>>

\* The request of a finished job ends, another one computes in its blocks.
Reuse(j) ==
  /\ j \in reported \ freed
  /\ future[j] = "error" => FreeOnFailure
  /\ freed' = freed \cup {j}
  /\ gpu' = [b \in GpuBlocks |-> IF b \in Range(JobBlocks[j]) THEN Junk ELSE gpu[b]]
  /\ told' = told \ Range(JobBlocks[j])
  /\ UNCHANGED <<transfer, table, copies, reported, preload>>

(* --- the copies of the files, as the reactor makes them ------------------ *)

\* The reactor takes no further file of a job that has failed.  A load may
\* find no file: then it can only fail.
Schedule(f) ==
  /\ future[f[1]] = "pending" /\ file[f] = "new"
  /\ file' = [file EXCEPT ![f] = "moving"]
  /\ UNCHANGED <<transfer, table, staged, data, worker, preload>>

\* GPU to staging: slot f gathers the parts of the block.
Gathered(f) ==
  LET m == StoreMapping(f, ChunkOf(f))
  IN  [p \in Parts |-> LET k == CHOOSE i \in DOMAIN m : m[i].to = <<f, p>>
                       IN  gpu[m[k].from[1]]]
Gather(f) ==
  /\ IsStore(f[1]) /\ file[f] = "moving"
  /\ file' = [file EXCEPT ![f] = "held"]
  /\ staged' = [staged EXCEPT ![f] = Gathered(f)]
  /\ UNCHANGED <<transfer, table, data, worker, preload>>

\* The first to link a block gives it its contents.
Link(f) == data' = IF Block(f) \in stored THEN data ELSE [data EXCEPT ![Block(f)] = staged[f]]

Publish(f) ==
  /\ file[f] = "held"
  /\ Transfer!Complete(f[1], f)
  /\ Link(f)
  /\ file' = [file EXCEPT ![f] = "over"]
  /\ UNCHANGED <<table, staged, worker, preload>>

\* Staging to GPU: the parts of the block are scattered, b gets its own.
Scattered(f, b) ==
  LET m == LoadMapping(f, ChunkOf(f))
      k == CHOOSE i \in DOMAIN m : m[i].to[1] = b
  IN  data[Block(f)][m[k].from[2]]
Scatter(f) ==
  /\ ~IsStore(f[1]) /\ file[f] = "moving"
  /\ Transfer!Complete(f[1], f)
  /\ file' = [file EXCEPT ![f] = "over"]
  /\ gpu' = [b \in GpuBlocks |-> IF b \in Range(ChunkOf(f)) THEN Scattered(f, b) ELSE gpu[b]]
  /\ UNCHANGED <<table, staged, data, reported, freed, told, preload>>

\* One file fails: its job is answered at once, its other files go on.
FileFails(f) ==
  /\ file[f] \in {"moving", "held"}
  /\ Transfer!Fail({f[1]} \cap {j \in Jobs : future[j] = "pending"})
  /\ \/ UNCHANGED <<stored, data>>
     \/ file[f] = "held" /\ stored' = stored \cup {Block(f)} /\ Link(f)
  /\ file' = [file EXCEPT ![f] = "over"]
  /\ UNCHANGED <<table, staged, worker, preload>>

(* --- preloads ----------------------------------------------------------- *)

\* Mutant of Remember: a known id stays where it is.
RememberInPlace(p) ==
  LET ids == IF p \in Range(preloadIds) THEN preloadIds ELSE Append(preloadIds, p)
  IN  IF Len(ids) > MaxPreloadIds THEN Tail(ids) ELSE ids

\* A known id moves to the end; the oldest goes when there are too many.
Remember(p) ==
  LET ids == ToEnd(preloadIds, p)
  IN  IF Len(ids) > MaxPreloadIds THEN Tail(ids) ELSE ids

\* An id that is not known is passed on to submit_preload.
PreloadAsync(p) ==
  /\ ~isShutdown /\ Len(mentions) < MaxMentions
  /\ mentions' = Append(mentions, p)
  /\ preloadIds' = Remember(p)
  /\ passed' = IF p \in Range(preloadIds) THEN passed ELSE passed \cup {Len(mentions) + 1}
  /\ UNCHANGED <<transfer, table, copies, worker>>

FileStep(f) == Schedule(f) \/ Gather(f) \/ Publish(f) \/ Scatter(f) \/ FileFails(f)

Next ==
  \/ \E j \in Jobs : TransferAsync(j) \/ Reuse(j)
  \/ GetFinished \/ GetDeclinedBlockIds \/ GetDeclinedReqIds \/ Shutdown
  \/ \E f \in Files : FileStep(f)
  \/ \E p \in Preloads : PreloadAsync(p)

Spec == Init /\ [][Next]_vars

(* --- properties --------------------------------------------------------- *)

\* A published block holds the parts of its hash, in their order, whichever
\* job wrote it and whatever became of that job (staging_cache.py:5 "a
\* cached buffer is always valid for its hash").
PublishedRight == \A h \in stored : data[h] = Whole(h)

\* When the worker has the result of a successful load, its GPU blocks hold
\* what they are meant to hold, also when the load begins in the middle of a
\* storage block (transfer.py:69); a load that was declined is reported as a
\* success too, and then its blocks are, or were, listed for recomputation
\* (vllm.py:589).
LoadedRight ==
  \A j \in reported \ freed :
    ~IsStore(j) =>
      /\ future[j] = "ok" => Holds(j)
      /\ future[j] = "declined" => Range(JobBlocks[j]) \subseteq declinedBlocks \cup told

\* A call is passed on to the reactor exactly when its id has not been named
\* before, or since each earlier naming of it at least MaxPreloadIds others
\* have been (vllm.py:414 "evicted ids can be re-submitted").
Between(k, i) == {mentions[m] : m \in (k + 1)..(i - 1)} \ {mentions[i]}
PassedOnWhenForgotten ==
  \A i \in DOMAIN mentions :
    i \in passed <=> \A k \in 1..(i - 1) :
                       mentions[k] = mentions[i] => Cardinality(Between(k, i)) >= MaxPreloadIds
=============================================================================
