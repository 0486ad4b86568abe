--------------------------- MODULE ReactorProofs ---------------------------
(***************************************************************************)
(* Machine-checked facts about the reactor, for every workload, pool size  *)
(* and set of faults: its types, why a Future that succeeded can be        *)
(* believed (Provenance), that each file is in one place (Accounts), that  *)
(* a preload parked on a write has a writer (StoreBooks), and that the     *)
(* reactor implements BlockTransfer.                                       *)
(***************************************************************************)
EXTENDS Reactor, FiniteSetTheorems, SequenceTheorems, TLAPS

USE DEF IntakePos, CudaPos, PollPos, ReadyPos

-----------------------------------------------------------------------------
(* Files and the operators the actions share. *)

LEMMA FileFacts ==
  ASSUME NEW f \in Files
  PROVE  /\ f[1] \in Jobs /\ f \in FilesOf(f[1]) /\ f = <<f[1], f[2]>>
         /\ H(f) \in Hashes /\ Req(f) \in Reqs
BY WorkloadAssumption DEF Files, FilesOf, H, Req

LEMMA FilesOfJob ==
  ASSUME NEW j \in Jobs
  PROVE  /\ FilesOf(j) \subseteq Files
         /\ \A f \in FilesOf(j) : f[1] = j /\ H(f) = JobHashes[j][f[2]] /\ f[2] \in 1..NumFiles(j)
         /\ NumFiles(j) \in Nat /\ NumFiles(j) > 0
         /\ \A i \in 1..NumFiles(j) : <<j, i>> \in Files /\ JobHashes[j][i] \in Hashes
BY WorkloadAssumption DEF Files, FilesOf, H, NumFiles

LEMMA NextFileType ==
  ASSUME JobTypes, NEW j \in Jobs, next[j] < NumFiles(j)
  PROVE  NextFile(j) \in Files
BY FilesOfJob DEF NextFile, JobTypes

LEMMA FileTerminalType ==
  ASSUME JobTypes, NEW ok, NEW bad, ok \subseteq Files, FileTerminal(ok, bad),
         UNCHANGED <<active, order>>, next' \in [Jobs -> Nat]
  PROVE  JobTypes'
BY DEF JobTypes, FileTerminal, Outcome

LEMMA ForgetType ==
  ASSUME PoolTypes, NEW ss
  PROVE  Forget(ss) \in [Slots -> Hashes \cup {Junk}]
BY DEF PoolTypes, Forget

\* A cache entry or a shared object sits in a real slot.
LEMMA RetainedSlots ==
  ASSUME PoolTypes, SharedTypes
  PROVE  /\ \A h \in Resident : h \in Hashes /\ cache[h] \in Slots
         /\ \A h \in SharedHashes : h \in Hashes /\ sharedCached[h] \in Slots
         /\ \A h \in Evictable : h \in Hashes /\ cache[h] \in Slots
         /\ \A h \in IdleShared : h \in Hashes /\ sharedCached[h] \in Slots
BY DEF PoolTypes, SharedTypes, Resident, SharedHashes, IsShared, Evictable, IdleShared

LEMMA PutType ==
  ASSUME PoolTypes, SharedTypes, NEW h \in Hashes, NEW s \in Slots, NEW o \in Put(h, s)
  PROVE  o.cache \in [Hashes -> Slots \cup {NoSlot}] /\ o.freed \subseteq Slots
<1>. DEFINE kept == [cache EXCEPT ![h] = s]
<1>1. kept \in [Hashes -> Slots \cup {NoSlot}]
  BY DEF PoolTypes
<1>2. \A v \in Hashes : [kept EXCEPT ![v] = NoSlot] \in [Hashes -> Slots \cup {NoSlot}]
  BY <1>1
<1>3. \/ o = [cache |-> cache, freed |-> {s}]
      \/ o = [cache |-> kept, freed |-> {}]
      \/ \E v \in Evictable : o = [cache |-> [kept EXCEPT ![v] = NoSlot], freed |-> {cache[v]}]
  BY DEF Put
<1>. HIDE DEF kept
<1>. QED  BY <1>1, <1>2, <1>3, RetainedSlots DEF PoolTypes

LEMMA ReleaseOrCacheType ==
  ASSUME PoolTypes, SharedTypes, NEW h \in Hashes, NEW s \in Slots, ReleaseOrCache(h, s)
  PROVE  PoolTypes'
<1>1. PICK o \in Put(h, s) :
        /\ cache' = o.cache
        /\ free' = free \cup o.freed
        /\ content' = [t \in Slots |-> IF t \in o.freed THEN Junk
                                       ELSE IF t = s THEN h ELSE content[t]]
  BY DEF ReleaseOrCache
<1>. QED  BY <1>1, PutType DEF PoolTypes

LEMMA PurgeType ==
  ASSUME DemandTypes, NEW h \in Hashes, Purge(h)
  PROVE  DemandTypes'
BY DEF DemandTypes, Purge

LEMMA ReserveType ==
  ASSUME PoolTypes, SharedTypes, DemandTypes, NEW s, NEW back \in SUBSET Slots,
         ReserveForeground(s, back)
  PROVE  /\ s \in Slots /\ free' \subseteq Slots
         /\ cache' \in [Hashes -> Slots \cup {NoSlot}]
         /\ sharedCached' \in [Hashes -> Slots \cup {NoSlot}]
         /\ DemandTypes'
<1>1. CASE s \in free /\ free' = (free \ {s}) \cup back /\ UNCHANGED <<retained, demand>>
  BY <1>1 DEF PoolTypes, SharedTypes, DemandTypes, retained, demand
<1>2. ASSUME NEW v \in Evictable, free' = back, s = cache[v],
             cache' = [cache EXCEPT ![v] = NoSlot], UNCHANGED <<sharedCached, demand>>
      PROVE  /\ s \in Slots /\ free' \subseteq Slots
             /\ cache' \in [Hashes -> Slots \cup {NoSlot}]
             /\ sharedCached' \in [Hashes -> Slots \cup {NoSlot}]
             /\ DemandTypes'
  BY <1>2, RetainedSlots DEF PoolTypes, SharedTypes, DemandTypes, demand
<1>3. ASSUME NEW v \in IdleShared, free' = back, s = sharedCached[v],
             sharedCached' = [sharedCached EXCEPT ![v] = NoSlot], Purge(v), UNCHANGED cache
      PROVE  /\ s \in Slots /\ free' \subseteq Slots
             /\ cache' \in [Hashes -> Slots \cup {NoSlot}]
             /\ sharedCached' \in [Hashes -> Slots \cup {NoSlot}]
             /\ DemandTypes'
  BY <1>3, RetainedSlots, PurgeType DEF PoolTypes, SharedTypes
<1>. QED  BY <1>1, <1>2, <1>3 DEF ReserveForeground

LEMMA RefAfterType ==
  ASSUME DemandTypes, NEW qs \in SUBSET Reqs, NEW h \in Hashes
  PROVE  RefAfter(qs, h) \in Nat
<1>1. OwnersIn(qs, h) \in SUBSET Reqs
  BY DEF OwnersIn
<1>2. Cardinality(OwnersIn(qs, h)) \in Nat
  BY <1>1, FinitenessAssumption, FS_Subset, FS_CardinalityType
<1>. QED  BY <1>2 DEF RefAfter, DemandTypes

LEMMA ClaimType ==
  ASSUME DemandTypes, NEW qs \in SUBSET Reqs, NEW h \in Hashes, Claim(qs, h)
  PROVE  DemandTypes'
BY RefAfterType DEF Claim, DemandTypes

LEMMA InflightType ==
  ASSUME PreloadTypes, NEW h \in Hashes, PreInflightAdd(h) \/ PreInflightRemove(h)
  PROVE  preInflight' \in [Hashes -> Nat] /\ preTotal' \in Int
<1>1. CASE PreInflightAdd(h)
  BY <1>1 DEF PreInflightAdd, PreloadTypes
<1>2. CASE preInflight[h] = 0 /\ UNCHANGED inflight
  BY <1>2 DEF PreloadTypes, inflight
<1>3. CASE /\ preInflight[h] # 0
           /\ preInflight' = [preInflight EXCEPT ![h] = @ - 1] /\ preTotal' = preTotal - 1
  BY <1>3 DEF PreloadTypes
<1>. QED  BY <1>1, <1>2, <1>3 DEF PreInflightRemove

LEMMA SharedDecrefType ==
  ASSUME PoolTypes, SharedTypes, DemandTypes, NEW q \in Reqs, NEW h \in Hashes,
         SharedDecref(q, h)
  PROVE  DemandTypes' /\ PoolTypes' /\ sharedCached' \in [Hashes -> Slots \cup {NoSlot}]
<1>1. DemandTypes'
  BY ClaimType DEF SharedDecref
<1>2. CASE EndsDemand(q, h) /\ IsShared(h)
  <2>1. sharedCached[h] \in Slots
    BY <1>2 DEF IsShared, SharedTypes
  <2>2. sharedCached' \in [Hashes -> Slots \cup {NoSlot}]
    BY <1>2 DEF SharedDecref, SharedTypes
  <2>3. CASE ReleaseOrCache(h, sharedCached[h])
    BY <1>1, <2>1, <2>2, <2>3, ReleaseOrCacheType
  <2>4. CASE UNCHANGED <<cache, pool>>
    BY <1>1, <2>2, <2>4 DEF PoolTypes, pool
  <2>. QED  BY <1>2, <2>3, <2>4 DEF SharedDecref
<1>3. CASE ~(EndsDemand(q, h) /\ IsShared(h))
  BY <1>1, <1>3 DEF SharedDecref, PoolTypes, SharedTypes, retained, pool
<1>. QED  BY <1>2, <1>3

LEMMA StoreInflightDoneType ==
  ASSUME QueueTypes, TransferTypes, NEW h \in Hashes, StoreInflightDone(h)
  PROVE  storeInflight' \in [Hashes -> Nat] /\ blocked' \subseteq Hashes
BY DEF StoreInflightDone, LastStore, QueueTypes, TransferTypes

LEMMA WakeBlockedType ==
  ASSUME QueueTypes, DemandTypes, NEW h \in Hashes, WakeBlocked(h)
  PROVE  pending' \in Seq(Hashes) /\ DemandTypes'
<1>1. pending' \in Seq(Hashes)
  <2>1. Append(pending, h) \in Seq(Hashes)
    BY AppendProperties DEF QueueTypes
  <2>. QED  BY <2>1 DEF WakeBlocked, QueueTypes
<1>2. CASE Purge(h)
  BY <1>1, <1>2, PurgeType
<1>3. CASE UNCHANGED demand
  BY <1>1, <1>3 DEF DemandTypes, demand
<1>. QED  BY <1>2, <1>3 DEF WakeBlocked

-----------------------------------------------------------------------------
(* Type correctness. *)

LEMMA InitTypes == Init => TypeOK
BY WorkloadAssumption DEF Init, TypeOK, TurnTypes, JobTypes, LoadTypes, QueueTypes,
   PreloadTypes, DemandTypes, PoolTypes, SharedTypes, TransferTypes, Outcome, IntakePos

\* A group of variables a step leaves alone keeps its types.
LEMMA Unmoved ==
  /\ TurnTypes /\ UNCHANGED <<mode, pc, asked, asking, storing, settling>> => TurnTypes'
  /\ JobTypes /\ UNCHANGED <<active, order, next, live, done, future>> => JobTypes'
  /\ LoadTypes /\ UNCHANGED <<opens, readyLoad, reads, openInflight, dataInflight>>
       => LoadTypes'
  /\ QueueTypes /\ UNCHANGED <<pending, cancel, blocked, knownMissing>> => QueueTypes'
  /\ PreloadTypes /\ UNCHANGED <<preOpens, preReady, preReads, preInflight, preTotal, waiters>>
       => PreloadTypes'
  /\ DemandTypes /\ UNCHANGED <<refcount, owned>> => DemandTypes'
  /\ PoolTypes /\ UNCHANGED <<free, content, cache>> => PoolTypes'
  /\ SharedTypes /\ UNCHANGED <<sharedCached, copies>> => SharedTypes'
  /\ TransferTypes /\ UNCHANGED <<storeInflight, storeOps, copyReady, batches, stored>>
       => TransferTypes'
BY DEF TurnTypes, JobTypes, LoadTypes, QueueTypes, PreloadTypes, DemandTypes, PoolTypes,
   SharedTypes, TransferTypes

LEMMA Positions ==
  /\ NJ \in Nat
  /\ PreFdPos \in Nat /\ DrainPos \in Nat /\ SpecPos \in Nat /\ FlushPos \in Nat
  /\ \A k \in Nat : LoadPos(k) \in Nat /\ StorePos(k) \in Nat
<1>1. NJ \in Nat
  BY FinitenessAssumption, FS_CardinalityType DEF NJ
<1>. QED  BY <1>1 DEF PreFdPos, DrainPos, SpecPos, FlushPos, LoadPos, StorePos

LEMMA AtType ==
  ASSUME TurnTypes, NEW p \in Nat, At(p), UNCHANGED settling
  PROVE  TurnTypes'
BY DEF TurnTypes, At, intake

USE DEF turn, intake, jobList, fileVars, loadIo, budget, specQ, parked, specIo,
        inflight, demand, pool, retained, storeIo, copying, preload, slots, jobs,
        transfers

LEMMA ClientTypes == TypeOK /\ Client => TypeOK'
<1>. SUFFICES ASSUME TypeOK, Client PROVE TypeOK'
  OBVIOUS
<1>. USE DEF TypeOK
<1>1. ASSUME NEW p \in Preloads, AskPreload(p) PROVE TypeOK'
  <2>1. <<p, 1>> \in Asks
    BY WorkloadAssumption DEF Asks
  <2>. QED  BY <1>1, <2>1, Unmoved DEF AskPreload, TurnTypes
<1>2. ASSUME NEW j \in Jobs, IntakeLoad(j) PROVE TypeOK'
  <2>1. JobTypes'
    <3>1. Append(order, j) \in Seq(Jobs)
      BY AppendProperties DEF JobTypes
    <3>. QED  BY <1>2, <3>1 DEF IntakeLoad, JobTypes, Outcome
  <2>2. QueueTypes'
    BY <1>2 DEF IntakeLoad, QueueTypes
  <2>. QED  BY <1>2, <2>1, <2>2, Unmoved DEF IntakeLoad
<1>3. ASSUME NEW j \in Jobs, IntakeStore(j) PROVE TypeOK'
  <2>1. <<j, 1>> \in Files
    BY FilesOfJob
  <2>2. TurnTypes' /\ JobTypes'
    BY <1>3, <2>1 DEF IntakeStore, TurnTypes, JobTypes, Outcome
  <2>. QED  BY <1>3, <2>2, Unmoved DEF IntakeStore
<1>4. ASSUME NEW j \in Jobs, SubmitClosed(j) PROVE TypeOK'
  BY <1>4, Unmoved DEF SubmitClosed, JobTypes, Outcome
<1>5. ASSUME Stop PROVE TypeOK'
  <2>1. Dropped \subseteq Slots
    BY RetainedSlots DEF Dropped
  <2>2. PoolTypes' /\ SharedTypes'
    BY <1>5, <2>1, ForgetType DEF Stop, PoolTypes, SharedTypes
  <2>3. UNION {waiters[h] : h \in Hashes} \in SUBSET Files
    BY DEF PreloadTypes
  <2>4. JobTypes'
    BY <1>5, <2>3, FileTerminalType DEF Stop, JobTypes
  <2>5. \A m \in Member : Detach(m) \in Member
    BY DEF Detach, Member, Sources
  <2>6. TransferTypes'
    BY <1>5, <2>5 DEF Stop, TransferTypes
  <2>7. QueueTypes' /\ PreloadTypes' /\ DemandTypes' /\ TurnTypes'
    BY <1>5 DEF Stop, QueueTypes, PreloadTypes, DemandTypes, TurnTypes
  <2>. QED  BY <1>5, <2>2, <2>4, <2>6, <2>7, Unmoved DEF Stop
<1>. QED  BY <1>1, <1>2, <1>3, <1>4, <1>5 DEF Client

LEMMA IntakeWorkTypes ==
  ASSUME TypeOK, \/ \E a \in asking : PreloadHash(a)
                 \/ \E f \in storing : StoreHash(f)
  PROVE  TypeOK'
<1>. USE DEF TypeOK
<1>1. ASSUME NEW a \in asking, PreloadHash(a) PROVE TypeOK'
  <2>. DEFINE h == PreHashes[a[1]][a[2]]
              key == <<PreReq[a[1]], h>>
  <2>1. a[1] \in Preloads /\ a[2] \in 1..Len(PreHashes[a[1]])
    BY DEF TurnTypes, Asks
  <2>2. h \in Hashes /\ key \in Reqs \X Hashes
    BY <2>1, WorkloadAssumption
  <2>3. TurnTypes'
    <3>1. a[2] # Len(PreHashes[a[1]]) => <<a[1], a[2] + 1>> \in Asks
      <4>1. Len(PreHashes[a[1]]) \in Nat
        BY <2>1, WorkloadAssumption
      <4>. QED  BY <2>1, <4>1 DEF Asks
    <3>. QED  BY <1>1, <3>1 DEF PreloadHash, TurnTypes
  <2>4. DemandTypes'
    <3>1. CASE UNCHANGED <<demand, pending>>
      BY <3>1, Unmoved
    <3>2. CASE Own(key) /\ refcount' = [refcount EXCEPT ![h] = @ + 1]
      <4>1. owned' \subseteq Reqs \X Hashes
        BY <2>2, <3>2 DEF Own, DemandTypes
      <4>. QED  BY <2>2, <3>2, <4>1 DEF DemandTypes
    <3>. QED  BY <1>1, <3>1, <3>2 DEF PreloadHash
  <2>5. QueueTypes'
    <3>1. Append(pending, h) \in Seq(Hashes)
      BY <2>2, AppendProperties DEF QueueTypes
    <3>. QED  BY <1>1, <3>1 DEF PreloadHash, QueueTypes
  <2>. QED  BY <1>1, <2>3, <2>4, <2>5, Unmoved DEF PreloadHash
<1>2. ASSUME NEW f \in storing, StoreHash(f) PROVE TypeOK'
  <2>1. f \in Files
    BY DEF TurnTypes
  <2>2. f[1] \in Jobs /\ H(f) \in Hashes /\ Req(f) \in Reqs
    BY <2>1, FileFacts
  <2>3. SharedDecref(Req(f), H(f))
    BY <1>2 DEF StoreHash
  <2>4. DemandTypes' /\ PoolTypes' /\ sharedCached' \in [Hashes -> Slots \cup {NoSlot}]
    BY <2>2, <2>3, SharedDecrefType
  <2>5. SharedTypes'
    BY <1>2, <2>4 DEF StoreHash, SharedTypes
  <2>6. TurnTypes'
    <3>1. f[2] # NumFiles(f[1]) => <<f[1], f[2] + 1>> \in Files
      BY <2>1, FileFacts, FilesOfJob
    <3>. QED  BY <1>2, <3>1 DEF StoreHash, TurnTypes
  <2>7. JobTypes'
    <3>1. Append(order, f[1]) \in Seq(Jobs)
      BY <2>2, AppendProperties DEF JobTypes
    <3>2. \/ active' = active \cup {f[1]} /\ order' = Append(order, f[1])
          \/ UNCHANGED jobList
      BY <1>2 DEF StoreHash
    <3>3. UNCHANGED <<next, live, done, future>>
      BY <1>2 DEF StoreHash
    <3>. QED  BY <2>2, <3>1, <3>2, <3>3 DEF JobTypes
  <2>8. QueueTypes' /\ TransferTypes'
    BY <1>2, <2>2 DEF StoreHash, QueueTypes, TransferTypes
  <2>. QED  BY <1>2, <2>4, <2>5, <2>6, <2>7, <2>8, Unmoved DEF StoreHash
<1>. QED  BY <1>1, <1>2

\* A store file that fails, for both callers.
LEMMA StoreFileFailsTypes ==
  ASSUME TypeOK, NEW op \in storeOps, op.file \in Files, op.slot \in Slots,
         StoreFileFails(op),
         UNCHANGED <<active, order, next, opens, readyLoad, reads, openInflight,
                     cancel, knownMissing, cache, copyReady, batches>>
  PROVE  /\ JobTypes' /\ LoadTypes' /\ QueueTypes' /\ DemandTypes' /\ PoolTypes'
         /\ stored' \subseteq Hashes => TransferTypes'
<1>. USE DEF TypeOK
<1>1. H(op.file) \in Hashes
  BY FileFacts
<1>2. FileTerminal({}, {op.file}) /\ StoreInflightDone(H(op.file)) /\ Release(op.slot)
  BY DEF StoreFileFails
<1>3. JobTypes'
  BY <1>2, FileTerminalType DEF JobTypes
<1>4. LoadTypes'
  BY DEF StoreFileFails, LoadTypes
<1>5. QueueTypes' /\ (stored' \subseteq Hashes => TransferTypes')
  BY <1>1, <1>2, StoreInflightDoneType DEF StoreFileFails, QueueTypes, TransferTypes
<1>6. DemandTypes'
  BY Unmoved DEF StoreFileFails
<1>7. PoolTypes'
  BY <1>2, ForgetType DEF Release, PoolTypes
<1>. QED  BY <1>3, <1>4, <1>5, <1>6, <1>7

LEMMA MarkedMembers ==
  ASSUME NEW b \in SUBSET Member, NEW v \in BOOLEAN
  PROVE  {<<m, v>> : m \in b} \subseteq Member \X BOOLEAN
<1>1. \A m \in b : <<m, v>> \in Member \X BOOLEAN
  OBVIOUS
<1>. QED  BY <1>1

LEMMA CudaTypes ==
  ASSUME TypeOK, \/ \E b \in batches : BatchDone(b)
                 \/ \E w \in settling : Settle(w)
                 \/ \E op \in storeOps : OnStoreCopyDone(op) \/ OnStoreCopyFailed(op)
  PROVE  TypeOK'
<1>. USE DEF TypeOK
<1>1. ASSUME NEW b \in batches, BatchDone(b) PROVE TypeOK'
  <2>1. TurnTypes'
    <3>1. b \subseteq Member
      BY DEF TransferTypes
    <3>2. settling' \subseteq Member \X BOOLEAN
      BY <1>1, <3>1, MarkedMembers DEF BatchDone
    <3>3. mode' = mode /\ pc' = CudaPos /\ UNCHANGED intake
      BY <1>1 DEF BatchDone, At
    <3>. QED  BY <1>1, <3>2, <3>3 DEF BatchDone, TurnTypes
  <2>2. TransferTypes'
    BY <1>1 DEF BatchDone, TransferTypes
  <2>. QED  BY <1>1, <2>1, <2>2, Unmoved DEF BatchDone
<1>2. ASSUME NEW w \in settling, Settle(w) PROVE TypeOK'
  <2>. DEFINE m == w[1]
  <2>1. m \in Member /\ m.file \in Files /\ m.slot \in Slots
    BY DEF TurnTypes, Member
  <2>2. H(m.file) \in Hashes
    BY <2>1, FileFacts
  <2>3. TurnTypes'
    BY <1>2 DEF Settle, TurnTypes
  <2>4. PoolTypes'
    BY <1>2, <2>1, <2>2, ReleaseOrCacheType, Unmoved DEF Settle
  <2>5. SharedTypes'
    BY <1>2, <2>1 DEF Settle, SharedTypes
  <2>6. JobTypes'
    <3>1. UNCHANGED <<active, order, next>> /\ next' \in [Jobs -> Nat]
      BY <1>2 DEF Settle, JobTypes
    <3>2. CASE FileTerminal({m.file}, {})
      BY <2>1, <3>1, <3>2, FileTerminalType
    <3>3. CASE FileTerminal({}, {m.file})
      BY <2>1, <3>1, <3>3, FileTerminalType
    <3>. QED  BY <1>2, <3>2, <3>3 DEF Settle
  <2>. QED  BY <1>2, <2>3, <2>4, <2>5, <2>6, Unmoved DEF Settle
<1>3. ASSUME NEW op \in storeOps, OnStoreCopyDone(op) PROVE TypeOK'
  <2>1. op \in StoreOp /\ op.file \in Files /\ op.slot \in Slots
    BY DEF TransferTypes, StoreOp
  <2>2. TurnTypes'
    BY <1>3, AtType DEF OnStoreCopyDone
  <2>3. TransferTypes'
    BY <1>3, <2>1 DEF OnStoreCopyDone, TransferTypes, StoreOp
  <2>4. PoolTypes'
    BY <1>3, <2>1, FileFacts DEF OnStoreCopyDone, PoolTypes
  <2>. QED  BY <1>3, <2>2, <2>3, <2>4, Unmoved DEF OnStoreCopyDone
<1>4. ASSUME NEW op \in storeOps, OnStoreCopyFailed(op) PROVE TypeOK'
  <2>1. op \in StoreOp /\ op.file \in Files /\ op.slot \in Slots
    BY DEF TransferTypes, StoreOp
  <2>2. TurnTypes'
    BY <1>4, AtType DEF OnStoreCopyFailed
  <2>3. StoreFileFails(op) /\ stored' \subseteq Hashes
    BY <1>4 DEF OnStoreCopyFailed, TransferTypes
  <2>4. JobTypes' /\ LoadTypes' /\ QueueTypes' /\ DemandTypes' /\ PoolTypes' /\ TransferTypes'
    BY <1>4, <2>1, <2>3, StoreFileFailsTypes DEF OnStoreCopyFailed
  <2>. QED  BY <1>4, <2>2, <2>4, Unmoved DEF OnStoreCopyFailed
<1>. QED  BY <1>1, <1>2, <1>3, <1>4

LEMMA PollTypes ==
  ASSUME TypeOK,
         \/ \E op \in storeOps : OnWriteComplete(op) \/ OnWriteFails(op)
         \/ \E o \in opens : OnOpenComplete(o) \/ OnOpenMiss(o)
         \/ \E o \in preOpens : OnPreOpenComplete(o) \/ OnPreOpenMiss(o)
         \/ \E r \in reads : OnReadComplete(r) \/ OnReadFails(r)
         \/ \E r \in preReads : OnSharedReadComplete(r) \/ OnSharedReadFails(r)
  PROVE  TypeOK'
<1>. USE DEF TypeOK
<1>. PollPos \in Nat
  OBVIOUS
<1>1. ASSUME NEW op \in storeOps, OnWriteComplete(op) PROVE TypeOK'
  <2>1. op.file \in Files /\ op.slot \in Slots /\ H(op.file) \in Hashes
    BY FileFacts DEF TransferTypes, StoreOp
  <2>2. TurnTypes'
    BY <1>1, AtType DEF OnWriteComplete
  <2>3. JobTypes'
    BY <1>1, <2>1, FileTerminalType DEF OnWriteComplete, JobTypes
  <2>4. PoolTypes' /\ LoadTypes'
    BY <1>1, <2>1, ReleaseOrCacheType DEF OnWriteComplete, LoadTypes
  <2>5. storeInflight' \in [Hashes -> Nat] /\ blocked' \subseteq Hashes
    BY <1>1, <2>1, StoreInflightDoneType DEF OnWriteComplete
  <2>6. pending' \in Seq(Hashes) /\ DemandTypes'
    BY <1>1, <2>1, WakeBlockedType DEF OnWriteComplete
  <2>7. QueueTypes' /\ TransferTypes'
    BY <1>1, <2>1, <2>5, <2>6 DEF OnWriteComplete, QueueTypes, TransferTypes
  <2>. QED  BY <1>1, <2>2, <2>3, <2>4, <2>6, <2>7, Unmoved DEF OnWriteComplete
<1>2. ASSUME NEW op \in storeOps, OnWriteFails(op) PROVE TypeOK'
  <2>1. op.file \in Files /\ op.slot \in Slots /\ H(op.file) \in Hashes
    BY FileFacts DEF TransferTypes, StoreOp
  <2>2. TurnTypes'
    BY <1>2, AtType DEF OnWriteFails
  <2>3. StoreFileFails(op) /\ stored' \subseteq Hashes
    BY <1>2, <2>1 DEF OnWriteFails, TransferTypes
  <2>4. JobTypes' /\ LoadTypes' /\ QueueTypes' /\ DemandTypes' /\ PoolTypes' /\ TransferTypes'
    BY <1>2, <2>1, <2>3, StoreFileFailsTypes DEF OnWriteFails
  <2>. QED  BY <1>2, <2>2, <2>4, Unmoved DEF OnWriteFails
<1>3. ASSUME NEW o \in opens, OnOpenComplete(o) \/ OnOpenMiss(o) PROVE TypeOK'
  <2>1. o.file \in Files
    BY DEF LoadTypes, LoadOpen
  <2>2. TurnTypes' /\ LoadTypes'
    BY <1>3, <2>1, AtType DEF OnOpenComplete, OnOpenMiss, LoadTypes
  <2>3. JobTypes'
    <3>1. CASE OnOpenComplete(o)
      BY <3>1, Unmoved DEF OnOpenComplete
    <3>2. CASE OnOpenMiss(o)
      BY <3>2, FileTerminalType DEF OnOpenMiss, JobTypes
    <3>. QED  BY <1>3, <3>1, <3>2
  <2>. QED  BY <1>3, <2>2, <2>3, Unmoved DEF OnOpenComplete, OnOpenMiss
<1>4. ASSUME NEW o \in preOpens, OnPreOpenComplete(o) PROVE TypeOK'
  <2>1. Append(preReady, o.hash) \in Seq(Hashes)
    BY AppendProperties DEF PreloadTypes, PreOpen
  <2>2. TurnTypes' /\ LoadTypes' /\ PreloadTypes'
    BY <1>4, <2>1, AtType DEF OnPreOpenComplete, LoadTypes, PreloadTypes
  <2>. QED  BY <1>4, <2>2, Unmoved DEF OnPreOpenComplete
<1>5. ASSUME NEW o \in preOpens, OnPreOpenMiss(o) PROVE TypeOK'
  <2>1. o.hash \in Hashes
    BY DEF PreloadTypes, PreOpen
  <2>2. TurnTypes' /\ LoadTypes'
    BY <1>5, AtType DEF OnPreOpenMiss, LoadTypes
  <2>3. JobTypes'
    BY <1>5, FileTerminalType DEF OnPreOpenMiss, JobTypes
  <2>4. preInflight' \in [Hashes -> Nat] /\ preTotal' \in Int
    BY <1>5, <2>1, InflightType DEF OnPreOpenMiss
  <2>5. PreloadTypes'
    BY <1>5, <2>1, <2>4 DEF OnPreOpenMiss, PreloadTypes
  <2>6. QueueTypes'
    BY <1>5, <2>1 DEF OnPreOpenMiss, Remember, QueueTypes
  <2>. QED  BY <1>5, <2>2, <2>3, <2>5, <2>6, Unmoved DEF OnPreOpenMiss
<1>6. ASSUME NEW r \in reads, OnReadComplete(r) \/ OnReadFails(r) PROVE TypeOK'
  <2>1. r.file \in Files /\ r.slot \in Slots /\ H(r.file) \in Hashes
    BY FileFacts DEF LoadTypes, FileRead
  <2>2. TurnTypes' /\ LoadTypes'
    BY <1>6, AtType DEF OnReadComplete, OnReadFails, LoadTypes
  <2>3. JobTypes'
    <3>1. CASE OnReadComplete(r)
      BY <3>1, Unmoved DEF OnReadComplete
    <3>2. CASE OnReadFails(r)
      BY <3>2, FileTerminalType DEF OnReadFails, JobTypes
    <3>. QED  BY <1>6, <3>1, <3>2
  <2>4. PoolTypes'
    BY <1>6, <2>1, ForgetType DEF OnReadComplete, OnReadFails, Release, PoolTypes
  <2>5. TransferTypes'
    <3>1. [file |-> r.file, slot |-> r.slot, src |-> "own"] \in Member
      BY <2>1 DEF Member, Sources
    <3>. QED  BY <1>6, <3>1 DEF OnReadComplete, OnReadFails, TransferTypes
  <2>. QED  BY <1>6, <2>2, <2>3, <2>4, <2>5, Unmoved DEF OnReadComplete, OnReadFails
<1>7. ASSUME NEW r \in preReads, OnSharedReadComplete(r) PROVE TypeOK'
  <2>. DEFINE h == r.hash
              s == r.slot
              qs == {Req(f) : f \in waiters[h]}
  <2>1. h \in Hashes /\ s \in Slots /\ waiters[h] \subseteq Files
    BY DEF PreloadTypes, PreRead
  <2>2. qs \in SUBSET Reqs
    BY <2>1, FileFacts
  <2>3. PICK bad \in SUBSET waiters[h] :
          /\ copyReady' = copyReady \cup
               {[file |-> f, slot |-> s, src |-> "shared"] : f \in waiters[h] \ bad}
          /\ copies' = [copies EXCEPT ![s] = Cardinality(waiters[h] \ bad)]
          /\ FileTerminal({}, bad)
          /\ \/ ReleaseOrCache(h, s)
             \/ content' = [content EXCEPT ![s] = h] /\ UNCHANGED <<cache, free>>
    BY <1>7 DEF OnSharedReadComplete
  <2>4. TurnTypes' /\ LoadTypes'
    BY <1>7, AtType DEF OnSharedReadComplete, LoadTypes
  <2>5. JobTypes'
    <3>1. UNCHANGED <<active, order>> /\ next' \in [Jobs -> Nat]
      BY <1>7 DEF OnSharedReadComplete, JobTypes
    <3>. QED  BY <2>3, <3>1, FileTerminalType
  <2>6. preInflight' \in [Hashes -> Nat] /\ preTotal' \in Int
    BY <1>7, <2>1, InflightType DEF OnSharedReadComplete
  <2>7. PreloadTypes'
    BY <1>7, <2>1, <2>6 DEF OnSharedReadComplete, PreloadTypes
  <2>8. DemandTypes'
    BY <1>7, <2>1, <2>2, ClaimType DEF OnSharedReadComplete
  <2>9. PoolTypes'
    BY <2>1, <2>3, ReleaseOrCacheType DEF PoolTypes
  <2>10. SharedTypes'
    <3>1. Cardinality(waiters[h] \ bad) \in Int
      BY <2>1, FinitenessAssumption, FS_Subset, FS_CardinalityType
    <3>2. sharedCached' \in [Hashes -> Slots \cup {NoSlot}]
      BY <1>7, <2>1 DEF OnSharedReadComplete, SharedTypes
    <3>. QED  BY <2>1, <2>3, <3>1, <3>2 DEF SharedTypes
  <2>11. TransferTypes'
    <3>1. \A f \in waiters[h] : [file |-> f, slot |-> s, src |-> "shared"] \in Member
      BY <2>1 DEF Member, Sources
    <3>2. copyReady' \subseteq Member
      BY <2>3, <3>1 DEF TransferTypes
    <3>. QED  BY <1>7, <3>2 DEF OnSharedReadComplete, TransferTypes
  <2>. QED  BY <1>7, <2>4, <2>5, <2>7, <2>8, <2>9, <2>10, <2>11, Unmoved
            DEF OnSharedReadComplete
<1>8. ASSUME NEW r \in preReads, OnSharedReadFails(r) PROVE TypeOK'
  <2>1. r.hash \in Hashes /\ r.slot \in Slots
    BY DEF PreloadTypes, PreRead
  <2>2. TurnTypes' /\ LoadTypes'
    BY <1>8, AtType DEF OnSharedReadFails, LoadTypes
  <2>3. JobTypes'
    BY <1>8, FileTerminalType DEF OnSharedReadFails, JobTypes
  <2>4. preInflight' \in [Hashes -> Nat] /\ preTotal' \in Int
    BY <1>8, <2>1, InflightType DEF OnSharedReadFails
  <2>5. PreloadTypes' /\ PoolTypes'
    BY <1>8, <2>1, <2>4, ForgetType DEF OnSharedReadFails, PreloadTypes, Release, PoolTypes
  <2>. QED  BY <1>8, <2>2, <2>3, <2>5, Unmoved DEF OnSharedReadFails
<1>. QED  BY <1>1, <1>2, <1>3, <1>4, <1>5, <1>6, <1>7, <1>8

LEMMA ReadyTypes ==
  ASSUME TypeOK, NEW f \in readyLoad, NEW s \in Slots,
         SubmitRead(f, s) \/ SubmitReadRefused(f, s)
  PROVE  TypeOK'
<1>. USE DEF TypeOK
<1>1. f \in Files /\ ReadyPos \in Nat
  BY DEF LoadTypes
<1>2. PICK back \in SUBSET Slots : ReserveForeground(s, back)
  <2>1. {} \in SUBSET Slots /\ {s} \in SUBSET Slots
    OBVIOUS
  <2>. QED  BY <2>1 DEF SubmitRead, SubmitReadRefused
<1>3. PoolTypes' /\ sharedCached' \in [Hashes -> Slots \cup {NoSlot}] /\ DemandTypes'
  BY <1>2, ReserveType, ForgetType DEF SubmitRead, SubmitReadRefused, PoolTypes
<1>4. CASE SubmitRead(f, s)
  <2>1. TurnTypes' /\ LoadTypes' /\ SharedTypes'
    BY <1>1, <1>3, <1>4, AtType DEF SubmitRead, LoadTypes, FileRead, SharedTypes
  <2>. QED  BY <1>3, <1>4, <2>1, Unmoved DEF SubmitRead
<1>5. CASE SubmitReadRefused(f, s)
  <2>1. TurnTypes' /\ LoadTypes' /\ SharedTypes'
    BY <1>1, <1>3, <1>5, AtType DEF SubmitReadRefused, LoadTypes, SharedTypes
  <2>2. JobTypes'
    BY <1>5, FileTerminalType DEF SubmitReadRefused, JobTypes
  <2>. QED  BY <1>3, <1>5, <2>1, <2>2, Unmoved DEF SubmitReadRefused
<1>. QED  BY <1>4, <1>5

\* The next file of the job whose turn it is.
LEMMA TurnFile ==
  ASSUME TypeOK, NEW k \in 1..Len(order), LoadAt(k) \/ StoreAt(k)
  PROVE  /\ order[k] \in Jobs /\ NextFile(order[k]) \in Files
         /\ H(NextFile(order[k])) \in Hashes /\ Req(NextFile(order[k])) \in Reqs
         /\ next' \in [Jobs -> Nat]
         /\ UNCHANGED settling => TurnTypes'
<1>. USE DEF TypeOK
<1>1. order[k] \in Jobs /\ k \in Nat
  BY DEF JobTypes
<1>2. NextFile(order[k]) \in Files
  BY <1>1, NextFileType DEF LoadAt, StoreAt, CanLoad, CanStore, LoadLeft
<1>3. next' \in [Jobs -> Nat]
  BY <1>1 DEF LoadAt, StoreAt, Schedule, JobTypes
<1>4. UNCHANGED settling => TurnTypes'
  BY <1>1, Positions, AtType DEF LoadAt, StoreAt
<1>. QED  BY <1>1, <1>2, <1>3, <1>4, FileFacts

\* A file taken up, in flight or failed at once.
LEMMA StartType ==
  ASSUME JobTypes, NEW f \in Files, Start(f) \/ FileTerminal({}, {f}),
         UNCHANGED <<active, order>>, next' \in [Jobs -> Nat]
  PROVE  JobTypes'
<1>1. CASE Start(f)
  BY <1>1 DEF Start, JobTypes
<1>2. CASE FileTerminal({}, {f})
  BY <1>2, FileTerminalType
<1>. QED  BY <1>1, <1>2

LEMMA SubmitOpenPreloadType ==
  ASSUME PreloadTypes, LoadTypes, NEW h \in Hashes, SubmitOpenPreload(h)
  PROVE  /\ preOpens' \subseteq PreOpen /\ openInflight' \in Int
         /\ preInflight' \in [Hashes -> Nat] /\ preTotal' \in Int
<1>1. CASE /\ preOpens' = preOpens \cup {[hash |-> h, had |-> h \in stored]}
           /\ openInflight' = openInflight + 1 /\ PreInflightAdd(h)
  <2>1. (h \in stored) \in BOOLEAN
    OBVIOUS
  <2>2. [hash |-> h, had |-> h \in stored] \in PreOpen
    BY <2>1 DEF PreOpen
  <2>. QED  BY <1>1, <2>2, InflightType DEF PreloadTypes, LoadTypes
<1>2. CASE UNCHANGED <<preOpens, openInflight, inflight>>
  BY <1>2 DEF PreloadTypes, LoadTypes
<1>. QED  BY <1>1, <1>2 DEF SubmitOpenPreload

LEMMA LoadScheduleTypes ==
  ASSUME TypeOK, NEW k \in 1..Len(order),
         \/ ScheduleCacheHit(k) \/ SharedClaimFromCache(k) \/ SharedClaimFails(k)
         \/ SchedulePreloadInflight(k) \/ PromotePendingToSharedRead(k)
         \/ SubmitOpenRead(k)
  PROVE  TypeOK'
<1>. USE DEF TypeOK
<1>. DEFINE f == NextFile(order[k])
            h == H(f)
<1>. LoadAt(k)
  BY DEF ScheduleCacheHit, SharedClaimFromCache, SharedClaimFails, SchedulePreloadInflight,
         PromotePendingToSharedRead, SubmitOpenRead
<1>1. /\ f \in Files /\ h \in Hashes /\ Req(f) \in Reqs /\ {Req(f)} \in SUBSET Reqs
      /\ next' \in [Jobs -> Nat] /\ (UNCHANGED settling => TurnTypes')
  BY TurnFile
<1>2. CASE ScheduleCacheHit(k)
  <2>1. cache[h] \in Slots
    BY <1>1, <1>2 DEF ScheduleCacheHit, Resident, PoolTypes
  <2>2. JobTypes'
    BY <1>1, <1>2, StartType DEF ScheduleCacheHit
  <2>3. SharedTypes'
    BY <1>2 DEF ScheduleCacheHit, SharedTypes
  <2>4. TransferTypes'
    <3>1. [file |-> f, slot |-> cache[h], src |-> "cache"] \in Member
      BY <1>1, <2>1 DEF Member, Sources
    <3>. QED  BY <1>2, <3>1 DEF ScheduleCacheHit, TransferTypes
  <2>. QED  BY <1>1, <1>2, <2>2, <2>3, <2>4, Unmoved DEF ScheduleCacheHit
<1>3. CASE SharedClaimFromCache(k)
  <2>1. sharedCached[h] \in Slots
    BY <1>1, <1>3 DEF SharedClaimFromCache, IsShared, SharedTypes
  <2>2. JobTypes'
    BY <1>1, <1>3, StartType DEF SharedClaimFromCache
  <2>3. SharedTypes'
    <3>1. copies' = [copies EXCEPT ![sharedCached[h]] = @ + 1]
      BY <1>3 DEF SharedClaimFromCache
    <3>2. sharedCached' = [sharedCached EXCEPT ![h] = NoSlot] \/ UNCHANGED sharedCached
      BY <1>3 DEF SharedClaimFromCache
    <3>. QED  BY <2>1, <3>1, <3>2 DEF SharedTypes
  <2>4. TransferTypes'
    <3>1. [file |-> f, slot |-> sharedCached[h], src |-> "shared"] \in Member
      BY <1>1, <2>1 DEF Member, Sources
    <3>. QED  BY <1>3, <3>1 DEF SharedClaimFromCache, TransferTypes
  <2>5. DemandTypes'
    BY <1>1, <1>3, ClaimType DEF SharedClaimFromCache
  <2>. QED  BY <1>1, <1>3, <2>2, <2>3, <2>4, <2>5, Unmoved DEF SharedClaimFromCache
<1>4. CASE SharedClaimFails(k)
  <2>1. JobTypes'
    BY <1>1, <1>4, StartType DEF SharedClaimFails
  <2>2. DemandTypes' /\ PoolTypes' /\ SharedTypes'
    BY <1>1, <1>4, SharedDecrefType DEF SharedClaimFails, SharedTypes
  <2>. QED  BY <1>1, <1>4, <2>1, <2>2, Unmoved DEF SharedClaimFails
<1>5. CASE SchedulePreloadInflight(k)
  <2>1. JobTypes'
    BY <1>1, <1>5, StartType DEF SchedulePreloadInflight
  <2>2. PreloadTypes'
    BY <1>1, <1>5 DEF SchedulePreloadInflight, PreloadTypes
  <2>. QED  BY <1>1, <1>5, <2>1, <2>2, Unmoved DEF SchedulePreloadInflight
<1>6. CASE PromotePendingToSharedRead(k)
  <2>1. JobTypes'
    BY <1>1, <1>6, StartType DEF PromotePendingToSharedRead
  <2>2. QueueTypes'
    BY <1>1, <1>6 DEF PromotePendingToSharedRead, CancelOnePending, QueueTypes
  <2>3. SubmitOpenPreload(h)
    BY <1>6 DEF PromotePendingToSharedRead
  <2>4. PreloadTypes'
    BY <1>1, <1>6, <2>3, SubmitOpenPreloadType DEF PromotePendingToSharedRead, PreloadTypes
  <2>5. LoadTypes'
    BY <1>1, <1>6, <2>3, SubmitOpenPreloadType DEF PromotePendingToSharedRead, LoadTypes
  <2>. QED  BY <1>1, <1>6, <2>1, <2>2, <2>4, <2>5, Unmoved DEF PromotePendingToSharedRead
<1>7. CASE SubmitOpenRead(k)
  <2>1. JobTypes'
    BY <1>1, <1>7, StartType DEF SubmitOpenRead
  <2>2. LoadTypes'
    <3>1. (h \in stored) \in BOOLEAN
      OBVIOUS
    <3>2. [file |-> f, hash |-> h, had |-> h \in stored] \in LoadOpen
      BY <1>1, <3>1 DEF LoadOpen
    <3>. QED  BY <1>7, <3>2 DEF SubmitOpenRead, LoadTypes
  <2>3. DemandTypes'
    BY <1>1, <1>7, ClaimType DEF SubmitOpenRead
  <2>. QED  BY <1>1, <1>7, <2>1, <2>2, <2>3, Unmoved DEF SubmitOpenRead
<1>. QED  BY <1>2, <1>3, <1>4, <1>5, <1>6, <1>7

LEMMA StoreScheduleTypes ==
  ASSUME TypeOK, NEW k \in 1..Len(order), NEW s \in Slots,
         ScheduleStoreCopy(k, s) \/ ScheduleStoreCopyFails(k, s)
  PROVE  TypeOK'
<1>. USE DEF TypeOK
<1>. DEFINE f == NextFile(order[k])
<1>1. /\ f \in Files /\ H(f) \in Hashes /\ next' \in [Jobs -> Nat]
      /\ (UNCHANGED settling => TurnTypes')
  BY TurnFile DEF ScheduleStoreCopy, ScheduleStoreCopyFails
<1>2. PICK back \in SUBSET Slots : ReserveForeground(s, back)
  <2>1. {} \in SUBSET Slots /\ {s} \in SUBSET Slots
    OBVIOUS
  <2>. QED  BY <2>1 DEF ScheduleStoreCopy, ScheduleStoreCopyFails
<1>3. PoolTypes' /\ sharedCached' \in [Hashes -> Slots \cup {NoSlot}] /\ DemandTypes'
  BY <1>2, ReserveType, ForgetType DEF ScheduleStoreCopy, ScheduleStoreCopyFails, PoolTypes
<1>4. JobTypes' /\ SharedTypes'
  BY <1>1, <1>3, StartType DEF ScheduleStoreCopy, ScheduleStoreCopyFails, SharedTypes
<1>5. CASE ScheduleStoreCopy(k, s)
  <2>1. TransferTypes'
    <3>1. [file |-> f, slot |-> s, stage |-> "copy"] \in StoreOp
      BY <1>1 DEF StoreOp
    <3>. QED  BY <1>5, <3>1 DEF ScheduleStoreCopy, TransferTypes
  <2>2. LoadTypes'
    BY <1>5 DEF ScheduleStoreCopy, LoadTypes
  <2>. QED  BY <1>1, <1>3, <1>4, <1>5, <2>1, <2>2, Unmoved DEF ScheduleStoreCopy
<1>6. CASE ScheduleStoreCopyFails(k, s)
  <2>1. TransferTypes' /\ QueueTypes'
    BY <1>1, <1>6, StoreInflightDoneType DEF ScheduleStoreCopyFails, TransferTypes, QueueTypes
  <2>. QED  BY <1>1, <1>3, <1>4, <1>6, <2>1, Unmoved DEF ScheduleStoreCopyFails
<1>. QED  BY <1>5, <1>6

LEMMA SpeculativeTypes ==
  ASSUME TypeOK,
         \/ \E s \in Slots : SubmitPreloadRead(s) \/ SubmitPreloadReadRefused(s)
         \/ YieldOpenFd \/ DropCancelled \/ DeferOnWrite \/ OpenSpeculative
  PROVE  TypeOK'
<1>. USE DEF TypeOK
<1>1. ASSUME NEW s \in Slots, SubmitPreloadRead(s) \/ SubmitPreloadReadRefused(s)
      PROVE  TypeOK'
  <2>1. PICK back \in SUBSET Slots : ReadHead(s, back)
    <3>1. {} \in SUBSET Slots /\ {s} \in SUBSET Slots
      OBVIOUS
    <3>. QED  BY <1>1, <3>1 DEF SubmitPreloadRead, SubmitPreloadReadRefused
  <2>2. ReserveForeground(s, back)
    BY <2>1 DEF ReadHead, ReservePreload
  <2>3. PoolTypes' /\ sharedCached' \in [Hashes -> Slots \cup {NoSlot}] /\ DemandTypes'
    BY <2>1, <2>2, ReserveType, ForgetType DEF ReadHead, PoolTypes
  <2>4. Head(preReady) \in Hashes /\ preReady' \in Seq(Hashes)
    BY <2>1, HeadTailProperties DEF ReadHead, PreloadTypes
  <2>5. UNCHANGED settling => TurnTypes'
    BY <2>1, Positions, AtType DEF ReadHead
  <2>6. CASE SubmitPreloadRead(s)
    <3>1. [hash |-> Head(preReady), slot |-> s] \in PreRead
      BY <2>4 DEF PreRead
    <3>2. PreloadTypes' /\ LoadTypes' /\ SharedTypes'
      BY <2>3, <2>4, <2>6, <3>1 DEF SubmitPreloadRead, PreloadTypes, LoadTypes, SharedTypes
    <3>. QED  BY <2>3, <2>5, <2>6, <3>2, Unmoved DEF SubmitPreloadRead
  <2>7. CASE SubmitPreloadReadRefused(s)
    <3>1. JobTypes'
      BY <2>7, FileTerminalType DEF SubmitPreloadReadRefused, JobTypes
    <3>2. preInflight' \in [Hashes -> Nat] /\ preTotal' \in Int
      BY <2>4, <2>7, InflightType DEF SubmitPreloadReadRefused
    <3>3. PreloadTypes' /\ SharedTypes'
      BY <2>3, <2>4, <2>7, <3>2 DEF SubmitPreloadReadRefused, PreloadTypes, SharedTypes
    <3>. QED  BY <2>3, <2>5, <2>7, <3>1, <3>3, Unmoved DEF SubmitPreloadReadRefused
  <2>. QED  BY <1>1, <2>6, <2>7
<1>2. CASE YieldOpenFd
  <2>1. TurnTypes'
    BY <1>2, Positions, AtType DEF YieldOpenFd
  <2>2. Head(preReady) \in Hashes /\ Tail(preReady) \in Seq(Hashes)
    BY <1>2, HeadTailProperties DEF YieldOpenFd, PreloadTypes
  <2>3. Append(pending, Head(preReady)) \in Seq(Hashes)
    BY <2>2, AppendProperties DEF QueueTypes
  <2>4. preInflight' \in [Hashes -> Nat] /\ preTotal' \in Int
    BY <1>2, <2>2, InflightType DEF YieldOpenFd
  <2>5. PreloadTypes' /\ QueueTypes'
    BY <1>2, <2>2, <2>3, <2>4 DEF YieldOpenFd, PreloadTypes, QueueTypes
  <2>. QED  BY <1>2, <2>1, <2>5, Unmoved DEF YieldOpenFd
<1>3. ASSUME pending # <<>>
      PROVE  Head(pending) \in Hashes /\ Tail(pending) \in Seq(Hashes)
  BY <1>3, HeadTailProperties DEF QueueTypes
<1>4. CASE DropCancelled
  <2>1. TurnTypes'
    BY <1>4, Positions, AtType DEF DropCancelled
  <2>2. QueueTypes'
    BY <1>3, <1>4 DEF DropCancelled, HeadCancelled, QueueTypes
  <2>. QED  BY <1>4, <2>1, <2>2, Unmoved DEF DropCancelled
<1>5. CASE DeferOnWrite
  <2>1. TurnTypes'
    BY <1>5, Positions, AtType DEF DeferOnWrite
  <2>2. QueueTypes'
    BY <1>3, <1>5 DEF DeferOnWrite, CanSpeculate, QueueTypes
  <2>. QED  BY <1>5, <2>1, <2>2, Unmoved DEF DeferOnWrite
<1>6. CASE OpenSpeculative
  <2>1. TurnTypes'
    BY <1>6, Positions, AtType DEF OpenSpeculative
  <2>2. Head(pending) \in Hashes /\ Tail(pending) \in Seq(Hashes)
    BY <1>3, <1>6 DEF OpenSpeculative, CanSpeculate
  <2>3. SubmitOpenPreload(Head(pending))
    BY <1>6 DEF OpenSpeculative
  <2>4. PreloadTypes'
    BY <1>6, <2>2, <2>3, SubmitOpenPreloadType DEF OpenSpeculative, PreloadTypes
  <2>5. LoadTypes'
    BY <1>6, <2>2, <2>3, SubmitOpenPreloadType DEF OpenSpeculative, LoadTypes
  <2>6. QueueTypes'
    BY <1>6, <2>2 DEF OpenSpeculative, QueueTypes
  <2>. QED  BY <1>6, <2>1, <2>4, <2>5, <2>6, Unmoved DEF OpenSpeculative
<1>. QED  BY <1>1, <1>2, <1>4, <1>5, <1>6

LEMMA TurnEndTypes ==
  ASSUME TypeOK, FlushCopyBatch \/ EndTurn \/ Exit \/ FailEverything
  PROVE  TypeOK'
<1>. USE DEF TypeOK
<1>1. CASE FlushCopyBatch
  <2>1. copyReady \in SUBSET Member
    BY DEF TransferTypes
  <2>2. settling' \subseteq Member \X BOOLEAN
    BY <1>1, <2>1, MarkedMembers DEF FlushCopyBatch, TurnTypes
  <2>3. mode' = mode /\ pc' = FlushPos /\ UNCHANGED intake
    BY <1>1 DEF FlushCopyBatch, At
  <2>4. TurnTypes'
    BY <2>2, <2>3, Positions DEF TurnTypes
  <2>5. TransferTypes'
    BY <1>1, <2>1 DEF FlushCopyBatch, TransferTypes
  <2>. QED  BY <1>1, <2>4, <2>5, Unmoved DEF FlushCopyBatch
<1>2. CASE EndTurn
  BY <1>2, Unmoved DEF EndTurn, TurnTypes, JobTypes
<1>3. CASE Exit
  BY <1>3, Unmoved DEF Exit, TurnTypes
<1>4. CASE FailEverything
  <2>1. stored' \subseteq Hashes
    BY <1>4, FileFacts DEF FailEverything, TransferTypes, StoreOp
  <2>2. UNCHANGED <<storeIo, copying>>
    BY <1>4 DEF FailEverything
  <2>3. TransferTypes'
    BY <2>1, <2>2 DEF TransferTypes, storeIo, copying
  <2>. QED  BY <1>4, <2>3, Unmoved DEF FailEverything, TurnTypes, JobTypes, PreloadTypes, Outcome
<1>. QED  BY <1>1, <1>2, <1>3, <1>4

\* Every step keeps every variable in its type.
LEMMA StepTypes == TypeOK /\ [Next]_vars => TypeOK'
<1>. SUFFICES ASSUME TypeOK, [Next]_vars PROVE TypeOK'
  OBVIOUS
<1>1. CASE Client
  BY <1>1, ClientTypes
<1>2. CASE FailEverything
  BY <1>2, TurnEndTypes
<1>3. CASE Work
  BY <1>3, IntakeWorkTypes, CudaTypes, PollTypes, ReadyTypes, LoadScheduleTypes,
     StoreScheduleTypes, SpeculativeTypes, TurnEndTypes DEF Work
<1>4. CASE UNCHANGED vars
  BY <1>4, Unmoved DEF vars, TypeOK
<1>. QED  BY <1>1, <1>2, <1>3, <1>4 DEF Next

\* The reactor never holds a value outside its tables' types: counters that
\* must not go negative stay natural numbers and every reference to a slot,
\* file or hash is to a real one, whatever calls fail.
THEOREM TypeCorrect == Spec => []TypeOK
<1>. QED  BY InitTypes, StepTypes, PTL DEF Spec

-----------------------------------------------------------------------------
(***************************************************************************)
(* PROVENANCE                                                              *)
(*                                                                         *)
(* Why a Future that succeeded can be believed: an inductive invariant     *)
(* follows the bytes from the file to the copy, through every table and    *)
(* every retained slot, for every workload, pool size and set of faults.   *)
(***************************************************************************)

(* Published files stay; what is left alone keeps its provenance.           *)

LEMMA Kept ==
  ASSUME stored \subseteq stored'
  PROVE  /\ DoneProv /\ UNCHANGED <<done, future>> => DoneProv'
         /\ LoadProv /\ UNCHANGED <<opens, readyLoad, reads>> => LoadProv'
         /\ PreProv /\ UNCHANGED <<preReady, preReads>> => PreProv'
         /\ ParkedProv /\ UNCHANGED waiters => ParkedProv'
         /\ CacheProv /\ UNCHANGED cache => CacheProv'
         /\ SharedProv /\ UNCHANGED sharedCached => SharedProv'
         /\ CopyProv /\ Copying' \subseteq Copying => CopyProv'
<1>1. \A x : H(x)' = H(x)
  BY DEF H
<1>2. \A j : FilesOf(j)' = FilesOf(j)
  BY DEF FilesOf
<1>. QED  BY <1>1, <1>2 DEF DoneProv, LoadProv, PreProv, ParkedProv, CacheProv, SharedProv,
             CopyProv, Resident, SharedHashes, IsShared

LEMMA CopyingKept == UNCHANGED <<settling, copying>> => Copying' = Copying
BY DEF Copying

\* Nothing new is copied when members move between the tables of copies.
LEMMA CopyingIs ==
  /\ copyReady \subseteq Copying
  /\ \A b \in batches : b \subseteq Copying
  /\ \A w \in settling : w[1] \in Copying
  /\ \A m \in Copying : m \in copyReady \/ (\E b \in batches : m \in b)
                        \/ (\E w \in settling : m = w[1])
BY DEF Copying

LEMMA CopyingWithin ==
  ASSUME NEW S, copyReady' \subseteq S, \A b \in batches' : b \subseteq S,
         \A w \in settling' : w[1] \in S
  PROVE  Copying' \subseteq S
BY DEF Copying

LEMMA CopyingGrows ==
  ASSUME NEW new, copyReady' = copyReady \cup new, UNCHANGED <<settling, batches>>
  PROVE  Copying' \subseteq Copying \cup new
BY DEF Copying

LEMMA FileTerminalProv ==
  ASSUME JobTypes, DoneProv, stored \subseteq stored', NEW ok, NEW bad,
         \A f \in ok : H(f) \in stored', FileTerminal(ok, bad)
  PROVE  DoneProv'
<1>1. \A f \in done' : H(f) \in stored'
  BY DEF FileTerminal, DoneProv
<1>2. ASSUME NEW j \in Jobs, future'[j] = "ok" PROVE FilesOf(j) \subseteq done'
  <2>1. future[j] = "ok" \/ FilesOf(j) \subseteq done \cup ok
    BY <1>2 DEF FileTerminal
  <2>. QED  BY <2>1 DEF FileTerminal, DoneProv
<1>. QED  BY <1>1, <1>2 DEF DoneProv, FilesOf, H

LEMMA PutProv ==
  ASSUME PoolTypes, CacheProv, stored \subseteq stored',
         NEW h \in Hashes, NEW s, h \in stored', ReleaseOrCache(h, s)
  PROVE  CacheProv'
<1>. DEFINE kept == [cache EXCEPT ![h] = s]
<1>1. PICK o \in Put(h, s) : cache' = o.cache
  BY DEF ReleaseOrCache
<1>2. \/ o = [cache |-> cache, freed |-> {s}]
      \/ o = [cache |-> kept, freed |-> {}]
      \/ \E v \in Evictable : o = [cache |-> [kept EXCEPT ![v] = NoSlot], freed |-> {cache[v]}]
  BY <1>1 DEF Put
<1>3. ASSUME NEW g \in Hashes, cache'[g] # NoSlot PROVE g = h \/ cache[g] # NoSlot
  BY <1>1, <1>2, <1>3 DEF PoolTypes
<1>. QED  BY <1>3 DEF CacheProv, Resident

LEMMA ReserveProv ==
  ASSUME PoolTypes, SharedTypes, CacheProv, SharedProv, UNCHANGED stored, NEW s, NEW back,
         ReserveForeground(s, back)
  PROVE  CacheProv' /\ SharedProv'
BY DEF ReserveForeground, PoolTypes, SharedTypes, CacheProv, SharedProv, Resident, SharedHashes,
   IsShared

LEMMA SharedDecrefProv ==
  ASSUME PoolTypes, SharedTypes, CacheProv, SharedProv, UNCHANGED stored,
         NEW q, NEW h \in Hashes, SharedDecref(q, h)
  PROVE  CacheProv' /\ SharedProv'
<1>1. CASE EndsDemand(q, h) /\ IsShared(h)
  <2>1. h \in stored
    BY <1>1 DEF SharedProv, SharedHashes
  <2>2. SharedProv'
    BY <1>1 DEF SharedDecref, SharedProv, SharedHashes, IsShared, SharedTypes
  <2>3. ReleaseOrCache(h, sharedCached[h]) \/ UNCHANGED cache
    BY <1>1 DEF SharedDecref
  <2>. QED  BY <2>1, <2>2, <2>3, PutProv, Kept
<1>2. CASE ~(EndsDemand(q, h) /\ IsShared(h))
  BY <1>2, Kept DEF SharedDecref
<1>. QED  BY <1>1, <1>2

-----------------------------------------------------------------------------
(* One lemma for each group of steps. *)

LEMMA InitProv == Init => Provenance
BY DEF Init, Provenance, DoneProv, LoadProv, PreProv, ParkedProv, CacheProv, SharedProv,
   CopyProv, Copying, Resident, SharedHashes, IsShared

LEMMA ClientProv == TypeOK /\ Provenance /\ Client => Provenance'
<1>. SUFFICES ASSUME TypeOK, Provenance, Client PROVE Provenance'
  OBVIOUS
<1>. USE DEF TypeOK, Provenance
<1>1. ASSUME NEW p \in Preloads, AskPreload(p) PROVE Provenance'
  BY <1>1, Kept, CopyingKept DEF AskPreload
<1>2. ASSUME NEW j \in Jobs, IntakeLoad(j) \/ IntakeStore(j) \/ SubmitClosed(j)
      PROVE  Provenance'
  <2>1. DoneProv'
    BY <1>2 DEF IntakeLoad, IntakeStore, SubmitClosed, JobTypes, DoneProv, FilesOf, H
  <2>. QED  BY <1>2, <2>1, Kept, CopyingKept DEF IntakeLoad, IntakeStore, SubmitClosed
<1>3. CASE Stop
  <2>1. DoneProv'
    BY <1>3, FileTerminalProv DEF Stop
  <2>2. CacheProv' /\ SharedProv' /\ ParkedProv'
    BY <1>3 DEF Stop, CacheProv, SharedProv, ParkedProv, Resident, SharedHashes, IsShared
  <2>3. \A m : Detach(m).file = m.file
    BY DEF Detach
  <2>4. ASSUME NEW m \in Copying' PROVE H(m.file) \in stored
    <3>1. PICK n \in Copying : m.file = n.file
      BY <1>3, <2>3 DEF Stop, Copying
    <3>. QED  BY <3>1 DEF CopyProv
  <2>. QED  BY <1>3, <2>1, <2>2, <2>4, Kept DEF Stop, CopyProv, H
<1>. QED  BY <1>1, <1>2, <1>3 DEF Client

LEMMA IntakeWorkProv ==
  ASSUME TypeOK, Provenance, \/ \E a \in asking : PreloadHash(a)
                             \/ \E f \in storing : StoreHash(f)
  PROVE  Provenance'
<1>. USE DEF TypeOK, Provenance
<1>1. ASSUME NEW a \in asking, PreloadHash(a) PROVE Provenance'
  BY <1>1, Kept, CopyingKept DEF PreloadHash
<1>2. ASSUME NEW f \in storing, StoreHash(f) PROVE Provenance'
  <2>1. H(f) \in Hashes
    BY FileFacts DEF TurnTypes
  <2>2. CacheProv' /\ SharedProv'
    BY <1>2, <2>1, SharedDecrefProv DEF StoreHash
  <2>. QED  BY <1>2, <2>2, Kept, CopyingKept DEF StoreHash
<1>. QED  BY <1>1, <1>2

LEMMA CudaProv ==
  ASSUME TypeOK, Provenance,
         \/ \E b \in batches : BatchDone(b)
         \/ \E w \in settling : Settle(w)
         \/ \E op \in storeOps : OnStoreCopyDone(op) \/ OnStoreCopyFailed(op)
  PROVE  Provenance'
<1>. USE DEF TypeOK, Provenance
<1>1. ASSUME NEW b \in batches, BatchDone(b) PROVE Provenance'
  <2>1. Copying' \subseteq Copying
    <3>1. \A w \in settling' : w[1] \in b
      <4>1. settling' = {<<m, TRUE>> : m \in b}
        BY <1>1 DEF BatchDone
      <4>2. \A m \in b : <<m, TRUE>>[1] \in b
        OBVIOUS
      <4>. QED  BY <4>1, <4>2
    <3>2. \A w \in settling' : w[1] \in Copying
      BY <3>1, CopyingIs
    <3>. QED  BY <1>1, <3>2, CopyingIs, CopyingWithin DEF BatchDone
  <2>. QED  BY <1>1, <2>1, Kept DEF BatchDone
<1>2. ASSUME NEW w \in settling, Settle(w) PROVE Provenance'
  <2>. DEFINE m == w[1]
  <2>1. m \in Member /\ H(m.file) \in Hashes /\ m.slot \in Slots
    BY FileFacts DEF TurnTypes, Member
  <2>2. H(m.file) \in stored
    BY CopyingIs DEF CopyProv
  <2>3. Copying' \subseteq Copying
    BY <1>2 DEF Settle, Copying
  <2>4. DoneProv'
    <3>1. CASE FileTerminal({m.file}, {})
      BY <1>2, <2>2, <3>1, FileTerminalProv DEF Settle
    <3>2. CASE FileTerminal({}, {m.file})
      BY <1>2, <3>2, FileTerminalProv DEF Settle
    <3>. QED  BY <1>2, <3>1, <3>2 DEF Settle
  <2>5. CacheProv'
    BY <1>2, <2>1, <2>2, PutProv, Kept DEF Settle
  <2>. QED  BY <1>2, <2>3, <2>4, <2>5, Kept DEF Settle
<1>3. ASSUME NEW op \in storeOps, OnStoreCopyDone(op) PROVE Provenance'
  BY <1>3, Kept, CopyingKept DEF OnStoreCopyDone
<1>4. ASSUME NEW op \in storeOps, OnStoreCopyFailed(op) PROVE Provenance'
  <2>1. DoneProv'
    BY <1>4, FileTerminalProv DEF OnStoreCopyFailed, StoreFileFails
  <2>. QED  BY <1>4, <2>1, Kept, CopyingKept DEF OnStoreCopyFailed, StoreFileFails
<1>. QED  BY <1>1, <1>2, <1>3, <1>4

LEMMA PollProv ==
  ASSUME TypeOK, Provenance,
         \/ \E op \in storeOps : OnWriteComplete(op) \/ OnWriteFails(op)
         \/ \E o \in opens : OnOpenComplete(o) \/ OnOpenMiss(o)
         \/ \E o \in preOpens : OnPreOpenComplete(o) \/ OnPreOpenMiss(o)
         \/ \E r \in reads : OnReadComplete(r) \/ OnReadFails(r)
         \/ \E r \in preReads : OnSharedReadComplete(r) \/ OnSharedReadFails(r)
  PROVE  Provenance'
<1>. USE DEF TypeOK, Provenance
<1>1. ASSUME NEW op \in storeOps, OnWriteComplete(op) PROVE Provenance'
  <2>. DEFINE h == H(op.file)
  <2>1. h \in Hashes /\ op.slot \in Slots
    BY FileFacts DEF TransferTypes, StoreOp
  <2>2. stored \subseteq stored' /\ h \in stored'
    BY <1>1 DEF OnWriteComplete
  <2>3. DoneProv'
    <3>1. FileTerminal({op.file}, {})
      BY <1>1 DEF OnWriteComplete
    <3>. QED  BY <2>2, <3>1, FileTerminalProv
  <2>4. CacheProv'
    BY <1>1, <2>1, <2>2, PutProv DEF OnWriteComplete
  <2>. QED  BY <1>1, <2>2, <2>3, <2>4, Kept, CopyingKept DEF OnWriteComplete
<1>2. ASSUME NEW op \in storeOps, OnWriteFails(op) PROVE Provenance'
  <2>1. stored \subseteq stored'
    BY <1>2 DEF OnWriteFails
  <2>2. DoneProv'
    BY <1>2, <2>1, FileTerminalProv DEF OnWriteFails, StoreFileFails
  <2>. QED  BY <1>2, <2>1, <2>2, Kept, CopyingKept DEF OnWriteFails, StoreFileFails
<1>3. ASSUME NEW o \in opens, OnOpenComplete(o) PROVE Provenance'
  <2>1. H(o.file) \in stored
    BY <1>3 DEF OnOpenComplete, Finds, LoadProv
  <2>2. LoadProv'
    BY <1>3, <2>1 DEF OnOpenComplete, LoadProv, H
  <2>. QED  BY <1>3, <2>2, Kept, CopyingKept DEF OnOpenComplete
<1>4. ASSUME NEW o \in opens, OnOpenMiss(o) PROVE Provenance'
  <2>1. DoneProv'
    BY <1>4, FileTerminalProv DEF OnOpenMiss
  <2>2. LoadProv'
    BY <1>4 DEF OnOpenMiss, LoadProv, H
  <2>. QED  BY <1>4, <2>1, <2>2, Kept, CopyingKept DEF OnOpenMiss
<1>5. ASSUME NEW o \in preOpens, OnPreOpenComplete(o) PROVE Provenance'
  <2>1. o.hash \in Hashes /\ o.hash \in stored
    BY <1>5 DEF OnPreOpenComplete, Finds, PreloadTypes, PreOpen
  <2>2. PreProv'
    <3>1. preReady \in Seq(Hashes) /\ preReady' = Append(preReady, o.hash)
      BY <1>5 DEF OnPreOpenComplete, PreloadTypes
    <3>. QED  BY <1>5, <2>1, <3>1, AppendProperties DEF OnPreOpenComplete, PreProv
  <2>. QED  BY <1>5, <2>2, Kept, CopyingKept DEF OnPreOpenComplete
<1>6. ASSUME NEW o \in preOpens, OnPreOpenMiss(o) PROVE Provenance'
  <2>1. DoneProv'
    BY <1>6, FileTerminalProv DEF OnPreOpenMiss
  <2>2. ParkedProv'
    BY <1>6 DEF OnPreOpenMiss, ParkedProv, PreloadTypes, H
  <2>. QED  BY <1>6, <2>1, <2>2, Kept, CopyingKept DEF OnPreOpenMiss
<1>7. ASSUME NEW r \in reads, OnReadComplete(r) PROVE Provenance'
  <2>1. H(r.file) \in stored
    BY DEF LoadProv
  <2>2. CopyProv'
    <3>1. Copying' \subseteq Copying \cup {[file |-> r.file, slot |-> r.slot, src |-> "own"]}
      BY <1>7, CopyingGrows DEF OnReadComplete
    <3>. QED  BY <1>7, <2>1, <3>1 DEF OnReadComplete, CopyProv, H
  <2>3. LoadProv'
    BY <1>7 DEF OnReadComplete, LoadProv, H
  <2>. QED  BY <1>7, <2>2, <2>3, Kept DEF OnReadComplete
<1>8. ASSUME NEW r \in reads, OnReadFails(r) PROVE Provenance'
  <2>1. DoneProv'
    BY <1>8, FileTerminalProv DEF OnReadFails
  <2>2. LoadProv'
    BY <1>8 DEF OnReadFails, LoadProv, H
  <2>. QED  BY <1>8, <2>1, <2>2, Kept, CopyingKept DEF OnReadFails
<1>9. ASSUME NEW r \in preReads, OnSharedReadComplete(r) PROVE Provenance'
  <2>. DEFINE h == r.hash
  <2>1. h \in Hashes /\ r.slot \in Slots /\ h \in stored
    BY DEF PreloadTypes, PreRead, PreProv
  <2>2. PICK bad \in SUBSET waiters[h] :
          /\ copyReady' = copyReady \cup
               {[file |-> f, slot |-> r.slot, src |-> "shared"] : f \in waiters[h] \ bad}
          /\ FileTerminal({}, bad)
    BY <1>9 DEF OnSharedReadComplete
  <2>3. DoneProv'
    BY <1>9, <2>2, FileTerminalProv DEF OnSharedReadComplete
  <2>4. CacheProv'
    <3>1. ReleaseOrCache(h, r.slot) \/ UNCHANGED cache
      BY <1>9 DEF OnSharedReadComplete
    <3>. QED  BY <1>9, <2>1, <3>1, PutProv, Kept DEF OnSharedReadComplete
  <2>5. SharedProv'
    BY <1>9, <2>1 DEF OnSharedReadComplete, SharedProv, SharedHashes, IsShared, SharedTypes
  <2>6. ParkedProv' /\ PreProv'
    BY <1>9 DEF OnSharedReadComplete, ParkedProv, PreProv, PreloadTypes, H
  <2>7. CopyProv'
    <3>. DEFINE new == {[file |-> f, slot |-> r.slot, src |-> "shared"] : f \in waiters[h] \ bad}
    <3>1. \A m \in new : H(m.file) \in stored
      BY <2>1 DEF ParkedProv
    <3>2. Copying' \subseteq Copying \cup new
      <4>1. copyReady' = copyReady \cup new /\ UNCHANGED <<settling, batches>>
        BY <1>9, <2>2 DEF OnSharedReadComplete
      <4>. HIDE DEF new
      <4>. QED  BY <4>1, CopyingGrows
    <3>. QED  BY <1>9, <3>1, <3>2 DEF OnSharedReadComplete, CopyProv, H
  <2>. QED  BY <1>9, <2>3, <2>4, <2>5, <2>6, <2>7, Kept DEF OnSharedReadComplete
<1>10. ASSUME NEW r \in preReads, OnSharedReadFails(r) PROVE Provenance'
  <2>1. DoneProv'
    BY <1>10, FileTerminalProv DEF OnSharedReadFails
  <2>2. ParkedProv' /\ PreProv'
    BY <1>10 DEF OnSharedReadFails, ParkedProv, PreProv, PreloadTypes, H
  <2>. QED  BY <1>10, <2>1, <2>2, Kept, CopyingKept DEF OnSharedReadFails
<1>. QED  BY <1>1, <1>2, <1>3, <1>4, <1>5, <1>6, <1>7, <1>8, <1>9, <1>10

LEMMA ReadyProv ==
  ASSUME TypeOK, Provenance, NEW f \in readyLoad, NEW s \in Slots,
         SubmitRead(f, s) \/ SubmitReadRefused(f, s)
  PROVE  Provenance'
<1>. USE DEF TypeOK, Provenance
<1>1. CacheProv' /\ SharedProv'
  BY ReserveProv DEF SubmitRead, SubmitReadRefused
<1>2. H(f) \in stored
  BY DEF LoadProv
<1>3. CASE SubmitRead(f, s)
  <2>1. LoadProv'
    BY <1>2, <1>3 DEF SubmitRead, LoadProv, H
  <2>. QED  BY <1>1, <1>3, <2>1, Kept, CopyingKept DEF SubmitRead
<1>4. CASE SubmitReadRefused(f, s)
  <2>1. LoadProv'
    BY <1>4 DEF SubmitReadRefused, LoadProv, H
  <2>2. DoneProv'
    BY <1>4, FileTerminalProv DEF SubmitReadRefused
  <2>. QED  BY <1>1, <1>4, <2>1, <2>2, Kept, CopyingKept DEF SubmitReadRefused
<1>. QED  BY <1>3, <1>4

LEMMA StartProv ==
  ASSUME JobTypes, DoneProv, UNCHANGED stored, NEW f, Start(f) \/ FileTerminal({}, {f})
  PROVE  DoneProv'
<1>1. CASE Start(f)
  BY <1>1, Kept DEF Start
<1>2. CASE FileTerminal({}, {f})
  BY <1>2, FileTerminalProv
<1>. QED  BY <1>1, <1>2

LEMMA LoadScheduleProv ==
  ASSUME TypeOK, Provenance, NEW k \in 1..Len(order),
         \/ ScheduleCacheHit(k) \/ SharedClaimFromCache(k) \/ SharedClaimFails(k)
         \/ SchedulePreloadInflight(k) \/ PromotePendingToSharedRead(k)
         \/ SubmitOpenRead(k)
  PROVE  Provenance'
<1>. USE DEF TypeOK, Provenance
<1>. DEFINE f == NextFile(order[k])
            h == H(f)
<1>1. LoadAt(k)
  BY DEF ScheduleCacheHit, SharedClaimFromCache, SharedClaimFails, SchedulePreloadInflight,
         PromotePendingToSharedRead, SubmitOpenRead
<1>2. f \in Files /\ h \in Hashes
  BY <1>1, TurnFile
<1>3. DoneProv'
  BY StartProv DEF ScheduleCacheHit, SharedClaimFromCache, SharedClaimFails,
     SchedulePreloadInflight, PromotePendingToSharedRead, SubmitOpenRead
<1>4. CASE ScheduleCacheHit(k) \/ SharedClaimFromCache(k)
  <2>1. h \in stored
    BY <1>2, <1>4 DEF ScheduleCacheHit, SharedClaimFromCache, CacheProv, SharedProv, SharedHashes,
                Resident
  <2>2. ASSUME NEW m, copyReady' = copyReady \cup {m}, m.file = f PROVE CopyProv'
    <3>1. Copying' \subseteq Copying \cup {m} /\ UNCHANGED stored
      BY <1>4, <2>2, CopyingGrows DEF ScheduleCacheHit, SharedClaimFromCache
    <3>. QED  BY <2>1, <2>2, <3>1 DEF CopyProv, H
  <2>3. CopyProv'
    <3>1. CASE UNCHANGED copyReady
      BY <1>4, <3>1, Kept, CopyingKept DEF ScheduleCacheHit, SharedClaimFromCache
    <3>. QED  BY <1>4, <2>2, <3>1 DEF ScheduleCacheHit, SharedClaimFromCache
  <2>4. SharedProv' /\ CacheProv'
    BY <1>2, <1>4 DEF ScheduleCacheHit, SharedClaimFromCache, SharedProv, CacheProv,
                      SharedHashes, IsShared, Resident, SharedTypes
  <2>. QED  BY <1>3, <1>4, <2>3, <2>4, Kept DEF ScheduleCacheHit, SharedClaimFromCache
<1>5. CASE SharedClaimFails(k)
  <2>1. CacheProv' /\ SharedProv'
    BY <1>2, <1>5, SharedDecrefProv DEF SharedClaimFails
  <2>. QED  BY <1>3, <1>5, <2>1, Kept, CopyingKept DEF SharedClaimFails
<1>6. CASE SchedulePreloadInflight(k) \/ PromotePendingToSharedRead(k)
  <2>1. waiters' = [waiters EXCEPT ![h] = @ \cup {f}] /\ UNCHANGED stored
    BY <1>6 DEF SchedulePreloadInflight, PromotePendingToSharedRead
  <2>2. ParkedProv'
    BY <1>2, <2>1 DEF ParkedProv, PreloadTypes, H
  <2>. QED  BY <1>3, <1>6, <2>2, Kept, CopyingKept
            DEF SchedulePreloadInflight, PromotePendingToSharedRead
<1>7. CASE SubmitOpenRead(k)
  <2>1. LoadProv'
    <3>1. \A o \in opens' : o \in opens \/ (o.file = f /\ o.hash = h)
      BY <1>7 DEF SubmitOpenRead
    <3>2. UNCHANGED <<readyLoad, reads, stored>>
      BY <1>7 DEF SubmitOpenRead
    <3>. QED  BY <3>1, <3>2 DEF LoadProv, H
  <2>. QED  BY <1>3, <1>7, <2>1, Kept, CopyingKept DEF SubmitOpenRead
<1>. QED  BY <1>4, <1>5, <1>6, <1>7

LEMMA StoreScheduleProv ==
  ASSUME TypeOK, Provenance, NEW k \in 1..Len(order), NEW s \in Slots,
         ScheduleStoreCopy(k, s) \/ ScheduleStoreCopyFails(k, s)
  PROVE  Provenance'
<1>. USE DEF TypeOK, Provenance
<1>1. CacheProv' /\ SharedProv'
  BY ReserveProv DEF ScheduleStoreCopy, ScheduleStoreCopyFails
<1>2. DoneProv'
  BY StartProv DEF ScheduleStoreCopy, ScheduleStoreCopyFails
<1>. QED  BY <1>1, <1>2, Kept, CopyingKept DEF ScheduleStoreCopy, ScheduleStoreCopyFails

LEMMA SpeculativeProv ==
  ASSUME TypeOK, Provenance,
         \/ \E s \in Slots : SubmitPreloadRead(s) \/ SubmitPreloadReadRefused(s)
         \/ YieldOpenFd \/ DropCancelled \/ DeferOnWrite \/ OpenSpeculative
  PROVE  Provenance'
<1>. USE DEF TypeOK, Provenance
<1>1. ASSUME preReady # <<>>, preReady' = Tail(preReady),
             UNCHANGED stored,
             preReads' \subseteq preReads \cup {[hash |-> Head(preReady), slot |-> s] : s \in Slots}
      PROVE  PreProv'
  <2>1. preReady \in Seq(Hashes)
    BY DEF PreloadTypes
  <2>2. Len(preReady) \in Nat /\ Len(preReady) > 0 /\ Head(preReady) = preReady[1]
    BY <1>1, <2>1, EmptySeq
  <2>3. \A i \in 1..Len(preReady') : preReady'[i] = preReady[i + 1] /\ i + 1 \in 1..Len(preReady)
    BY <1>1, <2>1, HeadTailProperties
  <2>. QED  BY <1>1, <2>2, <2>3 DEF PreProv
<1>2. ASSUME NEW s \in Slots, SubmitPreloadRead(s) \/ SubmitPreloadReadRefused(s)
      PROVE  Provenance'
  <2>1. PICK back : ReadHead(s, back)
    BY <1>2 DEF SubmitPreloadRead, SubmitPreloadReadRefused
  <2>2. CacheProv' /\ SharedProv'
    BY <1>2, <2>1, ReserveProv DEF ReadHead, ReservePreload, SubmitPreloadRead,
                                   SubmitPreloadReadRefused
  <2>3. PreProv'
    BY <1>1, <1>2, <2>1 DEF ReadHead, SubmitPreloadRead, SubmitPreloadReadRefused
  <2>4. CASE SubmitPreloadRead(s)
    BY <2>2, <2>3, <2>4, Kept, CopyingKept DEF SubmitPreloadRead
  <2>5. CASE SubmitPreloadReadRefused(s)
    <3>1. DoneProv'
      BY <2>5, FileTerminalProv DEF SubmitPreloadReadRefused
    <3>2. ParkedProv'
      BY <2>5 DEF SubmitPreloadReadRefused, ParkedProv, PreloadTypes, H
    <3>. QED  BY <2>2, <2>3, <2>5, <3>1, <3>2, Kept, CopyingKept DEF SubmitPreloadReadRefused
  <2>. QED  BY <1>2, <2>4, <2>5
<1>3. CASE YieldOpenFd
  <2>1. PreProv'
    BY <1>1, <1>3 DEF YieldOpenFd
  <2>. QED  BY <1>3, <2>1, Kept, CopyingKept DEF YieldOpenFd
<1>4. CASE DropCancelled \/ DeferOnWrite \/ OpenSpeculative
  BY <1>4, Kept, CopyingKept DEF DropCancelled, DeferOnWrite, OpenSpeculative
<1>. QED  BY <1>2, <1>3, <1>4

LEMMA TurnEndProv ==
  ASSUME TypeOK, Provenance, FlushCopyBatch \/ EndTurn \/ Exit \/ FailEverything
  PROVE  Provenance'
<1>. USE DEF TypeOK, Provenance
<1>1. CASE FlushCopyBatch
  <2>1. CASE batches' = batches \cup {copyReady} /\ UNCHANGED settling
    <3>1. Copying' \subseteq Copying
      BY <1>1, <2>1, CopyingIs, CopyingWithin DEF FlushCopyBatch
    <3>. QED  BY <1>1, <3>1, Kept DEF FlushCopyBatch
  <2>2. CASE settling' = {<<m, FALSE>> : m \in copyReady} /\ UNCHANGED batches
    <3>1. \A m \in copyReady : <<m, FALSE>>[1] \in copyReady
      OBVIOUS
    <3>2. \A w \in settling' : w[1] \in copyReady
      BY <2>2, <3>1
    <3>3. Copying' \subseteq Copying
      BY <1>1, <2>2, <3>2, CopyingIs, CopyingWithin DEF FlushCopyBatch
    <3>. QED  BY <1>1, <3>3, Kept DEF FlushCopyBatch
  <2>. QED  BY <1>1, <2>1, <2>2 DEF FlushCopyBatch
<1>2. CASE EndTurn \/ Exit
  BY <1>2, Kept, CopyingKept DEF EndTurn, Exit
<1>3. CASE FailEverything
  <2>1. stored \subseteq stored'
    BY <1>3 DEF FailEverything
  <2>2. DoneProv' /\ ParkedProv'
    BY <1>3, <2>1 DEF FailEverything, DoneProv, ParkedProv, FilesOf, H, JobTypes
  <2>. QED  BY <1>3, <2>1, <2>2, Kept, CopyingKept DEF FailEverything
<1>. QED  BY <1>1, <1>2, <1>3

LEMMA StepProv == TypeOK /\ Provenance /\ [Next]_vars => Provenance'
<1>. SUFFICES ASSUME TypeOK, Provenance, [Next]_vars PROVE Provenance'
  OBVIOUS
<1>1. CASE Client
  BY <1>1, ClientProv
<1>2. CASE FailEverything
  BY <1>2, TurnEndProv
<1>3. CASE Work
  BY <1>3, IntakeWorkProv, CudaProv, PollProv, ReadyProv, LoadScheduleProv,
     StoreScheduleProv, SpeculativeProv, TurnEndProv DEF Work
<1>4. CASE UNCHANGED vars
  BY <1>4, Kept, CopyingKept DEF vars, Provenance
<1>. QED  BY <1>1, <1>2, <1>3, <1>4 DEF Next

-----------------------------------------------------------------------------
\* In every reachable state the bytes on their way to a load - opened,
\* being read, staged, retained, queued for a copy - are those of a published
\* file of the hash the load asked for.
THEOREM BytesAreTraceable == Spec => []Provenance
<1>. QED  BY InitTypes, StepTypes, InitProv, StepProv, PTL DEF Spec

\* A job whose Future succeeded has every one of its blocks on disk: a store
\* published it, a load delivered published bytes.
THEOREM SuccessMeansPublished == Spec => []OkMeansPublished
<1>1. Provenance => OkMeansPublished
  BY DEF Provenance, DoneProv, OkMeansPublished
<1>. QED  BY <1>1, BytesAreTraceable, PTL

-----------------------------------------------------------------------------
(***************************************************************************)
(* FILES AND THE REFINEMENT OF BLOCKTRANSFER                               *)
(*                                                                         *)
(* Why the reactor answers each job once, and in the step in which its     *)
(* last file completes: a file taken up by the scheduler is in exactly one *)
(* table until it completes or fails, so no completion is counted twice    *)
(* and none is missed.  From that, and from Provenance, the reactor        *)
(* implements BlockTransfer for every workload, pool size and set of       *)
(* faults.                                                                 *)
(***************************************************************************)

(* The inductive invariant.                                                 *)

\* The files a table of entries is about, and no file twice among them.
FilesIn(T)  == {x.file : x \in T}
Distinct(T) == \A x, y \in T : x.file = y.file => x = y

Opening == FilesIn(opens)
Reading == FilesIn(reads)
Writing == FilesIn(storeOps)
Waiting == UNION {waiters[h] : h \in Hashes}
Copied  == FilesIn(Copying)

\* The members of copies move from copyReady to a batch to settling, and are
\* never in two of them: what Settle takes out of settling is gone.
CopiesApart ==
  /\ \A b \in batches : copyReady \cap b = {}
  /\ \A b, c \in batches : b # c => b \cap c = {}
  /\ \A w \in settling : w[1] \notin copyReady /\ \A b \in batches : w[1] \notin b
  /\ \A v, w \in settling : v[1] = w[1] => v = w

\* The live files L are shared out among the six tables.
Seated(L, O, R, D, S, W, C) ==
  /\ L = O \cup R \cup D \cup S \cup W \cup C
  /\ O \cap R = {} /\ O \cap D = {} /\ O \cap S = {} /\ O \cap W = {} /\ O \cap C = {}
  /\ R \cap D = {} /\ R \cap S = {} /\ R \cap W = {} /\ R \cap C = {}
  /\ D \cap S = {} /\ D \cap W = {} /\ D \cap C = {}
  /\ S \cap W = {} /\ S \cap C = {} /\ W \cap C = {}
  /\ \A f \in L : f \in S <=> JobKind[f[1]] = "store"

Tables ==
  /\ Distinct(opens) /\ Distinct(reads) /\ Distinct(storeOps) /\ Distinct(Copying)
  /\ CopiesApart
  /\ Seated(live, Opening, readyLoad, Reading, Writing, Waiting, Copied)

\* What a job's own record says of its files: the scheduler has passed the
\* files that are live or done, none is both, and a job that waits lacks one.
Started == {"pending", "ok", "error"}
Ledger ==
  /\ live \cap done = {}
  /\ \A f \in live \cup done : f[2] <= next[f[1]] /\ future[f[1]] \in Started
  /\ \A j \in active : future[j] \in Started
  /\ \A f \in storing : future[f[1]] \in Started
  /\ \A j \in Jobs : future[j] = "pending" => ~(FilesOf(j) \subseteq done)

Accounts == Ledger /\ (Alive => Tables)

-----------------------------------------------------------------------------
(* Tables of entries.                                                       *)

LEMMA TakeOut ==
  ASSUME NEW T, Distinct(T), NEW x \in T
  PROVE  Distinct(T \ {x}) /\ FilesIn(T \ {x}) = FilesIn(T) \ {x.file}
<1>1. \A f : f \in FilesIn(T \ {x}) <=> f \in FilesIn(T) \ {x.file}
  BY DEF Distinct, FilesIn
<1>. QED  BY <1>1 DEF Distinct

LEMMA PutIn ==
  ASSUME NEW T, Distinct(T), NEW N, Distinct(N), FilesIn(T) \cap FilesIn(N) = {}
  PROVE  Distinct(T \cup N) /\ FilesIn(T \cup N) = FilesIn(T) \cup FilesIn(N)
<1>1. \A x \in T : x.file \in FilesIn(T)
  BY DEF FilesIn
<1>2. \A x \in N : x.file \in FilesIn(N)
  BY DEF FilesIn
<1>3. \A f : f \in FilesIn(T \cup N) <=> f \in FilesIn(T) \cup FilesIn(N)
  BY DEF FilesIn
<1>. QED  BY <1>1, <1>2, <1>3 DEF Distinct

LEMMA OneEntry ==
  ASSUME NEW x
  PROVE  Distinct({x}) /\ FilesIn({x}) = {x.file}
BY DEF Distinct, FilesIn

\* What is left alone keeps its files.
LEMMA TableKept ==
  /\ UNCHANGED opens => Opening' = Opening
  /\ UNCHANGED reads => Reading' = Reading
  /\ UNCHANGED storeOps => Writing' = Writing
  /\ UNCHANGED waiters => Waiting' = Waiting
  /\ UNCHANGED <<copying, settling>> => /\ Copied' = Copied
                                        /\ Copying' = Copying
                                        /\ CopiesApart => CopiesApart'
BY CopyingKept DEF Opening, Reading, Writing, Waiting, Copied, CopiesApart, FilesIn

\* One entry leaves or joins a table.
LEMMA TableTakes ==
  /\ \A o \in opens : Distinct(opens) /\ opens' = opens \ {o}
       => Distinct(opens') /\ Opening' = Opening \ {o.file}
  /\ \A r \in reads : Distinct(reads) /\ reads' = reads \ {r}
       => Distinct(reads') /\ Reading' = Reading \ {r.file}
  /\ \A op \in storeOps : Distinct(storeOps) /\ storeOps' = storeOps \ {op}
       => Distinct(storeOps') /\ Writing' = Writing \ {op.file}
<1>1. \A T, U : \A x \in T : Distinct(T) /\ U = T \ {x}
        => Distinct(U) /\ FilesIn(U) = FilesIn(T) \ {x.file}
  BY TakeOut
<1>. QED  BY <1>1 DEF Opening, Reading, Writing

LEMMA TablePuts ==
  /\ \A o : Distinct(opens) /\ o.file \notin Opening /\ opens' = opens \cup {o}
       => Distinct(opens') /\ Opening' = Opening \cup {o.file}
  /\ \A r : Distinct(reads) /\ r.file \notin Reading /\ reads' = reads \cup {r}
       => Distinct(reads') /\ Reading' = Reading \cup {r.file}
  /\ \A op : Distinct(storeOps) /\ op.file \notin Writing /\ storeOps' = storeOps \cup {op}
       => Distinct(storeOps') /\ Writing' = Writing \cup {op.file}
<1>1. ASSUME NEW T, NEW U, NEW x, Distinct(T), x.file \notin FilesIn(T), U = T \cup {x}
      PROVE  Distinct(U) /\ FilesIn(U) = FilesIn(T) \cup {x.file}
  <2>1. Distinct({x}) /\ FilesIn({x}) = {x.file}
    BY OneEntry
  <2>2. FilesIn(T) \cap FilesIn({x}) = {}
    BY <1>1, <2>1
  <2>3. Distinct(T \cup {x}) /\ FilesIn(T \cup {x}) = FilesIn(T) \cup FilesIn({x})
    BY <1>1, <2>1, <2>2, PutIn
  <2>. QED  BY <1>1, <2>1, <2>3
<1>. QED  BY <1>1 DEF Opening, Reading, Writing

\* Parked loads are parked on their own hash only.
LEMMA WaitersOut ==
  ASSUME ParkedProv, PreloadTypes, NEW h \in Hashes,
         waiters' = [waiters EXCEPT ![h] = {}]
  PROVE  Waiting' = Waiting \ waiters[h] /\ waiters[h] \subseteq Waiting
<1>1. \A f : f \in Waiting' <=> f \in Waiting \ waiters[h]
  BY DEF Waiting, ParkedProv, PreloadTypes
<1>. QED  BY <1>1 DEF Waiting

LEMMA WaiterIn ==
  ASSUME PreloadTypes, NEW h \in Hashes, NEW f,
         waiters' = [waiters EXCEPT ![h] = @ \cup {f}]
  PROVE  Waiting' = Waiting \cup {f}
<1>1. \A g : g \in Waiting' <=> g \in Waiting \cup {f}
  BY DEF Waiting, PreloadTypes
<1>. QED  BY <1>1

\* New members of copies.
LEMMA CopiesIn ==
  ASSUME Distinct(Copying), CopiesApart, NEW new, Distinct(new),
         FilesIn(new) \cap Copied = {},
         copyReady' = copyReady \cup new, UNCHANGED <<batches, settling>>
  PROVE  Distinct(Copying') /\ CopiesApart' /\ Copied' = Copied \cup FilesIn(new)
<1>1. Copying' = Copying \cup new
  BY DEF Copying
<1>2. Distinct(Copying \cup new) /\ FilesIn(Copying \cup new) = Copied \cup FilesIn(new)
  BY PutIn DEF Copied
<1>3. \A m \in new : m \notin Copying
  BY DEF Copied, FilesIn
<1>4. CopiesApart'
  <2>1. \A b \in batches : new \cap b = {}
    BY <1>3, CopyingIs
  <2>2. \A w \in settling : w[1] \notin new
    BY <1>3, CopyingIs
  <2>. QED  BY <2>1, <2>2 DEF CopiesApart
<1>. QED  BY <1>1, <1>2, <1>4 DEF Copied

-----------------------------------------------------------------------------
(* The ledger.                                                              *)

LEMMA LedgerKept ==
  ASSUME Ledger, UNCHANGED <<live, done, future, next>>, active' \subseteq active,
         storing' \subseteq storing
  PROVE  Ledger'
BY DEF Ledger, FilesOf

\* The scheduler only moves forward.
NextGrows == \A j \in Jobs : next[j] <= next'[j]

LEMMA LedgerTerminal ==
  ASSUME TypeOK, Ledger, NEW ok \in SUBSET live, NEW bad, FileTerminal(ok, bad),
         next' \in [Jobs -> Nat], NextGrows, UNCHANGED <<active, storing>>
  PROVE  Ledger'
<1>. USE DEF TypeOK, JobTypes, TurnTypes
<1>1. live' = live \ (ok \cup bad) /\ done' = done \cup ok
  BY DEF FileTerminal
<1>2. \A j \in Jobs : future[j] \in Started => future'[j] \in Started
  BY DEF FileTerminal, Started
<1>3. ASSUME NEW f \in live' \cup done' PROVE f[2] <= next'[f[1]] /\ future'[f[1]] \in Started
  <2>1. f \in Files /\ f[2] <= next[f[1]] /\ future[f[1]] \in Started
    BY <1>1, <1>3 DEF Ledger
  <2>2. f[1] \in Jobs /\ f[2] \in Nat
    BY <2>1, FileFacts, FilesOfJob
  <2>. QED  BY <1>2, <2>1, <2>2 DEF NextGrows
<1>4. \A j \in active' : future'[j] \in Started
  BY <1>2 DEF Ledger
<1>5. \A f \in storing' : future'[f[1]] \in Started
  BY <1>2, FileFacts DEF Ledger
<1>6. \A j \in Jobs : future'[j] = "pending" => ~(FilesOf(j) \subseteq done')
  BY <1>1 DEF FileTerminal
<1>. QED  BY <1>1, <1>3, <1>4, <1>5, <1>6 DEF Ledger, FilesOf

\* The files of one step that complete or fail leave the live ones.
LEMMA LedgerEnds ==
  ASSUME TypeOK, Ledger, NEW ok \in SUBSET live, NEW bad, FileTerminal(ok, bad),
         UNCHANGED <<next, active, storing>>
  PROVE  Ledger' /\ live' = live \ (ok \cup bad)
<1>1. next' \in [Jobs -> Nat] /\ NextGrows
  BY DEF TypeOK, JobTypes, NextGrows
<1>. QED  BY <1>1, LedgerTerminal DEF FileTerminal

LEMMA LedgerFails ==
  ASSUME TypeOK, Ledger, NEW bad, FileTerminal({}, bad), UNCHANGED <<next, active, storing>>
  PROVE  Ledger' /\ live' = live \ bad
<1>1. {} \in SUBSET live /\ {} \cup bad = bad
  OBVIOUS
<1>2. Ledger' /\ live' = live \ ({} \cup bad)
  BY <1>1, LedgerEnds
<1>. QED  BY <1>1, <1>2

\* The file a job takes up is new to every table.
LEMMA TurnNew ==
  ASSUME TypeOK, Ledger, NEW k \in 1..Len(order), LoadAt(k) \/ StoreAt(k)
  PROVE  LET f == NextFile(order[k])
         IN /\ f \in Files /\ f[1] = order[k] /\ f[1] \in active
            /\ f \notin live /\ f \notin done
            /\ next' \in [Jobs -> Nat] /\ NextGrows /\ f[2] <= next'[f[1]]
            /\ Alive
            /\ LoadAt(k) => JobKind[f[1]] = "load"
            /\ StoreAt(k) => JobKind[f[1]] = "store"
<1>. DEFINE f == NextFile(order[k])
<1>. USE DEF TypeOK, JobTypes
<1>1. f \in Files /\ order[k] \in Jobs /\ next' \in [Jobs -> Nat]
  BY TurnFile
<1>2. f[1] = order[k] /\ f[2] = next[order[k]] + 1 /\ next[order[k]] \in Nat
  BY <1>1 DEF NextFile
<1>3. f \notin live /\ f \notin done
  BY <1>2 DEF Ledger
<1>4. NextGrows /\ f[2] <= next'[f[1]]
  <2>1. next' = [next EXCEPT ![order[k]] = @ + 1]
    BY DEF LoadAt, StoreAt, Schedule
  <2>2. ASSUME NEW j \in Jobs PROVE next[j] <= next'[j]
    BY <1>1, <2>1
  <2>3. next'[order[k]] = next[order[k]] + 1
    BY <1>1, <2>1
  <2>. QED  BY <1>2, <2>2, <2>3 DEF NextGrows
<1>5. /\ order[k] \in active
      /\ LoadAt(k) => JobKind[order[k]] = "load"
      /\ StoreAt(k) => JobKind[order[k]] = "store"
      /\ Alive
  BY DEF LoadAt, StoreAt, CanLoad, LoadLeft, CanStore, At
<1>. QED  BY <1>1, <1>2, <1>3, <1>4, <1>5

LEMMA LedgerStart ==
  ASSUME TypeOK, Ledger, NEW k \in 1..Len(order), LoadAt(k) \/ StoreAt(k),
         \/ Start(NextFile(order[k]))
         \/ FileTerminal({}, {NextFile(order[k])}),
         UNCHANGED <<active, storing>>
  PROVE  Ledger'
<1>. DEFINE f == NextFile(order[k])
<1>1. CASE Start(f)
  <2>. USE DEF TypeOK, JobTypes, TurnTypes
  <2>1. live' = live \cup {f} /\ UNCHANGED <<done, future>>
    BY <1>1 DEF Start
  <2>2. f \in Files /\ f[1] \in active /\ f \notin done /\ NextGrows /\ f[2] <= next'[f[1]]
    BY TurnNew
  <2>3. ASSUME NEW g \in live' \cup done' PROVE g[2] <= next'[g[1]] /\ future'[g[1]] \in Started
    <3>1. CASE g = f
      BY <2>1, <2>2, <3>1 DEF Ledger
    <3>2. CASE g # f
      <4>1. g \in live \cup done /\ g \in Files
        BY <2>1, <2>3, <3>2
      <4>2. g[1] \in Jobs /\ g[2] \in Nat
        BY <4>1, FileFacts, FilesOfJob
      <4>3. next' \in [Jobs -> Nat]
        BY TurnNew
      <4>4. g[2] <= next[g[1]] /\ next[g[1]] <= next'[g[1]] /\ future[g[1]] \in Started
        BY <2>2, <4>1, <4>2 DEF Ledger, NextGrows
      <4>. QED  BY <2>1, <4>2, <4>3, <4>4
    <3>. QED  BY <3>1, <3>2
  <2>. HIDE DEF f
  <2>. QED  BY <2>1, <2>2, <2>3 DEF Ledger, FilesOf
<1>2. CASE FileTerminal({}, {f})
  BY <1>2, TurnNew, LedgerTerminal
<1>. QED  BY <1>1, <1>2

-----------------------------------------------------------------------------
(* What the invariant says of a file.                                       *)

LEMMA SeatsBalance == TypeOK /\ Provenance /\ Accounts => FilesPartition
<1>. SUFFICES ASSUME TypeOK, Provenance, Tables, NEW f \in Files
              PROVE  Places(f) = Cardinality({f} \cap live)
  BY DEF Accounts, FilesPartition
<1>1. ASSUME NEW T, Distinct(T)
      PROVE  Cardinality({x \in T : x.file = f}) = IF f \in FilesIn(T) THEN 1 ELSE 0
  <2>1. CASE f \in FilesIn(T)
    <3>1. PICK x \in T : x.file = f
      BY <2>1 DEF FilesIn
    <3>2. {y \in T : y.file = f} = {x}
      BY <1>1, <3>1 DEF Distinct
    <3>. QED  BY <2>1, <3>2, FS_Singleton
  <2>2. CASE f \notin FilesIn(T)
    <3>1. {y \in T : y.file = f} = {}
      BY <2>2 DEF FilesIn
    <3>. QED  BY <2>2, <3>1, FS_EmptySet
  <2>. QED  BY <2>1, <2>2
<1>2. ASSUME NEW S PROVE Cardinality({f} \cap S) = IF f \in S THEN 1 ELSE 0
  <2>1. CASE f \in S
    <3>1. {f} \cap S = {f}
      BY <2>1
    <3>. QED  BY <2>1, <3>1, FS_Singleton
  <2>2. CASE f \notin S
    <3>1. {f} \cap S = {}
      BY <2>2
    <3>. QED  BY <2>2, <3>1, FS_EmptySet
  <2>. QED  BY <2>1, <2>2
<1>3. Cardinality({h \in Hashes : f \in waiters[h]}) = IF f \in Waiting THEN 1 ELSE 0
  <2>1. CASE f \in Waiting
    <3>1. PICK h \in Hashes : f \in waiters[h]
      BY <2>1 DEF Waiting
    <3>2. {g \in Hashes : f \in waiters[g]} = {h}
      BY <3>1 DEF Provenance, ParkedProv
    <3>. QED  BY <2>1, <3>2, FS_Singleton
  <2>2. CASE f \notin Waiting
    <3>1. {g \in Hashes : f \in waiters[g]} = {}
      BY <2>2 DEF Waiting
    <3>. QED  BY <2>2, <3>1, FS_EmptySet
  <2>. QED  BY <2>1, <2>2
<1>4. /\ Cardinality({o \in opens : o.file = f}) = IF f \in Opening THEN 1 ELSE 0
      /\ Cardinality({r \in reads : r.file = f}) = IF f \in Reading THEN 1 ELSE 0
      /\ Cardinality({op \in storeOps : op.file = f}) = IF f \in Writing THEN 1 ELSE 0
      /\ Cardinality({m \in Copying : m.file = f}) = IF f \in Copied THEN 1 ELSE 0
  BY <1>1 DEF Tables, Opening, Reading, Writing, Copied
<1>5. /\ Cardinality({f} \cap readyLoad) = IF f \in readyLoad THEN 1 ELSE 0
      /\ Cardinality({f} \cap live) = IF f \in live THEN 1 ELSE 0
  BY <1>2
<1>. QED  BY <1>3, <1>4, <1>5 DEF Tables, Seated, Places

-----------------------------------------------------------------------------
(* One lemma for each group of steps.                                       *)

LEMMA TablesKept ==
  ASSUME Tables, UNCHANGED <<opens, readyLoad, reads, storeOps, waiters, copying, settling, live>>
  PROVE  Tables'
BY TableKept DEF Tables, Seated

LEMMA AccountsKept ==
  ASSUME Accounts, Ledger',
         UNCHANGED <<mode, opens, readyLoad, reads, storeOps, waiters, copying, settling, live>>
  PROVE  Accounts'
BY TablesKept DEF Accounts, Alive

LEMMA InitFiles == Init => Accounts
<1>. SUFFICES ASSUME Init PROVE Accounts
  OBVIOUS
<1>1. Ledger
  BY FilesOfJob DEF Init, Ledger
<1>2. Copying = {} /\ CopiesApart
  BY DEF Init, Copying, CopiesApart
<1>3. Tables
  BY <1>2 DEF Init, Tables, Distinct, Seated, Opening, Reading, Writing, Waiting, Copied, FilesIn
<1>. QED  BY <1>1, <1>3 DEF Accounts

\* Members move from table to table of copies; settling one ends it.
LEMMA BatchMoves ==
  ASSUME NEW b \in batches, BatchDone(b)
  PROVE  Copying' = Copying
<1>1. /\ settling = {} /\ settling' = {<<m, TRUE>> : m \in b}
      /\ batches' = batches \ {b} /\ UNCHANGED copyReady
  BY DEF BatchDone, At, Quiet
<1>2. \A m \in b : <<m, TRUE>>[1] = m /\ <<m, TRUE>> \in settling'
  BY <1>1
<1>3. \A m : (\E w \in settling' : m = w[1]) <=> m \in b
  BY <1>1, <1>2
<1>4. \A m : m \in Copying' <=> m \in copyReady' \/ (\E c \in batches' : m \in c)
                               \/ (\E w \in settling' : m = w[1])
  BY DEF Copying
<1>5. \A m : m \in Copying <=> m \in copyReady \/ (\E c \in batches : m \in c)
  BY <1>1 DEF Copying
<1>. QED  BY <1>1, <1>3, <1>4, <1>5

LEMMA FlushMoves ==
  ASSUME FlushCopyBatch
  PROVE  Copying' = Copying
<1>0. settling = {} /\ copyReady' = {}
  BY DEF FlushCopyBatch, At, Quiet
<1>1. \A m : m \in Copying' <=> m \in copyReady' \/ (\E c \in batches' : m \in c)
                               \/ (\E w \in settling' : m = w[1])
  BY DEF Copying
<1>2. \A m : m \in Copying <=> m \in copyReady \/ (\E c \in batches : m \in c)
  BY <1>0 DEF Copying
<1>3. CASE batches' = batches \cup {copyReady} /\ UNCHANGED settling
  BY <1>0, <1>1, <1>2, <1>3
<1>4. CASE settling' = {<<m, FALSE>> : m \in copyReady} /\ UNCHANGED batches
  <2>1. \A m \in copyReady : <<m, FALSE>>[1] = m /\ <<m, FALSE>> \in settling'
    BY <1>4
  <2>2. \A m : (\E w \in settling' : m = w[1]) <=> m \in copyReady
    BY <1>4, <2>1
  <2>. QED  BY <1>0, <1>1, <1>2, <1>4, <2>2
<1>. QED  BY <1>3, <1>4 DEF FlushCopyBatch

LEMMA SettleTakes ==
  ASSUME CopiesApart, NEW w \in settling, Settle(w)
  PROVE  w[1] \in Copying /\ Copying' = Copying \ {w[1]}
<1>. DEFINE m == w[1]
<1>1. settling' = settling \ {w} /\ UNCHANGED copying
  BY DEF Settle
<1>2. \A v \in settling : v[1] = m => v = w
  BY DEF CopiesApart
<1>3. m \notin copyReady /\ \A b \in batches : m \notin b
  BY DEF CopiesApart
<1>4. \A n : n \in Copying' <=> n \in copyReady \/ (\E c \in batches : n \in c)
                               \/ (\E v \in settling \ {w} : n = v[1])
  BY <1>1 DEF Copying
<1>5. \A n : n \in Copying <=> n \in copyReady \/ (\E c \in batches : n \in c)
                               \/ (\E v \in settling : n = v[1])
  BY DEF Copying
<1>. HIDE DEF m
<1>6. \A n : n \in Copying' <=> n \in Copying \ {m}
  BY <1>2, <1>3, <1>4, <1>5 DEF m
<1>. QED  BY <1>6, CopyingIs DEF m

LEMMA StopDetaches ==
  ASSUME Stop
  PROVE  /\ \A n \in Copying' : \E m \in Copying : n = Detach(m)
         /\ \A m \in Copying : Detach(m) \in Copying'
<1>1. /\ copyReady' = {Detach(m) : m \in copyReady} /\ settling = {} /\ settling' = {}
      /\ batches' = {{Detach(m) : m \in b} : b \in batches}
  BY DEF Stop, CanIntake, Quiet
<1>. QED  BY <1>1 DEF Copying

\* STOP renames the members of copies; their files stay apart.
LEMMA DetachedFiles ==
  ASSUME Tables, Stop
  PROVE  Distinct(Copying') /\ CopiesApart' /\ Copied' = Copied
<1>1. \A m : Detach(m).file = m.file
  BY DEF Detach
<1>2. /\ copyReady' = {Detach(m) : m \in copyReady} /\ settling = {} /\ settling' = {}
      /\ batches' = {{Detach(m) : m \in b} : b \in batches}
  BY DEF Stop, CanIntake, Quiet
<1>3. \A n \in Copying' : \E m \in Copying : n = Detach(m)
  BY StopDetaches
<1>4. \A m \in Copying : Detach(m) \in Copying'
  BY StopDetaches
<1>5. \A m, n \in Copying : Detach(m) = Detach(n) => m = n
  BY <1>1 DEF Tables, Distinct
<1>6. Distinct(Copying')
  <2>1. ASSUME NEW x \in Copying', NEW y \in Copying', x.file = y.file PROVE x = y
    <3>1. PICK m \in Copying : x = Detach(m)
      BY <1>3
    <3>2. PICK n \in Copying : y = Detach(n)
      BY <1>3
    <3>3. m.file = n.file
      BY <1>1, <2>1, <3>1, <3>2
    <3>. QED  BY <3>1, <3>2, <3>3 DEF Tables, Distinct
  <2>. QED  BY <2>1 DEF Distinct
<1>7. Copied' = Copied
  <2>1. \A f : f \in Copied' <=> f \in Copied
    BY <1>1, <1>3, <1>4 DEF Copied, FilesIn
  <2>. QED  BY <2>1
<1>8. CopiesApart'
  <2>1. ASSUME NEW b \in batches' PROVE copyReady' \cap b = {}
    <3>1. PICK c \in batches : b = {Detach(m) : m \in c}
      BY <1>2, <2>1
    <3>2. \A m \in copyReady, n \in c : m # n /\ m \in Copying /\ n \in Copying
      BY CopyingIs DEF Tables, CopiesApart
    <3>. QED  BY <1>2, <1>5, <3>1, <3>2
  <2>2. ASSUME NEW b \in batches', NEW c \in batches', b # c PROVE b \cap c = {}
    <3>1. PICK p \in batches : b = {Detach(m) : m \in p}
      BY <1>2, <2>2
    <3>2. PICK q \in batches : c = {Detach(m) : m \in q}
      BY <1>2, <2>2
    <3>3. \A m \in p, n \in q : m # n /\ m \in Copying /\ n \in Copying
      BY <2>2, <3>1, <3>2, CopyingIs DEF Tables, CopiesApart
    <3>. QED  BY <1>5, <3>1, <3>2, <3>3
  <2>. QED  BY <1>2, <2>1, <2>2 DEF CopiesApart
<1>. QED  BY <1>6, <1>7, <1>8

LEMMA ClientFiles == TypeOK /\ Accounts /\ Client => Accounts'
<1>. SUFFICES ASSUME TypeOK, Accounts, Client PROVE Accounts'
  OBVIOUS
<1>1. ASSUME NEW p \in Preloads, AskPreload(p) PROVE Accounts'
  BY <1>1, LedgerKept, AccountsKept DEF AskPreload, Accounts
<1>2. ASSUME NEW j \in Jobs, IntakeLoad(j) \/ IntakeStore(j) \/ SubmitClosed(j)
      PROVE  Accounts'
  <2>. USE DEF TypeOK, JobTypes, TurnTypes
  <2>1. /\ future[j] = "none" /\ UNCHANGED <<live, done, next>>
        /\ \A i \in Jobs : i # j => future'[i] = future[i]
        /\ future'[j] \in Outcome /\ future'[j] # "ok"
        /\ \A i \in active' : i \in active \/ (i = j /\ future'[j] = "pending")
        /\ \A f \in storing' : f \in storing \/ (f[1] = j /\ future'[j] = "pending")
    BY <1>2 DEF IntakeLoad, IntakeStore, SubmitClosed, Outcome
  <2>2. \A f \in live \cup done : f[1] \in Jobs /\ f[1] # j
    BY <2>1, FileFacts DEF Ledger, Accounts, Started
  <2>3. ~(FilesOf(j) \subseteq done)
    <3>1. <<j, 1>> \in FilesOf(j) /\ <<j, 1>>[1] = j
      BY FilesOfJob DEF FilesOf, NumFiles
    <3>. QED  BY <2>2, <3>1
  <2>4. \A f \in storing : f[1] \in Jobs /\ f[1] # j
    BY <2>1, FileFacts DEF Ledger, Accounts, Started
  <2>5. \A i \in active : i \in Jobs /\ i # j
    BY <2>1 DEF Ledger, Accounts, Started
  <2>6. Ledger'
    BY <2>1, <2>2, <2>3, <2>4, <2>5 DEF Ledger, Accounts, Started, FilesOf
  <2>. QED  BY <1>2, <2>6, AccountsKept DEF IntakeLoad, IntakeStore, SubmitClosed
<1>3. CASE Stop
  <2>1. Tables /\ Ledger
    BY <1>3 DEF Stop, CanIntake, Accounts, Alive
  <2>2. FileTerminal({}, Waiting) /\ waiters' = [h \in Hashes |-> {}]
    BY <1>3 DEF Stop, Waiting
  <2>3. Ledger'
    <3>1. UNCHANGED <<next, active, storing>>
      BY <1>3 DEF Stop
    <3>. QED  BY <2>1, <2>2, <3>1, LedgerFails
  <2>4. Waiting' = {} /\ live' = live \ Waiting
    BY <2>2 DEF Waiting, FileTerminal
  <2>5. /\ Distinct(opens') /\ Distinct(reads') /\ Distinct(storeOps')
        /\ Opening' = Opening /\ Reading' = Reading /\ Writing' = Writing
        /\ UNCHANGED readyLoad
    BY <1>3, <2>1, TableKept DEF Stop, Tables
  <2>6. Tables'
    BY <1>3, <2>1, <2>4, <2>5, DetachedFiles DEF Tables, Seated
  <2>. QED  BY <2>3, <2>6 DEF Accounts
<1>. QED  BY <1>1, <1>2, <1>3 DEF Client

LEMMA IntakeWorkFiles ==
  ASSUME TypeOK, Accounts, \/ \E a \in asking : PreloadHash(a)
                           \/ \E f \in storing : StoreHash(f)
  PROVE  Accounts'
<1>1. ASSUME NEW a \in asking, PreloadHash(a) PROVE Accounts'
  BY <1>1, LedgerKept, AccountsKept DEF PreloadHash, Accounts
<1>2. ASSUME NEW f \in storing, StoreHash(f) PROVE Accounts'
  <2>1. \A j \in active' : j \in active \/ j = f[1]
    BY <1>2 DEF StoreHash
  <2>2. \A g \in storing' : g[1] = f[1]
    BY <1>2 DEF StoreHash
  <2>3. Ledger'
    BY <1>2, <2>1, <2>2 DEF StoreHash, Ledger, Accounts, FilesOf
  <2>. QED  BY <1>2, <2>3, AccountsKept DEF StoreHash
<1>. QED  BY <1>1, <1>2

LEMMA CudaFiles ==
  ASSUME TypeOK, Accounts,
         \/ \E b \in batches : BatchDone(b)
         \/ \E w \in settling : Settle(w)
         \/ \E op \in storeOps : OnStoreCopyDone(op) \/ OnStoreCopyFailed(op)
  PROVE  Accounts'
<1>0. Tables /\ Ledger /\ Alive
  BY DEF Accounts, BatchDone, Settle, OnStoreCopyDone, OnStoreCopyFailed, At
<1>1. ASSUME NEW b \in batches, BatchDone(b) PROVE Accounts'
  <2>1. /\ settling = {} /\ settling' = {<<m, TRUE>> : m \in b}
        /\ batches' = batches \ {b} /\ UNCHANGED copyReady
    BY <1>1 DEF BatchDone, At, Quiet
  <2>2. Copying' = Copying
    BY <1>1, BatchMoves
  <2>3. CopiesApart'
    <3>1. ASSUME NEW w \in settling' PROVE w[1] \in b /\ w = <<w[1], TRUE>>
      <4>1. PICK m \in b : w = <<m, TRUE>>
        BY <2>1, <3>1
      <4>. QED  BY <4>1
    <3>. QED  BY <1>0, <2>1, <3>1 DEF CopiesApart, Tables
  <2>4. Copied' = Copied
    BY <2>2 DEF Copied
  <2>5. Tables'
    BY <1>0, <1>1, <2>2, <2>3, <2>4, TableKept DEF BatchDone, Tables, Seated
  <2>. QED  BY <1>0, <1>1, <2>5, LedgerKept DEF BatchDone, Accounts, At
<1>2. ASSUME NEW w \in settling, Settle(w) PROVE Accounts'
  <2>. DEFINE m == w[1]
  <2>1. settling' = settling \ {w} /\ UNCHANGED copying
    BY <1>2 DEF Settle
  <2>2. m \in Copying /\ m.file \in Copied
    BY CopyingIs DEF Copied, FilesIn
  <2>3. Copying' = Copying \ {m}
    BY <1>0, <1>2, SettleTakes DEF Tables
  <2>4. Distinct(Copying') /\ Copied' = Copied \ {m.file}
    BY <1>0, <2>2, <2>3, TakeOut DEF Tables, Copied
  <2>5. CopiesApart'
    BY <1>0, <2>1 DEF Tables, CopiesApart
  <2>6. PICK ok \in SUBSET {m.file} : FileTerminal(ok, {m.file} \ ok)
    <3>1. CASE FileTerminal({m.file}, {})
      BY <3>1
    <3>2. CASE FileTerminal({}, {m.file})
      BY <3>2
    <3>. QED  BY <1>2, <3>1, <3>2 DEF Settle
  <2>7. Ledger' /\ live' = live \ {m.file}
    <3>1. ok \in SUBSET live
      BY <1>0, <2>2 DEF Tables, Seated
    <3>. QED  BY <1>0, <1>2, <2>6, <3>1, LedgerEnds DEF Settle
  <2>8. Tables'
    BY <1>0, <1>2, <2>2, <2>4, <2>5, <2>7, TableKept DEF Settle, Tables, Seated
  <2>. QED  BY <2>7, <2>8 DEF Accounts
<1>3. ASSUME NEW op \in storeOps, OnStoreCopyDone(op) PROVE Accounts'
  <2>. DEFINE up == [op EXCEPT !.stage = "write"]
              rest == storeOps \ {op}
  <2>1. storeOps' = rest \cup {up} /\ up.file = op.file
    BY <1>3 DEF OnStoreCopyDone, TypeOK, TransferTypes, StoreOp
  <2>2. Distinct(rest) /\ FilesIn(rest) = Writing \ {op.file} /\ op.file \in Writing
    BY <1>0, TakeOut DEF Tables, Writing, FilesIn
  <2>3. Distinct(storeOps') /\ Writing' = Writing
    <3>. HIDE DEF up, rest
    <3>1. Distinct({up}) /\ FilesIn({up}) = {op.file}
      BY <2>1, OneEntry
    <3>2. Distinct(rest \cup {up}) /\ FilesIn(rest \cup {up}) = FilesIn(rest) \cup {op.file}
      BY <2>2, <3>1, PutIn
    <3>. QED  BY <2>1, <2>2, <3>2 DEF Writing
  <2>4. Tables'
    BY <1>0, <1>3, <2>3, TableKept DEF OnStoreCopyDone, Tables, Seated
  <2>. QED  BY <1>0, <1>3, <2>4, LedgerKept DEF OnStoreCopyDone, Accounts, At
<1>4. ASSUME NEW op \in storeOps, OnStoreCopyFailed(op) PROVE Accounts'
  <2>1. storeOps' = storeOps \ {op} /\ FileTerminal({}, {op.file})
    BY <1>4 DEF OnStoreCopyFailed, StoreFileFails
  <2>2. Distinct(storeOps') /\ Writing' = Writing \ {op.file}
    BY <1>0, <2>1, TableTakes DEF Tables
  <2>3. Ledger' /\ live' = live \ {op.file}
    BY <1>0, <1>4, <2>1, LedgerFails DEF OnStoreCopyFailed, At
  <2>4. op.file \in Writing
    BY DEF Writing, FilesIn
  <2>5. Tables'
    BY <1>0, <1>4, <2>2, <2>3, <2>4, TableKept DEF OnStoreCopyFailed, StoreFileFails, Tables,
       Seated
  <2>. QED  BY <2>3, <2>5 DEF Accounts
<1>. QED  BY <1>1, <1>2, <1>3, <1>4

\* A preload that ends without its bytes fails the loads parked on it.
LEMMA WaitersFail ==
  ASSUME TypeOK, Provenance, Tables, Ledger, NEW h \in Hashes, FileTerminal({}, waiters[h]),
         waiters' = [waiters EXCEPT ![h] = {}],
         UNCHANGED <<next, active, storing, opens, readyLoad, reads, storeOps, copying,
                     settling>>
  PROVE  Accounts'
<1>1. Ledger' /\ live' = live \ waiters[h]
  BY LedgerFails
<1>2. Waiting' = Waiting \ waiters[h] /\ waiters[h] \subseteq Waiting
  BY WaitersOut DEF TypeOK, Provenance
<1>3. Tables'
  BY <1>1, <1>2, TableKept DEF Tables, Seated
<1>. QED  BY <1>1, <1>3 DEF Accounts

LEMMA PollFiles ==
  ASSUME TypeOK, Provenance, Accounts,
         \/ \E op \in storeOps : OnWriteComplete(op) \/ OnWriteFails(op)
         \/ \E o \in opens : OnOpenComplete(o) \/ OnOpenMiss(o)
         \/ \E o \in preOpens : OnPreOpenComplete(o) \/ OnPreOpenMiss(o)
         \/ \E r \in reads : OnReadComplete(r) \/ OnReadFails(r)
         \/ \E r \in preReads : OnSharedReadComplete(r) \/ OnSharedReadFails(r)
  PROVE  Accounts'
<1>0. Tables /\ Ledger /\ Alive
  <2>1. At(PollPos)
    BY DEF OnWriteComplete, OnWriteFails, OnOpenComplete, OnOpenMiss, OnPreOpenComplete,
           OnPreOpenMiss, OnReadComplete, OnReadFails, OnSharedReadComplete, OnSharedReadFails
  <2>. QED  BY <2>1 DEF Accounts, At
<1>1. ASSUME NEW op \in storeOps, OnWriteComplete(op) \/ OnWriteFails(op) PROVE Accounts'
  <2>1. storeOps' = storeOps \ {op}
    BY <1>1 DEF OnWriteComplete, OnWriteFails, StoreFileFails
  <2>2. Distinct(storeOps') /\ Writing' = Writing \ {op.file} /\ op.file \in Writing
    BY <1>0, <2>1, TableTakes DEF Tables, Writing, FilesIn
  <2>3. FileTerminal({op.file}, {}) \/ FileTerminal({}, {op.file})
    BY <1>1 DEF OnWriteComplete, OnWriteFails, StoreFileFails
  <2>4. op.file \in live
    BY <1>0, <2>2 DEF Tables, Seated
  <2>5. Ledger' /\ live' = live \ {op.file}
    <3>1. UNCHANGED <<next, active, storing>>
      BY <1>1 DEF OnWriteComplete, OnWriteFails, At
    <3>2. CASE FileTerminal({op.file}, {})
      BY <1>0, <2>4, <3>1, <3>2, LedgerEnds
    <3>3. CASE FileTerminal({}, {op.file})
      BY <1>0, <3>1, <3>3, LedgerFails
    <3>. QED  BY <2>3, <3>2, <3>3
  <2>6. UNCHANGED <<opens, readyLoad, reads, waiters, copying, settling>>
    BY <1>1 DEF OnWriteComplete, OnWriteFails, StoreFileFails
  <2>7. Tables'
    BY <1>0, <2>2, <2>5, <2>6, TableKept DEF Tables, Seated
  <2>. QED  BY <2>5, <2>7 DEF Accounts
<1>2. ASSUME NEW o \in opens, OnOpenComplete(o) PROVE Accounts'
  <2>1. opens' = opens \ {o} /\ readyLoad' = readyLoad \cup {o.file}
    BY <1>2 DEF OnOpenComplete
  <2>2. Distinct(opens') /\ Opening' = Opening \ {o.file} /\ o.file \in Opening
    BY <1>0, <2>1, TableTakes DEF Tables, Opening, FilesIn
  <2>3. Tables'
    BY <1>0, <1>2, <2>1, <2>2, TableKept DEF OnOpenComplete, Tables, Seated
  <2>. QED  BY <1>0, <1>2, <2>3, LedgerKept DEF OnOpenComplete, Accounts, At
<1>3. ASSUME NEW o \in opens, OnOpenMiss(o) PROVE Accounts'
  <2>1. opens' = opens \ {o} /\ FileTerminal({}, {o.file})
    BY <1>3 DEF OnOpenMiss
  <2>2. Distinct(opens') /\ Opening' = Opening \ {o.file} /\ o.file \in Opening
    BY <1>0, <2>1, TableTakes DEF Tables, Opening, FilesIn
  <2>3. Ledger' /\ live' = live \ {o.file}
    BY <1>0, <1>3, <2>1, LedgerFails DEF OnOpenMiss, At
  <2>4. Tables'
    BY <1>0, <1>3, <2>2, <2>3, TableKept DEF OnOpenMiss, Tables, Seated
  <2>. QED  BY <2>3, <2>4 DEF Accounts
<1>4. ASSUME NEW o \in preOpens, OnPreOpenComplete(o) PROVE Accounts'
  BY <1>0, <1>4, LedgerKept, AccountsKept DEF OnPreOpenComplete, At
<1>5. ASSUME NEW o \in preOpens, OnPreOpenMiss(o) PROVE Accounts'
  <2>1. o.hash \in Hashes
    BY DEF TypeOK, PreloadTypes, PreOpen
  <2>. QED  BY <1>0, <1>5, <2>1, WaitersFail DEF OnPreOpenMiss, At
<1>6. ASSUME NEW r \in reads, OnReadComplete(r) PROVE Accounts'
  <2>. DEFINE m == [file |-> r.file, slot |-> r.slot, src |-> "own"]
  <2>1. /\ reads' = reads \ {r} /\ copyReady' = copyReady \cup {m}
        /\ UNCHANGED <<opens, readyLoad, storeOps, waiters, batches, settling>>
    BY <1>6 DEF OnReadComplete
  <2>2. Distinct(reads') /\ Reading' = Reading \ {r.file} /\ r.file \in Reading
    BY <1>0, <2>1, TableTakes DEF Tables, Reading, FilesIn
  <2>3. Distinct({m}) /\ FilesIn({m}) = {r.file}
    BY OneEntry
  <2>4. {r.file} \cap Copied = {}
    BY <1>0, <2>2 DEF Tables, Seated
  <2>5. Distinct(Copying') /\ CopiesApart' /\ Copied' = Copied \cup {r.file}
    <3>. HIDE DEF m
    <3>. QED  BY <1>0, <2>1, <2>3, <2>4, CopiesIn DEF Tables
  <2>6. Tables'
    BY <1>0, <1>6, <2>1, <2>2, <2>5, TableKept DEF OnReadComplete, Tables, Seated
  <2>. QED  BY <1>0, <1>6, <2>6, LedgerKept DEF OnReadComplete, Accounts, At
<1>7. ASSUME NEW r \in reads, OnReadFails(r) PROVE Accounts'
  <2>1. reads' = reads \ {r} /\ FileTerminal({}, {r.file})
    BY <1>7 DEF OnReadFails
  <2>2. Distinct(reads') /\ Reading' = Reading \ {r.file} /\ r.file \in Reading
    BY <1>0, <2>1, TableTakes DEF Tables, Reading, FilesIn
  <2>3. Ledger' /\ live' = live \ {r.file}
    BY <1>0, <1>7, <2>1, LedgerFails DEF OnReadFails, At
  <2>4. Tables'
    BY <1>0, <1>7, <2>2, <2>3, TableKept DEF OnReadFails, Tables, Seated
  <2>. QED  BY <2>3, <2>4 DEF Accounts
<1>8. ASSUME NEW r \in preReads, OnSharedReadComplete(r) PROVE Accounts'
  <2>. DEFINE h == r.hash
  <2>1. h \in Hashes
    BY DEF TypeOK, PreloadTypes, PreRead
  <2>2. PICK bad \in SUBSET waiters[h] :
          /\ copyReady' = copyReady \cup
               {[file |-> f, slot |-> r.slot, src |-> "shared"] : f \in waiters[h] \ bad}
          /\ FileTerminal({}, bad)
    BY <1>8 DEF OnSharedReadComplete
  <2>. DEFINE good == waiters[h] \ bad
              new == {[file |-> f, slot |-> r.slot, src |-> "shared"] : f \in good}
  <2>3. /\ waiters' = [waiters EXCEPT ![h] = {}]
        /\ UNCHANGED <<next, active, storing, opens, readyLoad, reads, storeOps, batches, settling>>
    BY <1>8 DEF OnSharedReadComplete, At
  <2>4. Waiting' = Waiting \ waiters[h] /\ waiters[h] \subseteq Waiting
    BY <2>1, <2>3, WaitersOut DEF TypeOK, Provenance
  <2>5. Ledger' /\ live' = live \ bad
    BY <1>0, <2>2, <2>3, LedgerFails
  <2>6. Distinct(new) /\ FilesIn(new) = good
    <3>1. ASSUME NEW x \in new
          PROVE  x.file \in good /\ x = [file |-> x.file, slot |-> r.slot, src |-> "shared"]
      <4>1. PICK f \in good : x = [file |-> f, slot |-> r.slot, src |-> "shared"]
        OBVIOUS
      <4>. QED  BY <4>1
    <3>2. ASSUME NEW f \in good PROVE \E x \in new : x.file = f
      <4>1. [file |-> f, slot |-> r.slot, src |-> "shared"] \in new
        OBVIOUS
      <4>. QED  BY <4>1
    <3>. HIDE DEF new, good
    <3>3. \A f : f \in FilesIn(new) <=> f \in good
      BY <3>1, <3>2 DEF FilesIn
    <3>4. Distinct(new)
      BY <3>1 DEF Distinct
    <3>. QED  BY <3>3, <3>4
  <2>7. Distinct(Copying') /\ CopiesApart' /\ Copied' = Copied \cup good
    <3>1. good \cap Copied = {}
      BY <1>0, <2>4 DEF Tables, Seated
    <3>2. copyReady' = copyReady \cup new
      BY <2>2
    <3>. HIDE DEF new, good
    <3>. QED  BY <1>0, <2>3, <2>6, <3>1, <3>2, CopiesIn DEF Tables
  <2>8. Tables'
    BY <1>0, <2>3, <2>4, <2>5, <2>7, TableKept DEF Tables, Seated
  <2>. QED  BY <2>5, <2>8 DEF Accounts
<1>9. ASSUME NEW r \in preReads, OnSharedReadFails(r) PROVE Accounts'
  <2>1. r.hash \in Hashes
    BY DEF TypeOK, PreloadTypes, PreRead
  <2>. QED  BY <1>0, <1>9, <2>1, WaitersFail DEF OnSharedReadFails, At
<1>. QED  BY <1>1, <1>2, <1>3, <1>4, <1>5, <1>6, <1>7, <1>8, <1>9

LEMMA ReadyFiles ==
  ASSUME TypeOK, Accounts, NEW f \in readyLoad, NEW s \in Slots,
         SubmitRead(f, s) \/ SubmitReadRefused(f, s)
  PROVE  Accounts'
<1>0. Tables /\ Ledger
  BY DEF Accounts, SubmitRead, SubmitReadRefused, At
<1>1. CASE SubmitRead(f, s)
  <2>. DEFINE r == [file |-> f, slot |-> s]
  <2>1. reads' = reads \cup {r} /\ readyLoad' = readyLoad \ {f} /\ r.file = f
    BY <1>1 DEF SubmitRead
  <2>2. f \notin Reading
    BY <1>0 DEF Tables, Seated
  <2>3. Distinct(reads') /\ Reading' = Reading \cup {f}
    <3>. HIDE DEF r
    <3>. QED  BY <1>0, <2>1, <2>2, TablePuts DEF Tables
  <2>4. Tables'
    BY <1>0, <1>1, <2>1, <2>3, TableKept DEF SubmitRead, Tables, Seated
  <2>. QED  BY <1>0, <1>1, <2>4, LedgerKept DEF SubmitRead, Accounts, At
<1>2. CASE SubmitReadRefused(f, s)
  <2>1. Ledger' /\ live' = live \ {f}
    BY <1>0, <1>2, LedgerFails DEF SubmitReadRefused, At
  <2>2. readyLoad' = readyLoad \ {f}
    BY <1>2 DEF SubmitReadRefused
  <2>3. Tables'
    BY <1>0, <1>2, <2>1, <2>2, TableKept DEF SubmitReadRefused, Tables, Seated
  <2>. QED  BY <2>1, <2>3 DEF Accounts
<1>. QED  BY <1>1, <1>2

\* A file whose scheduling fails at once never enters a table.
LEMMA StartFails ==
  ASSUME TypeOK, Accounts, NEW k \in 1..Len(order), LoadAt(k) \/ StoreAt(k),
         FileTerminal({}, {NextFile(order[k])}),
         UNCHANGED <<active, opens, readyLoad, reads, storeOps, waiters, copying, settling>>
  PROVE  Accounts'
<1>1. UNCHANGED <<mode, storing>>
  BY DEF LoadAt, StoreAt, At
<1>2. NextFile(order[k]) \notin live
  BY TurnNew DEF Accounts
<1>3. live' = live
  BY <1>2 DEF FileTerminal
<1>4. Ledger'
  BY <1>1, LedgerStart DEF Accounts
<1>. QED  BY <1>1, <1>3, <1>4, AccountsKept

LEMMA LoadScheduleFiles ==
  ASSUME TypeOK, Accounts, NEW k \in 1..Len(order),
         \/ ScheduleCacheHit(k) \/ SharedClaimFromCache(k) \/ SharedClaimFails(k)
         \/ SchedulePreloadInflight(k) \/ PromotePendingToSharedRead(k)
         \/ SubmitOpenRead(k)
  PROVE  Accounts'
<1>. DEFINE f == NextFile(order[k])
            h == H(f)
<1>1. LoadAt(k) /\ UNCHANGED <<active, storing>>
  BY DEF ScheduleCacheHit, SharedClaimFromCache, SharedClaimFails, SchedulePreloadInflight,
         PromotePendingToSharedRead, SubmitOpenRead, LoadAt, At
<1>2. Tables /\ Ledger
  BY <1>1, TurnNew DEF Accounts, LoadAt, At
<1>3. f \notin live /\ JobKind[f[1]] = "load" /\ h \in Hashes
  BY <1>1, <1>2, TurnNew, TurnFile
<1>4. f \notin Opening /\ f \notin Waiting /\ f \notin Copied
  BY <1>2, <1>3 DEF Tables, Seated
<1>5. Start(f) => Ledger' /\ live' = live \cup {f}
  BY <1>1, <1>2, LedgerStart DEF Start
<1>. HIDE DEF f, h
<1>6. ASSUME NEW m, m.file = f, copyReady' = copyReady \cup {m}, Start(f),
             UNCHANGED <<opens, readyLoad, reads, storeOps, waiters, batches, settling>>
      PROVE  Accounts'
  <2>1. Distinct(Copying') /\ CopiesApart' /\ Copied' = Copied \cup {f}
    <3>1. Distinct({m}) /\ FilesIn({m}) = {f}
      BY <1>6, OneEntry
    <3>2. {f} \cap Copied = {}
      BY <1>4
    <3>. QED  BY <1>2, <1>6, <3>1, <3>2, CopiesIn DEF Tables
  <2>2. Tables'
    BY <1>2, <1>3, <1>5, <1>6, <2>1, TableKept DEF Tables, Seated
  <2>. QED  BY <1>5, <1>6, <2>2 DEF Accounts
<1>7. CASE ScheduleCacheHit(k)
  <2>. DEFINE m == [file |-> f, slot |-> cache[h], src |-> "cache"]
  <2>1. CASE Start(f) /\ copyReady' = copyReady \cup {m}
    <3>1. m.file = f
      OBVIOUS
    <3>2. UNCHANGED <<opens, readyLoad, reads, storeOps, waiters, batches, settling>>
      BY <1>7 DEF ScheduleCacheHit
    <3>. HIDE DEF m
    <3>. QED  BY <1>6, <2>1, <3>1, <3>2
  <2>2. CASE FileTerminal({}, {f}) /\ UNCHANGED <<copies, copyReady>>
    BY <1>1, <1>7, <2>2, StartFails DEF ScheduleCacheHit, f
  <2>. QED  BY <1>7, <2>1, <2>2 DEF ScheduleCacheHit, f, h
<1>8. CASE SharedClaimFromCache(k)
  <2>. DEFINE m == [file |-> f, slot |-> sharedCached[h], src |-> "shared"]
  <2>1. Start(f) /\ copyReady' = copyReady \cup {m}
    BY <1>8 DEF SharedClaimFromCache, f, h
  <2>2. m.file = f
    OBVIOUS
  <2>3. UNCHANGED <<opens, readyLoad, reads, storeOps, waiters, batches, settling>>
    BY <1>8 DEF SharedClaimFromCache
  <2>. HIDE DEF m
  <2>. QED  BY <1>6, <2>1, <2>2, <2>3
<1>9. CASE SharedClaimFails(k)
  <2>1. FileTerminal({}, {f}) /\ UNCHANGED <<opens, readyLoad, reads, storeOps, waiters, copying, settling>>
    BY <1>9 DEF SharedClaimFails, f
  <2>. QED  BY <1>1, <2>1, StartFails DEF f
<1>10. CASE SchedulePreloadInflight(k) \/ PromotePendingToSharedRead(k)
  <2>1. /\ waiters' = [waiters EXCEPT ![h] = @ \cup {f}] /\ Start(f)
        /\ UNCHANGED <<opens, readyLoad, reads, storeOps, copying, settling>>
    BY <1>10 DEF SchedulePreloadInflight, PromotePendingToSharedRead, f, h
  <2>2. Waiting' = Waiting \cup {f}
    BY <1>3, <2>1, WaiterIn DEF TypeOK
  <2>3. Tables'
    BY <1>2, <1>3, <1>5, <2>1, <2>2, TableKept DEF Tables, Seated
  <2>. QED  BY <1>5, <2>1, <2>3 DEF Accounts
<1>11. CASE SubmitOpenRead(k)
  <2>. DEFINE o == [file |-> f, hash |-> h, had |-> h \in stored]
  <2>1. UNCHANGED <<readyLoad, reads, storeOps, waiters, copying, settling>>
    BY <1>11 DEF SubmitOpenRead
  <2>2. CASE opens' = opens \cup {o} /\ Start(f)
    <3>1. Distinct(opens') /\ Opening' = Opening \cup {f}
      <4>1. o.file = f
        OBVIOUS
      <4>. HIDE DEF o
      <4>. QED  BY <1>2, <1>4, <2>2, <4>1, TablePuts DEF Tables
    <3>2. Tables'
      BY <1>2, <1>3, <1>5, <2>1, <2>2, <3>1, TableKept DEF Tables, Seated
    <3>. QED  BY <1>5, <2>2, <3>2 DEF Accounts
  <2>3. CASE FileTerminal({}, {f}) /\ UNCHANGED opens
    BY <1>1, <2>1, <2>3, StartFails DEF f
  <2>. QED  BY <1>11, <2>2, <2>3 DEF SubmitOpenRead, f, h
<1>. QED  BY <1>7, <1>8, <1>9, <1>10, <1>11

LEMMA StoreScheduleFiles ==
  ASSUME TypeOK, Accounts, NEW k \in 1..Len(order), NEW s \in Slots,
         ScheduleStoreCopy(k, s) \/ ScheduleStoreCopyFails(k, s)
  PROVE  Accounts'
<1>. DEFINE f == NextFile(order[k])
<1>1. StoreAt(k) /\ UNCHANGED <<active, storing>>
  BY DEF ScheduleStoreCopy, ScheduleStoreCopyFails, StoreAt, At
<1>2. Tables /\ Ledger
  BY <1>1, TurnNew DEF Accounts, StoreAt, At
<1>3. f \notin live /\ JobKind[f[1]] = "store"
  BY <1>1, <1>2, TurnNew
<1>4. CASE ScheduleStoreCopy(k, s)
  <2>. DEFINE op == [file |-> f, slot |-> s, stage |-> "copy"]
  <2>1. storeOps' = storeOps \cup {op} /\ op.file = f /\ Start(f)
    BY <1>4 DEF ScheduleStoreCopy
  <2>2. Ledger' /\ live' = live \cup {f}
    BY <1>1, <1>2, <2>1, LedgerStart DEF Start
  <2>3. Distinct(storeOps') /\ Writing' = Writing \cup {f}
    <3>1. f \notin Writing
      BY <1>2, <1>3 DEF Tables, Seated
    <3>. HIDE DEF op, f
    <3>. QED  BY <1>2, <2>1, <3>1, TablePuts DEF Tables
  <2>4. UNCHANGED <<opens, readyLoad, reads, waiters, copying, settling>>
    BY <1>4 DEF ScheduleStoreCopy
  <2>5. Tables'
    <3>. HIDE DEF op, f
    <3>. QED  BY <1>2, <1>3, <2>2, <2>3, <2>4, TableKept DEF Tables, Seated
  <2>. QED  BY <2>2, <2>5 DEF Accounts
<1>5. CASE ScheduleStoreCopyFails(k, s)
  <2>1. /\ FileTerminal({}, {f})
        /\ UNCHANGED <<opens, readyLoad, reads, storeOps, waiters, copying, settling>>
    BY <1>5 DEF ScheduleStoreCopyFails
  <2>. QED  BY <1>1, <2>1, StartFails
<1>. QED  BY <1>4, <1>5

LEMMA SpeculativeFiles ==
  ASSUME TypeOK, Provenance, Accounts,
         \/ \E s \in Slots : SubmitPreloadRead(s) \/ SubmitPreloadReadRefused(s)
         \/ YieldOpenFd \/ DropCancelled \/ DeferOnWrite \/ OpenSpeculative
  PROVE  Accounts'
<1>1. ASSUME NEW s \in Slots, SubmitPreloadRead(s) PROVE Accounts'
  BY <1>1, LedgerKept, AccountsKept DEF SubmitPreloadRead, ReadHead, At, Accounts
<1>2. ASSUME NEW s \in Slots, SubmitPreloadReadRefused(s) PROVE Accounts'
  <2>. DEFINE h == Head(preReady)
  <2>1. h \in Hashes
    <3>1. preReady \in Seq(Hashes) /\ preReady # <<>>
      BY <1>2 DEF SubmitPreloadReadRefused, ReadHead, TypeOK, PreloadTypes
    <3>. QED  BY <3>1, HeadTailProperties
  <2>2. /\ FileTerminal({}, waiters[h]) /\ waiters' = [waiters EXCEPT ![h] = {}]
        /\ UNCHANGED <<next, active, storing, opens, readyLoad, reads, storeOps, copying, settling>>
    BY <1>2 DEF SubmitPreloadReadRefused, ReadHead, At
  <2>3. Tables /\ Ledger
    BY <1>2 DEF Accounts, SubmitPreloadReadRefused, ReadHead, At
  <2>. QED  BY <2>1, <2>2, <2>3, WaitersFail
<1>3. CASE YieldOpenFd \/ DropCancelled \/ DeferOnWrite \/ OpenSpeculative
  <2>1. /\ UNCHANGED <<mode, active, storing, opens, readyLoad, reads, storeOps, waiters, copying,
                       settling>>
        /\ UNCHANGED <<live, done, future, next>>
    BY <1>3 DEF YieldOpenFd, DropCancelled, DeferOnWrite, OpenSpeculative, At
  <2>. QED  BY <2>1, LedgerKept, AccountsKept DEF Accounts
<1>. QED  BY <1>1, <1>2, <1>3

LEMMA TurnEndFiles ==
  ASSUME TypeOK, Accounts, FlushCopyBatch \/ EndTurn \/ Exit \/ FailEverything
  PROVE  Accounts'
<1>1. CASE FlushCopyBatch
  <2>1. Tables /\ settling = {} /\ copyReady' = {} /\ copyReady # {}
    BY <1>1 DEF FlushCopyBatch, At, Quiet, Accounts
  <2>2. Copying' = Copying /\ CopiesApart'
    <3>0. Copying' = Copying
      BY <1>1, FlushMoves
    <3>1. CASE batches' = batches \cup {copyReady} /\ UNCHANGED settling
      BY <2>1, <3>0, <3>1 DEF CopiesApart, Tables
    <3>2. CASE settling' = {<<m, FALSE>> : m \in copyReady} /\ UNCHANGED batches
      <4>1. ASSUME NEW w \in settling' PROVE w[1] \in copyReady /\ w = <<w[1], FALSE>>
        <5>1. PICK m \in copyReady : w = <<m, FALSE>>
          BY <3>2, <4>1
        <5>. QED  BY <5>1
      <4>. QED  BY <2>1, <3>0, <3>2, <4>1 DEF CopiesApart, Tables
    <3>. QED  BY <1>1, <3>1, <3>2 DEF FlushCopyBatch
  <2>3. Copied' = Copied
    BY <2>2 DEF Copied
  <2>4. Tables'
    BY <1>1, <2>1, <2>2, <2>3, TableKept DEF FlushCopyBatch, Tables, Seated
  <2>. QED  BY <1>1, <2>4, LedgerKept DEF FlushCopyBatch, Accounts, At
<1>2. CASE EndTurn
  BY <1>2, LedgerKept, AccountsKept DEF EndTurn, Accounts
<1>3. CASE Exit
  BY <1>3, LedgerKept DEF Exit, Accounts, Alive
<1>4. CASE FailEverything
  <2>1. Ledger'
    <3>. USE DEF TypeOK, JobTypes
    <3>1. \A f \in live \cup done : f[1] \in Jobs
      BY FileFacts
    <3>2. /\ active' = {} /\ storing' = {} /\ UNCHANGED <<live, done, next>>
          /\ \A j \in Jobs : future'[j] = IF j \in Abandoned /\ future[j] = "pending"
                                          THEN "error" ELSE future[j]
      BY <1>4 DEF FailEverything, Quiet
    <3>. QED  BY <3>1, <3>2 DEF Ledger, Accounts, FilesOf, Started
  <2>. QED  BY <1>4, <2>1 DEF FailEverything, Accounts, Alive
<1>. QED  BY <1>1, <1>2, <1>3, <1>4

LEMMA StepFiles == TypeOK /\ Provenance /\ Accounts /\ [Next]_vars => Accounts'
<1>. SUFFICES ASSUME TypeOK, Provenance, Accounts, [Next]_vars PROVE Accounts'
  OBVIOUS
<1>1. CASE Client
  BY <1>1, ClientFiles
<1>2. CASE FailEverything
  BY <1>2, TurnEndFiles
<1>3. CASE Work
  BY <1>3, IntakeWorkFiles, CudaFiles, PollFiles, ReadyFiles, LoadScheduleFiles,
     StoreScheduleFiles, SpeculativeFiles, TurnEndFiles DEF Work
<1>4. CASE UNCHANGED vars
  BY <1>4, LedgerKept, AccountsKept DEF vars, Accounts
<1>. QED  BY <1>1, <1>2, <1>3, <1>4 DEF Next

-----------------------------------------------------------------------------
\* Every file the scheduler has taken up and not yet ended is in exactly one
\* table of the reactor, over every error path, and no other file is: each
\* job hears of each of its files exactly once.
THEOREM EachFileOnce == Spec => []FilesPartition
<1>. QED  BY InitTypes, StepTypes, InitProv, StepProv, InitFiles, StepFiles, SeatsBalance,
             PTL DEF Spec

-----------------------------------------------------------------------------
(* Nobody waits for a thread that is gone.                                  *)

\* Whoever waits is in the reactor's hands: his job is active or is just
\* being taken in, and there is a thread.
Awaited ==
  /\ \A f, g \in storing : f = g
  /\ \A j \in Jobs : future[j] = "pending" =>
       Alive /\ (j \in active \/ \E f \in storing : f[1] = j)

NoneAdded == \A j \in Jobs : future'[j] = "pending" => future[j] = "pending"

LEMMA AwaitedKept ==
  ASSUME Awaited, UNCHANGED <<mode, active, storing>>, NoneAdded
  PROVE  Awaited'
BY DEF Awaited, NoneAdded, Alive

LEMMA TerminalAddsNone ==
  ASSUME TypeOK, NEW ok, NEW bad, FileTerminal(ok, bad)
  PROVE  NoneAdded
BY DEF FileTerminal, NoneAdded

LEMMA StartAddsNone ==
  ASSUME NEW f, Start(f) \/ UNCHANGED future
  PROVE  NoneAdded
BY DEF Start, NoneAdded

\* A job is awaited from its intake on, and a store's intake ends in _active.
LEMMA ClientAwaited ==
  ASSUME TypeOK, Awaited, Client
  PROVE  Awaited'
<1>. USE DEF TypeOK, JobTypes
<1>1. ASSUME NEW p \in Preloads, AskPreload(p) PROVE Awaited'
  <2>1. UNCHANGED <<mode, active, storing, future>>
    BY <1>1 DEF AskPreload
  <2>. QED  BY <2>1, AwaitedKept DEF NoneAdded
<1>2. ASSUME NEW j \in Jobs, IntakeLoad(j) PROVE Awaited'
  <2>1. Alive /\ UNCHANGED <<mode, storing>>
    BY <1>2 DEF IntakeLoad, CanIntake, Alive
  <2>2. CASE future' = [future EXCEPT ![j] = "declined"] /\ UNCHANGED active
    BY <2>1, <2>2, AwaitedKept DEF NoneAdded
  <2>3. CASE future' = [future EXCEPT ![j] = "pending"] /\ active' = active \cup {j}
    BY <2>1, <2>3 DEF Awaited, Alive
  <2>. QED  BY <1>2, <2>2, <2>3 DEF IntakeLoad
<1>3. ASSUME NEW j \in Jobs, IntakeStore(j) PROVE Awaited'
  <2>1. /\ Alive /\ storing = {} /\ UNCHANGED <<mode, active>>
        /\ storing' = {<<j, 1>>} /\ future' = [future EXCEPT ![j] = "pending"]
    BY <1>3 DEF IntakeStore, CanIntake, Alive, Quiet
  <2>2. <<j, 1>>[1] = j
    OBVIOUS
  <2>. QED  BY <2>1, <2>2 DEF Awaited, Alive
<1>4. ASSUME NEW j \in Jobs, SubmitClosed(j) PROVE Awaited'
  <2>1. UNCHANGED <<mode, active, storing>> /\ future' = [future EXCEPT ![j] = "error"]
    BY <1>4 DEF SubmitClosed
  <2>. QED  BY <2>1, AwaitedKept DEF NoneAdded
<1>5. CASE Stop
  <2>1. /\ mode = "run" /\ mode' = "stopping" /\ UNCHANGED <<active, storing>>
        /\ FileTerminal({}, UNION {waiters[h] : h \in Hashes})
    BY <1>5 DEF Stop, CanIntake
  <2>2. NoneAdded
    BY <2>1, TerminalAddsNone
  <2>. QED  BY <2>1, <2>2 DEF Awaited, NoneAdded, Alive
<1>. QED  BY <1>1, <1>2, <1>3, <1>4, <1>5 DEF Client

LEMMA IntakeTurnAwaited ==
  ASSUME TypeOK, Awaited,
         \/ \E a \in asking : PreloadHash(a)
         \/ \E f \in storing : StoreHash(f)
         \/ EndTurn \/ Exit \/ FailEverything
  PROVE  Awaited'
<1>. USE DEF TypeOK, JobTypes
<1>1. ASSUME NEW a \in asking, PreloadHash(a) PROVE Awaited'
  <2>1. UNCHANGED <<mode, active, storing, future>>
    BY <1>1 DEF PreloadHash
  <2>. QED  BY <2>1, AwaitedKept DEF NoneAdded
<1>2. ASSUME NEW f \in storing, StoreHash(f) PROVE Awaited'
  <2>1. Alive /\ UNCHANGED <<mode, future>>
    BY <1>2 DEF StoreHash
  <2>2. CASE storing' = {} /\ active' = active \cup {f[1]}
    BY <1>2, <2>1, <2>2 DEF Awaited, Alive
  <2>3. CASE storing' = {<<f[1], f[2] + 1>>} /\ UNCHANGED active
    <3>1. <<f[1], f[2] + 1>>[1] = f[1]
      OBVIOUS
    <3>. QED  BY <1>2, <2>1, <2>3, <3>1 DEF Awaited, Alive
  <2>. QED  BY <1>2, <2>2, <2>3 DEF StoreHash
<1>3. CASE EndTurn
  <2>1. /\ UNCHANGED <<mode, storing, future>>
        /\ \A j \in active : future[j] = "pending" => j \in active'
    BY <1>3 DEF EndTurn, Drained, Resolved
  <2>. QED  BY <2>1 DEF Awaited, Alive
<1>4. CASE Exit
  <2>1. active = {} /\ storing = {} /\ UNCHANGED <<active, storing, future>>
    BY <1>4 DEF Exit, HasWork, Quiet
  <2>. QED  BY <2>1 DEF Awaited
<1>5. CASE FailEverything
  <2>1. /\ storing = {} /\ UNCHANGED storing
        /\ \A j \in Jobs : future'[j] = IF j \in Abandoned /\ future[j] = "pending"
                                        THEN "error" ELSE future[j]
    BY <1>5 DEF FailEverything, Quiet
  <2>2. active \subseteq Abandoned
    BY DEF Abandoned
  <2>. QED  BY <2>1, <2>2 DEF Awaited
<1>. QED  BY <1>1, <1>2, <1>3, <1>4, <1>5

\* The steps of a turn in between answer jobs and take none up.
LEMMA TurnAddsNone ==
  ASSUME TypeOK, Work,
         ~(\E a \in asking : PreloadHash(a)), ~(\E f \in storing : StoreHash(f)),
         ~EndTurn, ~Exit
  PROVE  UNCHANGED <<mode, active, storing>> /\ NoneAdded
<1>. DEFINE Goal == UNCHANGED <<mode, active, storing>> /\ NoneAdded
<1>1. ASSUME \/ \E b \in batches : BatchDone(b)
             \/ \E op \in storeOps : OnStoreCopyDone(op)
             \/ \E o \in opens : OnOpenComplete(o)
             \/ \E o \in preOpens : OnPreOpenComplete(o)
             \/ \E r \in reads : OnReadComplete(r)
             \/ YieldOpenFd \/ DropCancelled \/ DeferOnWrite \/ OpenSpeculative
             \/ FlushCopyBatch
      PROVE  Goal
  <2>1. UNCHANGED <<mode, active, storing, future>>
    BY <1>1 DEF BatchDone, OnStoreCopyDone, OnOpenComplete, OnPreOpenComplete, OnReadComplete,
                YieldOpenFd, DropCancelled, DeferOnWrite, OpenSpeculative, FlushCopyBatch, At
  <2>. QED  BY <2>1 DEF NoneAdded
<1>2. ASSUME NEW w \in settling, Settle(w) PROVE Goal
  <2>1. UNCHANGED <<mode, active, storing>> /\ \E ok, bad : FileTerminal(ok, bad)
    BY <1>2 DEF Settle
  <2>. QED  BY <2>1, TerminalAddsNone
<1>3. ASSUME NEW op \in storeOps,
             OnStoreCopyFailed(op) \/ OnWriteComplete(op) \/ OnWriteFails(op)
      PROVE  Goal
  <2>1. UNCHANGED <<mode, active, storing>> /\ \E ok, bad : FileTerminal(ok, bad)
    BY <1>3 DEF OnStoreCopyFailed, OnWriteComplete, OnWriteFails, StoreFileFails, At
  <2>. QED  BY <2>1, TerminalAddsNone
<1>4. ASSUME \/ \E o \in opens : OnOpenMiss(o)
             \/ \E o \in preOpens : OnPreOpenMiss(o)
             \/ \E r \in reads : OnReadFails(r)
             \/ \E r \in preReads : OnSharedReadFails(r)
      PROVE  Goal
  <2>1. UNCHANGED <<mode, active, storing>> /\ \E bad : FileTerminal({}, bad)
    BY <1>4 DEF OnOpenMiss, OnPreOpenMiss, OnReadFails, OnSharedReadFails, At
  <2>. QED  BY <2>1, TerminalAddsNone
<1>5. ASSUME NEW r \in preReads, OnSharedReadComplete(r) PROVE Goal
  <2>1. \E bad : FileTerminal({}, bad)
    BY <1>5 DEF OnSharedReadComplete
  <2>2. UNCHANGED <<mode, active, storing>>
    BY <1>5 DEF OnSharedReadComplete, At
  <2>. QED  BY <2>1, <2>2, TerminalAddsNone
<1>6. ASSUME \/ \E f \in readyLoad, s \in Slots : SubmitRead(f, s) \/ SubmitReadRefused(f, s)
             \/ \E s \in Slots : SubmitPreloadRead(s) \/ SubmitPreloadReadRefused(s)
      PROVE  Goal
  <2>1. /\ UNCHANGED <<mode, active, storing>>
        /\ UNCHANGED future \/ \E bad : FileTerminal({}, bad)
    BY <1>6 DEF SubmitRead, SubmitReadRefused, SubmitPreloadRead, SubmitPreloadReadRefused,
                ReadHead, At
  <2>. QED  BY <2>1, TerminalAddsNone DEF NoneAdded
<1>7. ASSUME NEW k \in 1..Len(order),
             \/ ScheduleCacheHit(k) \/ SharedClaimFromCache(k) \/ SharedClaimFails(k)
             \/ SchedulePreloadInflight(k) \/ PromotePendingToSharedRead(k)
             \/ SubmitOpenRead(k)
      PROVE  Goal
  <2>1. UNCHANGED <<mode, active, storing>>
    BY <1>7 DEF ScheduleCacheHit, SharedClaimFromCache, SharedClaimFails,
                SchedulePreloadInflight, PromotePendingToSharedRead, SubmitOpenRead, LoadAt, At
  <2>2. \/ \E f : Start(f) \/ \E bad : FileTerminal({}, bad)
    BY <1>7 DEF ScheduleCacheHit, SharedClaimFromCache, SharedClaimFails,
                SchedulePreloadInflight, PromotePendingToSharedRead, SubmitOpenRead
  <2>. QED  BY <2>1, <2>2, TerminalAddsNone, StartAddsNone
<1>8. ASSUME NEW k \in 1..Len(order), NEW s \in Slots,
             ScheduleStoreCopy(k, s) \/ ScheduleStoreCopyFails(k, s)
      PROVE  Goal
  <2>1. UNCHANGED <<mode, active, storing>>
    BY <1>8 DEF ScheduleStoreCopy, ScheduleStoreCopyFails, StoreAt, At
  <2>2. \/ \E f : Start(f) \/ \E bad : FileTerminal({}, bad)
    BY <1>8 DEF ScheduleStoreCopy, ScheduleStoreCopyFails
  <2>. QED  BY <2>1, <2>2, TerminalAddsNone, StartAddsNone
<1>. HIDE DEF Goal
<1>9. Goal
  BY <1>1, <1>2, <1>3, <1>4, <1>5, <1>6, <1>7, <1>8 DEF Work
<1>. QED  BY <1>9 DEF Goal

LEMMA StepAwaited == TypeOK /\ Awaited /\ [Next]_vars => Awaited'
<1>. SUFFICES ASSUME TypeOK, Awaited, [Next]_vars PROVE Awaited'
  OBVIOUS
<1>1. CASE Client
  BY <1>1, ClientAwaited
<1>2. CASE \/ \E a \in asking : PreloadHash(a)
           \/ \E f \in storing : StoreHash(f)
           \/ EndTurn \/ Exit \/ FailEverything
  BY <1>2, IntakeTurnAwaited
<1>3. CASE Work /\ ~(\/ \E a \in asking : PreloadHash(a)
                     \/ \E f \in storing : StoreHash(f)
                     \/ EndTurn \/ Exit)
  BY <1>3, TurnAddsNone, AwaitedKept
<1>4. CASE UNCHANGED vars
  BY <1>4, AwaitedKept DEF vars, turn, intake, jobs, jobList, fileVars, NoneAdded
<1>. QED  BY <1>1, <1>2, <1>3, <1>4 DEF Next

\* No caller blocks for ever on a reactor whose thread is gone, whether it
\* died of an unguarded call or drained its tables and stopped: whatever
\* tables the files of a job are left in, its Future is set.
THEOREM DeadLeaveNobodyWaiting == Spec => []DeadAnswersAll
<1>1. Init => Awaited
  BY DEF Init, Awaited
<1>2. Awaited => DeadAnswersAll
  BY DEF Awaited, DeadAnswersAll
<1>. QED  BY <1>1, <1>2, InitTypes, StepTypes, StepAwaited, PTL DEF Spec

-----------------------------------------------------------------------------
(***************************************************************************)
(* Why a preload parked on a write has a writer: _store_inflight is the    *)
(* number of store files taken in and not yet written.  After a failed     *)
(* file it is more (_finish_jobs drops the job with its unscheduled files  *)
(* still counted, reactor.py:1366), so the faults that end a store file    *)
(* are left out; opens, reads, mappings and the thread itself may fail.    *)
(***************************************************************************)

StoresSucceed == Faults \cap {"write", "submit", "launch"} = {}

\* The files of store jobs that are counted in storeInflight, by hash: those
\* taken in that have not been written yet.
Registered(f) == \A g \in storing : g[1] = f[1] => f[2] < g[2]
Writer(f)  == StoreUnfinished(f) /\ Registered(f)
Writers(h) == {f \in Files : H(f) = h /\ Writer(f)}

\* Without failures a store job that is answered is written, or was refused
\* before any of its files was taken up.
StoreRecord(j) ==
  /\ future[j] # "declined"
  /\ future[j] = "none" => next[j] = 0
  /\ future[j] = "ok" => FilesOf(j) \subseteq done
  /\ future[j] = "error" => j \notin active /\ next[j] = 0

StoreBooks ==
  /\ \A j \in Jobs : JobKind[j] = "store" => StoreRecord(j)
  /\ \A f, g \in storing : f = g
  /\ \A f \in storing : JobKind[f[1]] = "store" /\ future[f[1]] = "pending" /\ next[f[1]] = 0
  /\ \A h \in Hashes : storeInflight[h] = Cardinality(Writers(h))
  /\ \A h \in blocked : storeInflight[h] > 0

LEMMA WritersFinite ==
  ASSUME NEW h
  PROVE  /\ IsFiniteSet(Writers(h)) /\ Cardinality(Writers(h)) \in Nat
         /\ IsFiniteSet(Writers(h)') /\ Cardinality(Writers(h)') \in Nat
<1>1. IsFiniteSet(Writers(h))
  BY FinitenessAssumption, FS_Subset DEF Writers
<1>2. IsFiniteSet(Writers(h)')
  BY FinitenessAssumption, FS_Subset DEF Writers
<1>. QED  BY <1>1, <1>2, FS_CardinalityType

\* The books see only the files of stores.
LEMMA BooksKept ==
  ASSUME TypeOK, StoreBooks, UNCHANGED <<storing, storeInflight>>,
         \A f \in Files : JobKind[f[1]] = "store" => (f \in live' <=> f \in live),
         \A j \in Jobs : JobKind[j] = "store" =>
           future'[j] = future[j] /\ next'[j] = next[j] /\ (j \in active' => j \in active),
         done \subseteq done',
         \A h \in blocked' : storeInflight[h] > 0
  PROVE  StoreBooks'
<1>1. ASSUME NEW f \in Files PROVE Writer(f)' <=> Writer(f)
  <2>1. f[1] \in Jobs
    BY FileFacts
  <2>. QED  BY <2>1 DEF Writer, StoreUnfinished, Registered
<1>2. ASSUME NEW h \in Hashes PROVE Writers(h)' = Writers(h)
  BY <1>1 DEF Writers, H
<1>3. \A j \in Jobs : JobKind[j] = "store" => StoreRecord(j)'
  BY DEF StoreBooks, StoreRecord
<1>4. \A f \in storing' : JobKind[f[1]] = "store" /\ future'[f[1]] = "pending" /\ next'[f[1]] = 0
  BY FileFacts DEF StoreBooks, TypeOK, TurnTypes
<1>. QED  BY <1>2, <1>3, <1>4 DEF StoreBooks

LEMMA BooksUnmoved ==
  ASSUME TypeOK, StoreBooks, active' \subseteq active,
         UNCHANGED <<storing, storeInflight, live, done, future, next>>,
         \A h \in blocked' : storeInflight[h] > 0
  PROVE  StoreBooks'
BY BooksKept

\* Files of loads that end, or fail.
LEMMA LoadsEnd ==
  ASSUME TypeOK, Ledger, StoreBooks, NEW ok, NEW bad, FileTerminal(ok, bad),
         \A f \in ok \cup bad : JobKind[f[1]] # "store",
         \A j \in Jobs : JobKind[j] = "store" => next'[j] = next[j],
         UNCHANGED <<storing, storeInflight, active>>,
         \A h \in blocked' : storeInflight[h] > 0
  PROVE  StoreBooks'
<1>1. \A f \in Files : JobKind[f[1]] = "store" => (f \in live' <=> f \in live)
  BY DEF FileTerminal
<1>2. ASSUME NEW j \in Jobs, JobKind[j] = "store" PROVE future'[j] = future[j]
  <2>1. \A f \in FilesOf(j) : f \notin ok \cup bad
    BY <1>2, FilesOfJob
  <2>2. future[j] = "pending" => ~(FilesOf(j) \subseteq done \cup ok)
    BY <2>1 DEF Ledger
  <2>3. bad \cap FilesOf(j) = {}
    BY <2>1
  <2>. QED  BY <2>2, <2>3 DEF FileTerminal
<1>3. done \subseteq done'
  BY DEF FileTerminal
<1>. QED  BY <1>1, <1>2, <1>3, BooksKept

\* The tables of loads hold files of loads.
LEMMA LoadFiles ==
  ASSUME Tables
  PROVE  \A f \in Opening \cup readyLoad \cup Reading \cup Waiting \cup Copied :
           JobKind[f[1]] # "store"
BY DEF Tables, Seated

LEMMA ParkedWaiters ==
  ASSUME TypeOK, Tables, NEW h \in Hashes
  PROVE  \A f \in waiters[h] : JobKind[f[1]] # "store"
<1>1. waiters[h] \subseteq Waiting
  BY DEF Waiting
<1>. QED  BY <1>1, LoadFiles

LEMMA InitBooks == Init => StoreBooks
<1>. SUFFICES ASSUME Init PROVE StoreBooks
  OBVIOUS
<1>1. ASSUME NEW h \in Hashes PROVE Writers(h) = {}
  <2>1. ASSUME NEW f \in Files PROVE ~StoreUnfinished(f)
    BY FileFacts DEF Init, StoreUnfinished
  <2>. QED  BY <2>1 DEF Writers, Writer
<1>2. \A h \in Hashes : storeInflight[h] = Cardinality(Writers(h))
  BY <1>1, FS_EmptySet DEF Init
<1>. QED  BY <1>2 DEF Init, StoreBooks, StoreRecord

\* A store that is taken in is not counted yet; one that is refused never is.
LEMMA IntakeBooks ==
  ASSUME TypeOK, Ledger, StoreBooks, NEW j \in Jobs, IntakeStore(j) \/ SubmitClosed(j)
  PROVE  StoreBooks'
<1>. USE DEF TypeOK, JobTypes, TurnTypes
<1>1. /\ future[j] = "none" /\ UNCHANGED <<live, done, next, active, storeInflight, blocked>>
      /\ \A i \in Jobs : i # j => future'[i] = future[i]
  BY DEF IntakeStore, SubmitClosed
<1>2. \A f \in live : f[1] \in Jobs /\ f[1] # j
  BY <1>1, FileFacts DEF Ledger, Started
<1>3. j \notin active
  BY <1>1 DEF Ledger, Started
<1>4. CASE IntakeStore(j)
  <2>1. JobKind[j] = "store" /\ future'[j] = "pending" /\ storing = {} /\ storing' = {<<j, 1>>}
    BY <1>4 DEF IntakeStore, CanIntake, Quiet
  <2>2. next[j] = 0
    BY <1>1, <2>1 DEF StoreBooks, StoreRecord
  <2>3. ASSUME NEW f \in Files PROVE Writer(f)' <=> Writer(f)
    <3>1. f[1] \in Jobs /\ f[2] \in 1..NumFiles(f[1]) /\ NumFiles(f[1]) \in Nat
      BY FileFacts, FilesOfJob
    <3>2. CASE f[1] = j
      <4>1. ~Registered(f)'
        BY <2>1, <3>1, <3>2 DEF Registered
      <4>2. ~StoreUnfinished(f)
        BY <1>1, <1>2, <3>2 DEF StoreUnfinished
      <4>. QED  BY <4>1, <4>2 DEF Writer
    <3>3. CASE f[1] # j
      <4>1. Registered(f)' /\ Registered(f)
        BY <2>1, <3>3 DEF Registered
      <4>. QED  BY <1>1, <3>1, <3>3, <4>1 DEF Writer, StoreUnfinished
    <3>. QED  BY <3>2, <3>3
  <2>4. ASSUME NEW h \in Hashes PROVE Writers(h)' = Writers(h)
    BY <2>3 DEF Writers, H
  <2>5. \A i \in Jobs : JobKind[i] = "store" => StoreRecord(i)'
    BY <1>1, <2>1 DEF StoreBooks, StoreRecord
  <2>6. \A f \in storing' : JobKind[f[1]] = "store" /\ future'[f[1]] = "pending" /\ next'[f[1]] = 0
    BY <1>1, <2>1, <2>2
  <2>. QED  BY <1>1, <2>1, <2>4, <2>5, <2>6 DEF StoreBooks
<1>5. CASE SubmitClosed(j)
  <2>1. future'[j] = "error" /\ UNCHANGED storing
    BY <1>5 DEF SubmitClosed
  <2>2. ASSUME NEW f \in Files PROVE Writer(f)' <=> Writer(f)
    <3>1. f[1] \in Jobs
      BY FileFacts
    <3>2. Registered(f)' <=> Registered(f)
      BY <2>1 DEF Registered
    <3>3. f[1] = j => ~StoreUnfinished(f) /\ ~StoreUnfinished(f)'
      BY <1>1, <1>2, <2>1 DEF StoreUnfinished
    <3>4. f[1] # j => (StoreUnfinished(f)' <=> StoreUnfinished(f))
      BY <1>1, <3>1 DEF StoreUnfinished
    <3>. QED  BY <3>2, <3>3, <3>4 DEF Writer
  <2>3. ASSUME NEW h \in Hashes PROVE Writers(h)' = Writers(h)
    BY <2>2 DEF Writers, H
  <2>4. \A i \in Jobs : JobKind[i] = "store" => StoreRecord(i)'
    BY <1>1, <1>3, <2>1 DEF StoreBooks, StoreRecord
  <2>5. \A f \in storing : f[1] # j /\ f[1] \in Jobs
    BY <1>1, FileFacts DEF StoreBooks
  <2>6. \A f \in storing' : JobKind[f[1]] = "store" /\ future'[f[1]] = "pending" /\ next'[f[1]] = 0
    BY <1>1, <2>1, <2>5 DEF StoreBooks
  <2>. QED  BY <1>1, <2>1, <2>3, <2>4, <2>6 DEF StoreBooks
<1>. QED  BY <1>4, <1>5

LEMMA ClientBooks ==
  ASSUME TypeOK, Provenance, Tables, Ledger, StoreBooks, Client
  PROVE  StoreBooks'
<1>1. \A h \in blocked : storeInflight[h] > 0
  BY DEF StoreBooks
<1>2. ASSUME NEW p \in Preloads, AskPreload(p) PROVE StoreBooks'
  BY <1>1, <1>2, BooksUnmoved DEF AskPreload
<1>3. ASSUME NEW j \in Jobs, IntakeLoad(j) PROVE StoreBooks'
  <2>. USE DEF TypeOK, JobTypes
  <2>1. /\ JobKind[j] = "load" /\ UNCHANGED <<live, done, next, storing, storeInflight, blocked>>
        /\ \A i \in Jobs : i # j => future'[i] = future[i]
        /\ \A i \in active' : i \in active \/ i = j
    BY <1>3 DEF IntakeLoad
  <2>. QED  BY <1>1, <2>1, BooksKept
<1>4. ASSUME NEW j \in Jobs, IntakeStore(j) \/ SubmitClosed(j) PROVE StoreBooks'
  BY <1>4, IntakeBooks
<1>5. CASE Stop
  <2>1. FileTerminal({}, Waiting) /\ blocked' = {} /\ UNCHANGED <<next, storing, storeInflight, active>>
    BY <1>5 DEF Stop, Waiting
  <2>. QED  BY <2>1, LoadsEnd, LoadFiles
<1>. QED  BY <1>2, <1>3, <1>4, <1>5 DEF Client

\* One more file is counted.
LEMMA StoreHashBooks ==
  ASSUME TypeOK, Ledger, StoreBooks, NEW f \in storing, StoreHash(f)
  PROVE  StoreBooks'
<1>. USE DEF TypeOK, JobTypes, TurnTypes, TransferTypes
<1>. DEFINE j == f[1]
            h == H(f)
<1>1. f \in Files /\ j \in Jobs /\ h \in Hashes /\ f = <<j, f[2]>> /\ f[2] \in 1..NumFiles(j)
      /\ NumFiles(j) \in Nat
  BY FileFacts, FilesOfJob
<1>2. /\ storing = {f} /\ JobKind[j] = "store" /\ future[j] = "pending" /\ next[j] = 0
      /\ \A g \in live : g[1] # j
  <2>1. \A g \in live : g[1] # j
    <3>1. ASSUME NEW g \in live, g[1] = j PROVE FALSE
      <4>1. g \in Files /\ g[2] <= next[g[1]]
        BY DEF Ledger
      <4>2. g[2] \in 1..NumFiles(g[1]) /\ NumFiles(g[1]) \in Nat
        BY <4>1, FileFacts, FilesOfJob
      <4>. QED  BY <3>1, <4>1, <4>2 DEF StoreBooks
    <3>. QED  BY <3>1
  <2>. QED  BY <2>1 DEF StoreBooks
<1>3. /\ storing' = IF f[2] = NumFiles(j) THEN {} ELSE {<<j, f[2] + 1>>}
      /\ storeInflight' = [storeInflight EXCEPT ![h] = @ + 1]
      /\ blocked' \subseteq blocked \cup {h}
      /\ UNCHANGED <<live, done, future, next>>
      /\ active' \subseteq active \cup {j}
  BY DEF StoreHash
<1>4. ASSUME NEW g \in Files PROVE Writer(g)' <=> Writer(g) \/ g = f
  <2>1. g[1] \in Jobs /\ g[2] \in 1..NumFiles(g[1]) /\ NumFiles(g[1]) \in Nat /\ g = <<g[1], g[2]>>
    BY FileFacts, FilesOfJob
  <2>2. StoreUnfinished(g)' <=> StoreUnfinished(g)
    BY <1>3 DEF StoreUnfinished
  <2>3. CASE g[1] # j
    BY <1>1, <1>2, <1>3, <2>1, <2>2, <2>3 DEF Writer, Registered
  <2>4. CASE g[1] = j
    <3>1. StoreUnfinished(g)
      BY <1>2, <2>1, <2>4 DEF StoreUnfinished
    <3>2. Registered(g) <=> g[2] < f[2]
      BY <1>2, <2>4 DEF Registered
    <3>3. Registered(g)' <=> g[2] <= f[2]
      <4>1. CASE f[2] = NumFiles(j)
        <5>1. storing' = {} /\ g[2] <= f[2]
          BY <1>1, <1>3, <2>1, <2>4, <4>1
        <5>. QED  BY <5>1 DEF Registered
      <4>2. CASE f[2] # NumFiles(j)
        <5>. DEFINE e == <<j, f[2] + 1>>
        <5>1. storing' = {e} /\ e[1] = g[1] /\ e[2] = f[2] + 1
          BY <1>3, <2>4, <4>2
        <5>2. g[2] < e[2] <=> g[2] <= f[2]
          BY <1>1, <2>1, <5>1
        <5>. HIDE DEF e
        <5>. QED  BY <5>1, <5>2 DEF Registered
      <4>. QED  BY <4>1, <4>2
    <3>4. g = f <=> g[2] = f[2]
      BY <1>1, <2>1, <2>4
    <3>. QED  BY <1>1, <2>1, <2>2, <3>1, <3>2, <3>3, <3>4 DEF Writer
  <2>. QED  BY <2>3, <2>4
<1>5. ~Writer(f)
  BY <1>1, <1>2 DEF Writer, Registered
<1>6. ASSUME NEW g \in Hashes PROVE storeInflight'[g] = Cardinality(Writers(g)')
  <2>1. Writers(g)' = IF g = h THEN Writers(g) \cup {f} ELSE Writers(g)
    BY <1>1, <1>4 DEF Writers, H
  <2>2. f \notin Writers(g)
    BY <1>5 DEF Writers
  <2>3. Cardinality(Writers(g) \cup {f}) = Cardinality(Writers(g)) + 1
    BY <2>2, WritersFinite, FS_AddElement
  <2>4. storeInflight[g] = Cardinality(Writers(g)) /\ storeInflight[g] \in Nat
    BY DEF StoreBooks
  <2>. QED  BY <1>1, <1>3, <2>1, <2>3, <2>4
<1>7. \A g \in blocked' : storeInflight'[g] > 0
  BY <1>1, <1>3 DEF StoreBooks, QueueTypes
<1>8. \A i \in Jobs : JobKind[i] = "store" => StoreRecord(i)'
  BY <1>2, <1>3 DEF StoreBooks, StoreRecord
<1>9. /\ \A g \in storing' : JobKind[g[1]] = "store" /\ future'[g[1]] = "pending" /\ next'[g[1]] = 0
      /\ \A g, k \in storing' : g = k
  <2>. DEFINE e == <<j, f[2] + 1>>
  <2>1. storing' \subseteq {e} /\ e[1] = j
    BY <1>3
  <2>. HIDE DEF e
  <2>2. \A g \in storing' : g = e
    BY <2>1
  <2>. QED  BY <1>2, <1>3, <2>1, <2>2
<1>10. \A g \in Hashes : storeInflight'[g] = Cardinality(Writers(g)')
  BY <1>6
<1>. HIDE DEF TypeOK, JobTypes, TurnTypes, TransferTypes, j, h
<1>. QED  BY <1>7, <1>8, <1>9, <1>10, Zenon DEF StoreBooks

\* A write ends, and its file with it.
LEMMA WriteBooks ==
  ASSUME TypeOK, Tables, Ledger, StoreBooks, NEW op \in storeOps, OnWriteComplete(op)
  PROVE  StoreBooks'
<1>. DEFINE f == op.file
            h == H(f)
<1>1. /\ f \in Files /\ h \in Hashes /\ f \in live /\ JobKind[f[1]] = "store"
      /\ f[1] \in Jobs /\ f[2] \in 1..NumFiles(f[1]) /\ NumFiles(f[1]) \in Nat
      /\ f[2] <= next[f[1]] /\ next \in [Jobs -> Nat]
  <2>1. f \in Files /\ f \in Writing
    BY DEF TypeOK, TransferTypes, StoreOp, Writing, FilesIn
  <2>2. f \in live /\ JobKind[f[1]] = "store"
    BY <2>1 DEF Tables, Seated
  <2>. QED  BY <2>1, <2>2, FileFacts, FilesOfJob DEF Ledger, TypeOK, JobTypes
<1>2. /\ FileTerminal({f}, {}) /\ UNCHANGED <<storing, next, active>>
      /\ storeInflight' = [storeInflight EXCEPT ![h] = IF LastStore(h) THEN 0 ELSE @ - 1]
      /\ blocked' = IF LastStore(h) THEN blocked \ {h} ELSE blocked
  BY DEF OnWriteComplete, StoreInflightDone, At
<1>. HIDE DEF f, h
<1>3. /\ live' = live \ {f} /\ done' = done \cup {f}
      /\ \A j \in Jobs : future'[j] = IF future[j] # "pending" THEN future[j]
                                      ELSE IF FilesOf(j) \subseteq done' THEN "ok"
                                      ELSE "pending"
  BY <1>2 DEF FileTerminal
<1>4. \A g \in storing : g[1] \in Jobs /\ g[1] # f[1] /\ next[g[1]] = 0 /\ future[g[1]] = "pending"
  BY <1>1, FileFacts DEF StoreBooks, TypeOK, TurnTypes
<1>5. ASSUME NEW g \in Files PROVE Writer(g)' <=> Writer(g) /\ g # f
  <2>1. /\ g[1] \in Jobs /\ g \in FilesOf(g[1]) /\ g[2] \in 1..NumFiles(g[1])
        /\ NumFiles(g[1]) \in Nat
    BY FileFacts, FilesOfJob
  <2>2. Registered(g)' <=> Registered(g)
    BY <1>2 DEF Registered
  <2>3. CASE g = f
    BY <1>1, <1>2, <1>3, <2>3 DEF Writer, StoreUnfinished
  <2>4. CASE g # f
    <3>1. g[2] > next[g[1]] => g \notin done'
      BY <1>1, <1>3, <2>1, <2>4 DEF Ledger
    <3>2. g[2] > next[g[1]] => (future'[g[1]] = "pending" <=> future[g[1]] = "pending")
      BY <1>3, <2>1, <3>1
    <3>3. StoreUnfinished(g)' <=> StoreUnfinished(g)
      BY <1>2, <1>3, <2>1, <2>4, <3>2 DEF StoreUnfinished
    <3>. QED  BY <2>2, <2>4, <3>3 DEF Writer
  <2>. QED  BY <2>3, <2>4
<1>6. Writer(f)
  BY <1>1, <1>4 DEF Writer, StoreUnfinished, Registered
<1>7. ASSUME NEW g \in Hashes
      PROVE  /\ storeInflight'[g] = Cardinality(Writers(g)')
             /\ g \in blocked' => storeInflight'[g] > 0
  <2>1. storeInflight \in [Hashes -> Nat] /\ storeInflight[g] = Cardinality(Writers(g))
        /\ (g \in blocked => storeInflight[g] > 0)
    BY DEF StoreBooks, TypeOK, TransferTypes
  <2>2. CASE g = h
    <3>1. Writers(h)' = Writers(h) \ {f} /\ f \in Writers(h)
      BY <1>1, <1>5, <1>6 DEF Writers, H, h
    <3>2. /\ IsFiniteSet(Writers(h)) /\ Cardinality(Writers(h)) \in Nat
          /\ Cardinality(Writers(h)') \in Nat
      BY WritersFinite
    <3>3. Cardinality(Writers(h) \ {f}) = Cardinality(Writers(h)) - 1
      BY <3>1, <3>2, FS_RemoveElement, Zenon
    <3>. QED  BY <1>1, <1>2, <2>1, <2>2, <3>1, <3>2, <3>3 DEF LastStore
  <2>3. CASE g # h
    <3>1. Writers(g)' = Writers(g)
      BY <1>5, <2>3 DEF Writers, H, h
    <3>. QED  BY <1>2, <2>1, <2>3, <3>1
  <2>. QED  BY <2>2, <2>3
<1>8. \A j \in Jobs : JobKind[j] = "store" => StoreRecord(j)'
  <2>. SUFFICES ASSUME NEW j \in Jobs, JobKind[j] = "store" PROVE StoreRecord(j)'
    OBVIOUS
  <2>1. StoreRecord(j)
    BY DEF StoreBooks
  <2>2. UNCHANGED FilesOf(j)
    BY DEF FilesOf
  <2>. QED  BY <1>2, <1>3, <2>1, <2>2 DEF StoreRecord
<1>9. ASSUME NEW g \in storing' PROVE JobKind[g[1]] = "store" /\ future'[g[1]] = "pending" /\ next'[g[1]] = 0
  <2>1. g \in storing /\ g[1] \in Jobs /\ g[1] # f[1]
    BY <1>2, <1>4
  <2>2. ~(FilesOf(g[1]) \subseteq done)
    BY <1>4, <2>1 DEF Ledger
  <2>3. f \notin FilesOf(g[1])
    BY <2>1, FilesOfJob
  <2>. QED  BY <1>2, <1>3, <1>4, <2>1, <2>2, <2>3 DEF StoreBooks
<1>10. \A g \in blocked' : g \in Hashes
  BY <1>2 DEF TypeOK, QueueTypes
<1>11. \A g, k \in storing' : g = k
  BY <1>2 DEF StoreBooks
<1>. QED  BY <1>7, <1>8, <1>9, <1>10, <1>11 DEF StoreBooks

\* A store file is taken up: it was to come, now it is live.
LEMMA StoreTurnBooks ==
  ASSUME TypeOK, Ledger, StoreBooks, NEW k \in 1..Len(order), NEW s \in Slots,
         ScheduleStoreCopy(k, s)
  PROVE  StoreBooks'
<1>. DEFINE j == order[k]
            f == NextFile(j)
<1>1. StoreAt(k) /\ Start(f) /\ UNCHANGED <<active, storeInflight, blocked>>
  BY DEF ScheduleStoreCopy
<1>2. /\ live' = live \cup {f} /\ UNCHANGED <<done, future>>
      /\ next' = [next EXCEPT ![j] = @ + 1] /\ storing = {} /\ storing' = {}
  BY <1>1 DEF Start, StoreAt, Schedule, At, Quiet
<1>3. /\ f \in Files /\ f[1] = j /\ j \in active /\ JobKind[j] = "store" /\ f \notin done
      /\ j \in Jobs /\ next \in [Jobs -> Nat] /\ f = <<j, next[j] + 1>>
  BY <1>1, TurnNew, TurnFile DEF TypeOK, JobTypes, NextFile
<1>4. future[j] = "pending"
  <2>1. StoreRecord(j) /\ future[j] \in Started
    BY <1>3 DEF StoreBooks, Ledger
  <2>2. f \in FilesOf(j)
    BY <1>3, FileFacts
  <2>. QED  BY <1>3, <2>1, <2>2 DEF StoreRecord, Started
<1>. HIDE DEF j, f
<1>5. ASSUME NEW g \in Files PROVE Writer(g)' <=> Writer(g)
  <2>1. g[1] \in Jobs /\ g[2] \in Nat /\ g = <<g[1], g[2]>>
    BY FileFacts, FilesOfJob
  <2>2. Registered(g) /\ Registered(g)'
    BY <1>2 DEF Registered
  <2>3. CASE g[1] # j
    BY <1>2, <1>3, <2>1, <2>2, <2>3 DEF Writer, StoreUnfinished
  <2>4. CASE g[1] = j
    <3>1. next'[j] = next[j] + 1 /\ next[j] \in Nat
      BY <1>2, <1>3
    <3>2. g = f <=> g[2] = next[j] + 1
      BY <1>3, <2>1, <2>4
    <3>3. StoreUnfinished(g)' <=> g \in live \/ g = f \/ g[2] > next[j] + 1
      BY <1>2, <1>3, <1>4, <2>4, <3>1 DEF StoreUnfinished
    <3>4. StoreUnfinished(g) <=> g \in live \/ g[2] > next[j]
      BY <1>3, <1>4, <2>4 DEF StoreUnfinished
    <3>5. g = f \/ g[2] > next[j] + 1 <=> g[2] > next[j]
      BY <2>1, <3>1, <3>2
    <3>. QED  BY <2>2, <3>3, <3>4, <3>5 DEF Writer
  <2>. QED  BY <2>3, <2>4
<1>6. ASSUME NEW h \in Hashes PROVE Writers(h)' = Writers(h)
  BY <1>5 DEF Writers, H
<1>7. ASSUME NEW i \in Jobs, JobKind[i] = "store" PROVE StoreRecord(i)'
  <2>1. StoreRecord(i)
    BY <1>7 DEF StoreBooks
  <2>2. CASE i = j
    BY <1>2, <1>4, <2>2 DEF StoreRecord
  <2>3. CASE i # j
    BY <1>1, <1>2, <1>3, <2>1, <2>3 DEF StoreRecord, FilesOf
  <2>. QED  BY <2>2, <2>3
<1>. QED  BY <1>1, <1>2, <1>6, <1>7 DEF StoreBooks

LEMMA CudaBooks ==
  ASSUME TypeOK, Tables, Ledger, StoreBooks, StoresSucceed,
         \/ \E b \in batches : BatchDone(b)
         \/ \E w \in settling : Settle(w)
         \/ \E op \in storeOps : OnStoreCopyDone(op) \/ OnStoreCopyFailed(op)
  PROVE  StoreBooks'
<1>0. \A h \in blocked : storeInflight[h] > 0
  BY DEF StoreBooks
<1>1. ASSUME NEW b \in batches, BatchDone(b) PROVE StoreBooks'
  BY <1>0, <1>1, BooksUnmoved DEF BatchDone, At
<1>2. ASSUME NEW w \in settling, Settle(w) PROVE StoreBooks'
  <2>. DEFINE f == w[1].file
  <2>1. JobKind[f[1]] # "store"
    BY CopyingIs, LoadFiles DEF Copied, FilesIn
  <2>2. FileTerminal({f}, {}) \/ FileTerminal({}, {f})
    BY <1>2 DEF Settle
  <2>3. UNCHANGED <<next, storing, storeInflight, active, blocked>>
    BY <1>2 DEF Settle
  <2>. HIDE DEF f
  <2>. QED  BY <1>0, <2>1, <2>2, <2>3, LoadsEnd
<1>3. ASSUME NEW op \in storeOps, OnStoreCopyDone(op) PROVE StoreBooks'
  BY <1>0, <1>3, BooksUnmoved DEF OnStoreCopyDone, At
<1>4. ASSUME NEW op \in storeOps, OnStoreCopyFailed(op) PROVE FALSE
  BY <1>4 DEF OnStoreCopyFailed, StoresSucceed
<1>. QED  BY <1>1, <1>2, <1>3, <1>4

LEMMA PollBooks ==
  ASSUME TypeOK, Tables, Ledger, StoreBooks, StoresSucceed,
         \/ \E op \in storeOps : OnWriteComplete(op) \/ OnWriteFails(op)
         \/ \E o \in opens : OnOpenComplete(o) \/ OnOpenMiss(o)
         \/ \E o \in preOpens : OnPreOpenComplete(o) \/ OnPreOpenMiss(o)
         \/ \E r \in reads : OnReadComplete(r) \/ OnReadFails(r)
         \/ \E r \in preReads : OnSharedReadComplete(r) \/ OnSharedReadFails(r)
  PROVE  StoreBooks'
<1>0. \A h \in blocked : storeInflight[h] > 0
  BY DEF StoreBooks
<1>1. ASSUME NEW op \in storeOps, OnWriteComplete(op) PROVE StoreBooks'
  BY <1>1, WriteBooks
<1>2. ASSUME NEW op \in storeOps, OnWriteFails(op) PROVE FALSE
  BY <1>2 DEF OnWriteFails, StoresSucceed
<1>3. ASSUME NEW o \in opens, OnOpenComplete(o) PROVE StoreBooks'
  BY <1>0, <1>3, BooksUnmoved DEF OnOpenComplete, At
<1>4. ASSUME NEW o \in opens, OnOpenMiss(o) PROVE StoreBooks'
  <2>1. JobKind[o.file[1]] # "store"
    BY LoadFiles DEF Opening, FilesIn
  <2>. QED  BY <1>0, <1>4, <2>1, LoadsEnd DEF OnOpenMiss, At
<1>5. ASSUME NEW o \in preOpens, OnPreOpenComplete(o) PROVE StoreBooks'
  BY <1>0, <1>5, BooksUnmoved DEF OnPreOpenComplete, At
<1>6. ASSUME NEW o \in preOpens, OnPreOpenMiss(o) PROVE StoreBooks'
  <2>1. o.hash \in Hashes
    BY DEF TypeOK, PreloadTypes, PreOpen
  <2>2. \A f \in waiters[o.hash] : JobKind[f[1]] # "store"
    BY <2>1, ParkedWaiters
  <2>3. \A h \in blocked' : storeInflight[h] > 0
    BY <1>0, <1>6 DEF OnPreOpenMiss
  <2>. QED  BY <1>6, <2>2, <2>3, LoadsEnd DEF OnPreOpenMiss, At
<1>7. ASSUME NEW r \in reads, OnReadComplete(r) PROVE StoreBooks'
  BY <1>0, <1>7, BooksUnmoved DEF OnReadComplete, At
<1>8. ASSUME NEW r \in reads, OnReadFails(r) PROVE StoreBooks'
  <2>1. JobKind[r.file[1]] # "store"
    BY LoadFiles DEF Reading, FilesIn
  <2>. QED  BY <1>0, <1>8, <2>1, LoadsEnd DEF OnReadFails, At
<1>9. ASSUME NEW r \in preReads, OnSharedReadComplete(r) PROVE StoreBooks'
  <2>1. r.hash \in Hashes
    BY DEF TypeOK, PreloadTypes, PreRead
  <2>2. PICK bad \in SUBSET waiters[r.hash] : FileTerminal({}, bad)
    BY <1>9 DEF OnSharedReadComplete
  <2>3. \A f \in bad : JobKind[f[1]] # "store"
    BY <2>1, <2>2, ParkedWaiters
  <2>4. UNCHANGED <<next, storing, storeInflight, active, blocked>>
    BY <1>9 DEF OnSharedReadComplete, At
  <2>. QED  BY <1>0, <2>2, <2>3, <2>4, LoadsEnd
<1>10. ASSUME NEW r \in preReads, OnSharedReadFails(r) PROVE StoreBooks'
  <2>1. r.hash \in Hashes
    BY DEF TypeOK, PreloadTypes, PreRead
  <2>2. \A f \in waiters[r.hash] : JobKind[f[1]] # "store"
    BY <2>1, ParkedWaiters
  <2>. QED  BY <1>0, <1>10, <2>2, LoadsEnd DEF OnSharedReadFails, At
<1>. QED  BY <1>1, <1>2, <1>3, <1>4, <1>5, <1>6, <1>7, <1>8, <1>9, <1>10

LEMMA LoadTurnBooks ==
  ASSUME TypeOK, Ledger, StoreBooks, NEW k \in 1..Len(order),
         \/ ScheduleCacheHit(k) \/ SharedClaimFromCache(k) \/ SharedClaimFails(k)
         \/ SchedulePreloadInflight(k) \/ PromotePendingToSharedRead(k)
         \/ SubmitOpenRead(k)
  PROVE  StoreBooks'
<1>. DEFINE f == NextFile(order[k])
<1>0. \A h \in blocked : storeInflight[h] > 0
  BY DEF StoreBooks
<1>1. LoadAt(k) /\ UNCHANGED <<active, storeInflight, blocked, storing>>
  BY DEF ScheduleCacheHit, SharedClaimFromCache, SharedClaimFails, SchedulePreloadInflight,
         PromotePendingToSharedRead, SubmitOpenRead, LoadAt, At
<1>2. JobKind[f[1]] # "store" /\ f[1] = order[k]
  BY <1>1, TurnNew
<1>3. \A j \in Jobs : JobKind[j] = "store" => next'[j] = next[j]
  BY <1>1, <1>2 DEF LoadAt, Schedule, TypeOK, JobTypes
<1>4. Start(f) \/ FileTerminal({}, {f})
  BY DEF ScheduleCacheHit, SharedClaimFromCache, SharedClaimFails, SchedulePreloadInflight,
         PromotePendingToSharedRead, SubmitOpenRead
<1>. HIDE DEF f
<1>5. CASE Start(f)
  BY <1>0, <1>1, <1>2, <1>3, <1>5, BooksKept DEF Start
<1>6. CASE FileTerminal({}, {f})
  BY <1>0, <1>1, <1>2, <1>3, <1>6, LoadsEnd
<1>. QED  BY <1>4, <1>5, <1>6

LEMMA ReadBooks ==
  ASSUME TypeOK, Tables, Ledger, StoreBooks,
         \/ \E f \in readyLoad, s \in Slots : SubmitRead(f, s) \/ SubmitReadRefused(f, s)
         \/ \E s \in Slots : SubmitPreloadRead(s) \/ SubmitPreloadReadRefused(s)
         \/ YieldOpenFd \/ DropCancelled \/ DeferOnWrite \/ OpenSpeculative
  PROVE  StoreBooks'
<1>0. \A h \in blocked : storeInflight[h] > 0
  BY DEF StoreBooks
<1>1. ASSUME NEW f \in readyLoad, NEW s \in Slots, SubmitRead(f, s) PROVE StoreBooks'
  BY <1>0, <1>1, BooksUnmoved DEF SubmitRead, At
<1>2. ASSUME NEW f \in readyLoad, NEW s \in Slots, SubmitReadRefused(f, s) PROVE StoreBooks'
  BY <1>0, <1>2, LoadFiles, LoadsEnd DEF SubmitReadRefused, At
<1>3. ASSUME NEW s \in Slots, SubmitPreloadRead(s) PROVE StoreBooks'
  BY <1>0, <1>3, BooksUnmoved DEF SubmitPreloadRead, ReadHead, At
<1>4. ASSUME NEW s \in Slots, SubmitPreloadReadRefused(s) PROVE StoreBooks'
  <2>. DEFINE h == Head(preReady)
  <2>1. h \in Hashes
    <3>1. preReady \in Seq(Hashes) /\ preReady # <<>>
      BY <1>4 DEF SubmitPreloadReadRefused, ReadHead, TypeOK, PreloadTypes
    <3>. QED  BY <3>1, HeadTailProperties
  <2>2. FileTerminal({}, waiters[h]) /\ UNCHANGED <<next, storing, storeInflight, active, blocked>>
    BY <1>4 DEF SubmitPreloadReadRefused, ReadHead, At
  <2>. HIDE DEF h
  <2>3. \A f \in waiters[h] : JobKind[f[1]] # "store"
    BY <2>1, ParkedWaiters
  <2>. QED  BY <1>0, <2>2, <2>3, LoadsEnd
<1>5. CASE YieldOpenFd \/ DropCancelled \/ DeferOnWrite \/ OpenSpeculative
  <2>1. UNCHANGED <<active, storing, storeInflight, live, done, future, next>>
    BY <1>5 DEF YieldOpenFd, DropCancelled, DeferOnWrite, OpenSpeculative, At
  <2>2. \A h \in blocked' : storeInflight[h] > 0
    BY <1>0, <1>5 DEF YieldOpenFd, DropCancelled, DeferOnWrite, OpenSpeculative
  <2>. QED  BY <2>1, <2>2, BooksUnmoved
<1>. QED  BY <1>1, <1>2, <1>3, <1>4, <1>5

LEMMA TurnEndBooks ==
  ASSUME TypeOK, StoreBooks, FlushCopyBatch \/ EndTurn \/ Exit \/ UNCHANGED vars
  PROVE  StoreBooks'
<1>1. \A h \in blocked : storeInflight[h] > 0
  BY DEF StoreBooks
<1>2. /\ UNCHANGED <<storing, storeInflight, live, done, future, next, blocked>>
      /\ active' \subseteq active
  BY DEF FlushCopyBatch, EndTurn, Exit, vars, At
<1>. QED  BY <1>1, <1>2, BooksUnmoved

\* A thread that has ended stays so: only a live one works.
LEMMA AliveBefore ==
  ASSUME [Next]_vars, Alive'
  PROVE  Alive
<1>1. CASE Client
  BY <1>1 DEF Client, AskPreload, IntakeLoad, IntakeStore, SubmitClosed, Stop, CanIntake, Alive
<1>2. CASE Work
  <2>1. ASSUME \/ \E a \in asking : PreloadHash(a)
               \/ \E f \in storing : StoreHash(f)
               \/ \E w \in settling : Settle(w)
        PROVE  Alive
    BY <2>1 DEF PreloadHash, StoreHash, Settle
  <2>2. ASSUME \/ \E b \in batches : BatchDone(b)
               \/ \E op \in storeOps : \/ OnStoreCopyDone(op) \/ OnStoreCopyFailed(op)
                                        \/ OnWriteComplete(op) \/ OnWriteFails(op)
               \/ \E o \in opens : OnOpenComplete(o) \/ OnOpenMiss(o)
               \/ \E o \in preOpens : OnPreOpenComplete(o) \/ OnPreOpenMiss(o)
        PROVE  Alive
    BY <2>2 DEF BatchDone, OnStoreCopyDone, OnStoreCopyFailed, OnWriteComplete, OnWriteFails,
                OnOpenComplete, OnOpenMiss, OnPreOpenComplete, OnPreOpenMiss, At
  <2>3. ASSUME \/ \E r \in reads : OnReadComplete(r) \/ OnReadFails(r)
               \/ \E r \in preReads : OnSharedReadComplete(r) \/ OnSharedReadFails(r)
               \/ \E f \in readyLoad, s \in Slots : SubmitRead(f, s) \/ SubmitReadRefused(f, s)
               \/ \E s \in Slots : SubmitPreloadRead(s) \/ SubmitPreloadReadRefused(s)
        PROVE  Alive
    BY <2>3 DEF OnReadComplete, OnReadFails, OnSharedReadComplete, OnSharedReadFails, SubmitRead,
                SubmitReadRefused, SubmitPreloadRead, SubmitPreloadReadRefused, ReadHead, At
  <2>4. ASSUME \E k \in 1..Len(order) :
                 \/ ScheduleCacheHit(k) \/ SharedClaimFromCache(k) \/ SharedClaimFails(k)
                 \/ SchedulePreloadInflight(k) \/ PromotePendingToSharedRead(k)
                 \/ SubmitOpenRead(k)
                 \/ \E s \in Slots : ScheduleStoreCopy(k, s) \/ ScheduleStoreCopyFails(k, s)
        PROVE  Alive
    <3>1. PICK k \in 1..Len(order) : LoadAt(k) \/ StoreAt(k)
      BY <2>4 DEF ScheduleCacheHit, SharedClaimFromCache, SharedClaimFails,
                  SchedulePreloadInflight, PromotePendingToSharedRead, SubmitOpenRead,
                  ScheduleStoreCopy, ScheduleStoreCopyFails
    <3>. QED  BY <3>1 DEF LoadAt, StoreAt, At
  <2>5. ASSUME \/ YieldOpenFd \/ DropCancelled \/ DeferOnWrite \/ OpenSpeculative
               \/ FlushCopyBatch \/ EndTurn \/ Exit
        PROVE  Alive
    BY <2>5 DEF YieldOpenFd, DropCancelled, DeferOnWrite, OpenSpeculative, FlushCopyBatch,
                EndTurn, Exit, At, Alive
  <2>. QED  BY <1>2, <2>1, <2>2, <2>3, <2>4, <2>5 DEF Work
<1>3. CASE FailEverything \/ UNCHANGED vars
  BY <1>3 DEF FailEverything, vars, turn, Alive
<1>. QED  BY <1>1, <1>2, <1>3 DEF Next

LEMMA StepBooks ==
  ASSUME StoresSucceed
  PROVE  TypeOK /\ Provenance /\ Accounts /\ (Alive => StoreBooks) /\ [Next]_vars
           => (Alive => StoreBooks)'
<1>. SUFFICES ASSUME TypeOK, Provenance, Accounts, Alive => StoreBooks, [Next]_vars, Alive'
              PROVE  StoreBooks'
  OBVIOUS
<1>1. Alive /\ ~FailEverything
  BY AliveBefore DEF FailEverything, Alive
<1>2. StoreBooks /\ Tables /\ Ledger
  BY <1>1 DEF Accounts
<1>3. CASE Client
  BY <1>2, <1>3, ClientBooks
<1>4. CASE Work
  <2>1. ASSUME NEW a \in asking, PreloadHash(a) PROVE StoreBooks'
    <3>1. \A h \in blocked : storeInflight[h] > 0
      BY <1>2 DEF StoreBooks
    <3>. QED  BY <1>2, <2>1, <3>1, BooksUnmoved DEF PreloadHash
  <2>2. ASSUME NEW k \in 1..Len(order), NEW s \in Slots, ScheduleStoreCopyFails(k, s) PROVE FALSE
    BY <2>2 DEF ScheduleStoreCopyFails, StoresSucceed
  <2>. QED  BY <1>2, <1>4, <2>1, <2>2, StoreHashBooks, CudaBooks, PollBooks, LoadTurnBooks,
               StoreTurnBooks, ReadBooks, TurnEndBooks DEF Work
<1>5. CASE UNCHANGED vars
  BY <1>2, <1>5, TurnEndBooks
<1>. QED  BY <1>1, <1>3, <1>4, <1>5 DEF Next

\* A count that is not zero names a file.
LEMMA BooksName == TypeOK /\ (Alive => StoreBooks) => BlockedHasWriter
<1>. SUFFICES ASSUME TypeOK, StoreBooks, NEW h \in blocked
              PROVE  \E f \in Files : H(f) = h /\ StoreUnfinished(f)
  BY DEF BlockedHasWriter
<1>1. h \in Hashes /\ storeInflight[h] > 0 /\ storeInflight[h] = Cardinality(Writers(h))
  BY DEF StoreBooks, TypeOK, QueueTypes
<1>2. Writers(h) # {}
  BY <1>1, FS_EmptySet
<1>. QED  BY <1>2 DEF Writers, Writer

-----------------------------------------------------------------------------
\* Unless a call of a store fails, a preload parked on a write waits for a
\* file of its hash that is still to be written, whatever stores of the same
\* hash come and go: the one that wakes it (_on_write_complete) is the last.
THEOREM ParkedHaveWriters ==
  ASSUME StoresSucceed
  PROVE  Spec => []BlockedHasWriter
<1>1. Init => TypeOK /\ Provenance /\ Accounts /\ (Alive => StoreBooks)
  BY InitTypes, InitProv, InitFiles, InitBooks
<1>2. TypeOK /\ Provenance /\ Accounts /\ (Alive => StoreBooks) /\ [Next]_vars
        => TypeOK' /\ Provenance' /\ Accounts' /\ (Alive => StoreBooks)'
  BY StepTypes, StepProv, StepFiles, StepBooks
<1>3. TypeOK /\ (Alive => StoreBooks) => BlockedHasWriter
  BY BooksName
<1>. QED  BY <1>1, <1>2, <1>3, PTL DEF Spec

-----------------------------------------------------------------------------
(* The reactor implements BlockTransfer.                                    *)

\* A live file is due: its block is not delivered and its job not answered
\* with success.
LEMMA LiveIsDue ==
  ASSUME TypeOK, Provenance, Ledger, NEW f \in live
  PROVE  /\ f \in Files /\ f[1] \in Jobs /\ f \in FilesOf(f[1]) /\ f \notin done
         /\ future[f[1]] \in {"pending", "error"}
<1>1. f \in Files
  BY DEF TypeOK, JobTypes
<1>2. f \notin done /\ future[f[1]] \in Started
  BY DEF Ledger
<1>3. future[f[1]] # "ok"
  BY <1>1, <1>2, FileFacts DEF Provenance, DoneProv
<1>. QED  BY <1>1, <1>2, <1>3, FileFacts DEF Started

\* The step that delivers the last file of a job answers it, and no other.
LEMMA DeliveryRefines ==
  ASSUME TypeOK, Provenance, Ledger, NEW f \in live, FileTerminal({f}, {}),
         IF JobKind[f[1]] = "store" THEN stored' = stored \cup {H(f)}
         ELSE H(f) \in stored /\ UNCHANGED stored
  PROVE  Transfer!Next
<1>. DEFINE j == f[1]
<1>. USE DEF TypeOK, JobTypes
<1>1. j \in Jobs /\ f \in FilesOf(j) /\ f \notin done /\ future[j] \in {"pending", "error"}
  BY LiveIsDue
<1>2. \A i \in Jobs : i # j => f \notin FilesOf(i)
  BY DEF FilesOf
<1>3. done' = done \cup {f}
  BY DEF FileTerminal
<1>4. \A i \in Jobs : FilesOf(i) \cap {} = {}
  OBVIOUS
<1>5. ASSUME NEW i \in Jobs
      PROVE  future'[i] = IF i = j /\ future[j] = "pending" /\ FilesOf(j) \subseteq done'
                            THEN "ok" ELSE future[i]
  <2>1. CASE i = j
    BY <1>1, <1>3, <1>4, <2>1 DEF FileTerminal
  <2>2. CASE i # j
    <3>1. future[i] = "pending" => ~(FilesOf(i) \subseteq done \cup {f})
      BY <1>2, <2>2 DEF Ledger
    <3>. QED  BY <2>2, <3>1 DEF FileTerminal
  <2>. QED  BY <2>1, <2>2
<1>6. future' \in [Jobs -> Outcome]
  BY DEF FileTerminal, Outcome
<1>7. future' = IF future[j] = "pending" /\ FilesOf(j) \subseteq done'
                  THEN [future EXCEPT ![j] = "ok"] ELSE future
  BY <1>1, <1>5, <1>6
<1>8. Transfer!Complete(j, f)
  BY <1>1, <1>3, <1>7 DEF Transfer!Complete, Transfer!Taken, Transfer!FilesOf, Transfer!Block,
     FilesOf, H
<1>9. f \in Transfer!FilesOf(j)
  BY <1>1 DEF Transfer!FilesOf, FilesOf
<1>. QED  BY <1>1, <1>8, <1>9 DEF Transfer!Next

\* Files that fail take their jobs with them; nothing is delivered.
LEMMA FailureRefines ==
  ASSUME TypeOK, Ledger, NEW bad, FileTerminal({}, bad),
         \/ UNCHANGED stored
         \/ \E j \in Jobs : /\ JobKind[j] = "store" /\ future[j] \in {"pending", "error"}
                            /\ \E f \in FilesOf(j) : stored' = stored \cup {H(f)}
  PROVE  Transfer!Next
<1>. DEFINE J == {j \in Jobs : future[j] = "pending" /\ bad \cap FilesOf(j) # {}}
<1>1. done' = done
  BY DEF FileTerminal
<1>2. \A j \in Jobs : future[j] = "pending" => ~(FilesOf(j) \subseteq done \cup {})
  BY DEF Ledger
<1>3. \A j \in Jobs : future'[j] = IF j \in J THEN "error" ELSE future[j]
  BY <1>2 DEF FileTerminal
<1>4. future' = [j \in Jobs |-> IF j \in J THEN "error" ELSE future[j]]
  BY <1>3 DEF FileTerminal
<1>5. Transfer!Fail(J)
  <2>1. \/ UNCHANGED stored
        \/ \E j \in Jobs : /\ JobKind[j] = "store" /\ Transfer!Taken(j)
                           /\ \E f \in Transfer!FilesOf(j) :
                                stored' = stored \cup {Transfer!Block(f)}
    BY DEF Transfer!Taken, Transfer!FilesOf, Transfer!Block, FilesOf, H
  <2>2. \A j \in J : future[j] = "pending"
    OBVIOUS
  <2>. HIDE DEF J
  <2>. QED  BY <1>1, <1>4, <2>1, <2>2 DEF Transfer!Fail
<1>. QED  BY <1>5 DEF Transfer!Next

LEMMA ClientRefines ==
  TypeOK /\ Accounts /\ Client => Transfer!Next \/ UNCHANGED <<future, done, stored>>
<1>. SUFFICES ASSUME TypeOK, Accounts, Client
              PROVE  Transfer!Next \/ UNCHANGED <<future, done, stored>>
  OBVIOUS
<1>1. ASSUME NEW p \in Preloads, AskPreload(p) PROVE UNCHANGED <<future, done, stored>>
  BY <1>1 DEF AskPreload
<1>2. ASSUME NEW j \in Jobs, IntakeLoad(j) \/ IntakeStore(j) \/ SubmitClosed(j)
      PROVE  Transfer!Next
  <2>1. Transfer!Submit(j)
    BY <1>2 DEF IntakeLoad, IntakeStore, SubmitClosed, Transfer!Submit
  <2>. QED  BY <2>1 DEF Transfer!Next
<1>3. CASE Stop
  BY <1>3, FailureRefines DEF Stop, Accounts
<1>. QED  BY <1>1, <1>2, <1>3 DEF Client

\* A step that neither delivers nor fails a file is none of BlockTransfer's.
LEMMA StartRefines ==
  ASSUME TypeOK, Accounts, NEW f, Start(f) \/ FileTerminal({}, {f}), UNCHANGED stored
  PROVE  Transfer!Next \/ UNCHANGED <<future, done, stored>>
BY FailureRefines DEF Start, Accounts

\* Delivery: a settled copy for a load, a completed write for a store.
LEMMA SettleRefines ==
  ASSUME TypeOK, Provenance, Accounts, NEW w \in settling, Settle(w)
  PROVE  Transfer!Next
<1>. DEFINE f == w[1].file
<1>1. Tables /\ Ledger /\ UNCHANGED stored
  BY DEF Accounts, Settle
<1>2. w[1] \in Copying /\ f \in Copied
  BY CopyingIs DEF Copied, FilesIn
<1>3. f \in live /\ JobKind[f[1]] # "store"
  BY <1>1, <1>2 DEF Tables, Seated
<1>4. H(f) \in stored
  BY <1>2 DEF Provenance, CopyProv
<1>5. CASE FileTerminal({f}, {})
  BY <1>1, <1>3, <1>4, <1>5, DeliveryRefines
<1>6. CASE FileTerminal({}, {f})
  BY <1>1, <1>6, FailureRefines
<1>. QED  BY <1>5, <1>6 DEF Settle

LEMMA WriteRefines ==
  ASSUME TypeOK, Provenance, Accounts, NEW op \in storeOps,
         OnWriteComplete(op) \/ OnWriteFails(op)
  PROVE  Transfer!Next
<1>. DEFINE f == op.file
<1>1. Tables /\ Ledger
  BY DEF Accounts, OnWriteComplete, OnWriteFails, At
<1>2. f \in live /\ JobKind[f[1]] = "store"
  BY <1>1 DEF Tables, Seated, Writing, FilesIn
<1>3. f[1] \in Jobs /\ f \in FilesOf(f[1]) /\ future[f[1]] \in {"pending", "error"}
  BY <1>1, <1>2, LiveIsDue
<1>4. CASE OnWriteComplete(op)
  <2>1. FileTerminal({f}, {}) /\ stored' = stored \cup {H(f)}
    BY <1>4 DEF OnWriteComplete
  <2>. QED  BY <1>1, <1>2, <2>1, DeliveryRefines
<1>5. CASE OnWriteFails(op)
  <2>1. FileTerminal({}, {f}) /\ (UNCHANGED stored \/ stored' = stored \cup {H(f)})
    BY <1>5 DEF OnWriteFails, StoreFileFails
  <2>. QED  BY <1>1, <1>2, <1>3, <2>1, FailureRefines
<1>. QED  BY <1>4, <1>5

LEMMA CudaPollRefines ==
  ASSUME TypeOK, Provenance, Accounts,
         \/ \E b \in batches : BatchDone(b)
         \/ \E op \in storeOps : OnStoreCopyDone(op) \/ OnStoreCopyFailed(op)
         \/ \E o \in opens : OnOpenComplete(o) \/ OnOpenMiss(o)
         \/ \E o \in preOpens : OnPreOpenComplete(o) \/ OnPreOpenMiss(o)
         \/ \E r \in reads : OnReadComplete(r) \/ OnReadFails(r)
         \/ \E r \in preReads : OnSharedReadComplete(r) \/ OnSharedReadFails(r)
  PROVE  Transfer!Next \/ UNCHANGED <<future, done, stored>>
<1>0. Ledger
  BY DEF Accounts
<1>1. ASSUME NEW b \in batches, BatchDone(b) PROVE UNCHANGED <<future, done, stored>>
  BY <1>1 DEF BatchDone
<1>2. ASSUME NEW op \in storeOps, OnStoreCopyDone(op) \/ OnStoreCopyFailed(op)
      PROVE  Transfer!Next \/ UNCHANGED <<future, done, stored>>
  BY <1>0, <1>2, FailureRefines DEF OnStoreCopyDone, OnStoreCopyFailed, StoreFileFails
<1>3. ASSUME NEW o \in opens, OnOpenComplete(o) \/ OnOpenMiss(o)
      PROVE  Transfer!Next \/ UNCHANGED <<future, done, stored>>
  BY <1>0, <1>3, FailureRefines DEF OnOpenComplete, OnOpenMiss
<1>4. ASSUME NEW o \in preOpens, OnPreOpenComplete(o) \/ OnPreOpenMiss(o)
      PROVE  Transfer!Next \/ UNCHANGED <<future, done, stored>>
  BY <1>0, <1>4, FailureRefines DEF OnPreOpenComplete, OnPreOpenMiss
<1>5. ASSUME NEW r \in reads, OnReadComplete(r) \/ OnReadFails(r)
      PROVE  Transfer!Next \/ UNCHANGED <<future, done, stored>>
  BY <1>0, <1>5, FailureRefines DEF OnReadComplete, OnReadFails
<1>6. ASSUME NEW r \in preReads, OnSharedReadComplete(r) PROVE Transfer!Next
  <2>1. PICK bad : FileTerminal({}, bad)
    BY <1>6 DEF OnSharedReadComplete
  <2>2. UNCHANGED stored
    BY <1>6 DEF OnSharedReadComplete
  <2>. QED  BY <1>0, <2>1, <2>2, FailureRefines
<1>7. ASSUME NEW r \in preReads, OnSharedReadFails(r) PROVE Transfer!Next
  BY <1>0, <1>7, FailureRefines DEF OnSharedReadFails
<1>. QED  BY <1>1, <1>2, <1>3, <1>4, <1>5, <1>6, <1>7

LEMMA ScheduleRefines ==
  ASSUME TypeOK, Accounts,
         \/ \E f \in readyLoad, s \in Slots : SubmitRead(f, s) \/ SubmitReadRefused(f, s)
         \/ \E k \in 1..Len(order) :
              \/ ScheduleCacheHit(k) \/ SharedClaimFromCache(k) \/ SharedClaimFails(k)
              \/ SchedulePreloadInflight(k) \/ PromotePendingToSharedRead(k)
              \/ SubmitOpenRead(k)
              \/ \E s \in Slots : ScheduleStoreCopy(k, s) \/ ScheduleStoreCopyFails(k, s)
         \/ \E s \in Slots : SubmitPreloadRead(s) \/ SubmitPreloadReadRefused(s)
  PROVE  Transfer!Next \/ UNCHANGED <<future, done, stored>>
<1>0. Ledger
  BY DEF Accounts
<1>1. ASSUME NEW f \in readyLoad, NEW s \in Slots, SubmitRead(f, s) \/ SubmitReadRefused(f, s)
      PROVE  Transfer!Next \/ UNCHANGED <<future, done, stored>>
  BY <1>0, <1>1, FailureRefines DEF SubmitRead, SubmitReadRefused
<1>2. ASSUME NEW k \in 1..Len(order),
             \/ ScheduleCacheHit(k) \/ SharedClaimFromCache(k) \/ SharedClaimFails(k)
             \/ SchedulePreloadInflight(k) \/ PromotePendingToSharedRead(k)
             \/ SubmitOpenRead(k)
      PROVE  Transfer!Next \/ UNCHANGED <<future, done, stored>>
  BY <1>2, StartRefines DEF ScheduleCacheHit, SharedClaimFromCache, SharedClaimFails,
     SchedulePreloadInflight, PromotePendingToSharedRead, SubmitOpenRead
<1>3. ASSUME NEW k \in 1..Len(order), NEW s \in Slots,
             ScheduleStoreCopy(k, s) \/ ScheduleStoreCopyFails(k, s)
      PROVE  Transfer!Next \/ UNCHANGED <<future, done, stored>>
  BY <1>3, StartRefines DEF ScheduleStoreCopy, ScheduleStoreCopyFails
<1>4. ASSUME NEW s \in Slots, SubmitPreloadRead(s) \/ SubmitPreloadReadRefused(s)
      PROVE  Transfer!Next \/ UNCHANGED <<future, done, stored>>
  BY <1>0, <1>4, FailureRefines DEF SubmitPreloadRead, SubmitPreloadReadRefused
<1>. QED  BY <1>1, <1>2, <1>3, <1>4

\* The thread dies: every unanswered job it knows of fails at once, and the
\* file whose write was being finished may be on disk.
LEMMA CrashRefines ==
  ASSUME TypeOK, Provenance, Accounts, FailEverything
  PROVE  Transfer!Next
<1>. DEFINE J == {j \in Jobs : j \in Abandoned /\ future[j] = "pending"}
<1>1. J \in SUBSET Jobs /\ \A j \in J : future[j] = "pending"
  OBVIOUS
<1>2. /\ future' = [j \in Jobs |-> IF j \in J THEN "error" ELSE future[j]]
      /\ UNCHANGED done
  BY DEF FailEverything
<1>3. \/ UNCHANGED stored
      \/ \E j \in Jobs : /\ JobKind[j] = "store" /\ Transfer!Taken(j)
                         /\ \E f \in Transfer!FilesOf(j) :
                              stored' = stored \cup {Transfer!Block(f)}
  <2>1. CASE UNCHANGED stored
    BY <2>1
  <2>2. CASE \E op \in storeOps : op.stage = "write" /\ stored' = stored \cup {H(op.file)}
    <3>1. PICK op \in storeOps : stored' = stored \cup {H(op.file)}
      BY <2>2
    <3>. DEFINE f == op.file
    <3>2. Tables /\ Ledger
      BY DEF Accounts, FailEverything
    <3>3. f \in live /\ JobKind[f[1]] = "store"
      BY <3>2 DEF Tables, Seated, Writing, FilesIn
    <3>4. f[1] \in Jobs /\ f \in FilesOf(f[1]) /\ future[f[1]] \in {"pending", "error"}
      BY <3>2, <3>3, LiveIsDue
    <3>. QED  BY <3>1, <3>3, <3>4 DEF Transfer!Taken, Transfer!FilesOf, Transfer!Block, FilesOf, H
  <2>. QED  BY <2>1, <2>2 DEF FailEverything
<1>4. Transfer!Fail(J)
  <2>. HIDE DEF J
  <2>. QED  BY <1>1, <1>2, <1>3 DEF Transfer!Fail
<1>. QED  BY <1>1, <1>4 DEF Transfer!Next

LEMMA StepRefines ==
  TypeOK /\ Provenance /\ Accounts /\ [Next]_vars => [Transfer!Next]_(Transfer!tvars)
<1>. SUFFICES ASSUME TypeOK, Provenance, Accounts, [Next]_vars
              PROVE  Transfer!Next \/ UNCHANGED <<future, done, stored>>
  BY DEF Transfer!tvars
<1>1. CASE Client
  BY <1>1, ClientRefines
<1>2. CASE FailEverything
  BY <1>2, CrashRefines
<1>3. CASE Work
  <2>1. CASE \/ \E a \in asking : PreloadHash(a)
             \/ \E f \in storing : StoreHash(f)
             \/ YieldOpenFd \/ DropCancelled \/ DeferOnWrite \/ OpenSpeculative
             \/ FlushCopyBatch \/ EndTurn \/ Exit
    BY <2>1 DEF PreloadHash, StoreHash, YieldOpenFd, DropCancelled, DeferOnWrite,
       OpenSpeculative, FlushCopyBatch, EndTurn, Exit
  <2>. QED  BY <1>3, <2>1, SettleRefines, WriteRefines, CudaPollRefines, ScheduleRefines DEF Work
<1>4. CASE UNCHANGED vars
  BY <1>4 DEF vars
<1>. QED  BY <1>1, <1>2, <1>3, <1>4 DEF Next

\* The reactor implements BlockTransfer: a job is answered once, with success
\* in the very step that delivers its last block, a store block is delivered
\* by being published and a load block only if it is published.
THEOREM ReactorImplementsTransfer == Spec => ImplementsTransfer
<1>1. Init => Transfer!Init
  BY DEF Init, Transfer!Init
<1>. QED  BY <1>1, InitTypes, StepTypes, InitProv, StepProv, InitFiles, StepFiles, StepRefines,
             PTL DEF Spec, ImplementsTransfer, Transfer!Spec

=============================================================================
