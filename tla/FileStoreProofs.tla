-------------------------- MODULE FileStoreProofs --------------------------
(* What is proved about FileStore, for any processes, workload, number of  *)
(* descriptors and set of faults, except where a theorem names the faults  *)
(* it excludes.                                                            *)
EXTENDS FileStore, TLAPS

-----------------------------------------------------------------------------
(* Types.  An operation that may still use its descriptor has a number.    *)

Numbered ==
  /\ \A s \in Stores : stage[s] \notin {"idle", "failed", "lost"} => stfd[s] \in Fds
  /\ \A l \in Loads : LoadHolds(l) => ldfd[l] \in Fds

TInv == TypeOK /\ Numbered

LEMMA InitTypes == Init => TInv
BY FilesAssumption DEF Init, TInv, TypeOK, Numbered, LoadHolds, StoreStage, LoadStage, Inodes,
   Bodies, Handle

LEMMA GotoTypes ==
  ASSUME TInv, NEW s \in Stores, NEW to \in StoreStage, Goto(s, to)
  PROVE  stage' \in [Stores -> StoreStage] /\ thread' \in [Procs -> Stores \cup {NoFile}]
BY FilesAssumption DEF TInv, TypeOK, Goto

LEMMA OpenedTypes ==
  ASSUME TInv, NEW p \in Procs, NEW n \in Fds, NEW i \in Inodes, NEW w \in BOOLEAN,
         Opened(p, n, i, w)
  PROVE  fdt' \in [Procs -> [Fds -> Handle \cup {NoFile}]]
<1>1. [ino |-> i, write |-> w] \in Handle
  BY DEF Handle
<1> QED
  BY <1>1 DEF TInv, TypeOK, Opened

LEMMA ClosedTypes ==
  ASSUME TInv, NEW p \in Procs, NEW n, Closed(p, n)
  PROVE  fdt' \in [Procs -> [Fds -> Handle \cup {NoFile}]]
BY DEF TInv, TypeOK, Closed

\* The descriptor a store names is a file or nothing.
LEMMA OwnTypes ==
  ASSUME TInv, NEW s \in Stores, stfd[s] \in Fds
  PROVE  Own(s) \in Handle \cup {NoFile}
BY FilesAssumption DEF TInv, TypeOK, Own

\* A store that takes its next step keeps a descriptor it has.
LEMMA GotoNumbered ==
  ASSUME TInv, NEW s \in Stores, NEW to, stfd[s] \in Fds, Goto(s, to), UNCHANGED <<stfd, loadVars>>
  PROVE  Numbered'
BY DEF TInv, TypeOK, Numbered, LoadHolds, Goto, loadVars

LEMMA LoadNumbered ==
  ASSUME TInv, UNCHANGED storeVars, NEW l \in Loads, NEW to,
         load' = [load EXCEPT ![l] = to],
         \/ ldfd' = ldfd /\ (to \in {"opened", "reading", "read"} => LoadHolds(l))
         \/ \E n \in Fds : ldfd' = [ldfd EXCEPT ![l] = n]
  PROVE  Numbered'
BY DEF TInv, TypeOK, Numbered, LoadHolds, storeVars

LEMMA RestartTypes ==
  ASSUME TInv, NEW ps, Restart(ps)
  PROVE  /\ Numbered' /\ stage' \in [Stores -> StoreStage] /\ load' \in [Loads -> LoadStage]
         /\ thread' \in [Procs -> Stores \cup {NoFile}]
         /\ fdt' \in [Procs -> [Fds -> Handle \cup {NoFile}]]
         /\ UNCHANGED <<stfd, raised, ldfd, answer>>
BY DEF TInv, TypeOK, Numbered, LoadHolds, Restart, StoreStage, LoadStage

LEMMA StepTypes == TInv /\ [Next]_vars => TInv'
<1> SUFFICES ASSUME TInv, [Next]_vars PROVE TInv'
  OBVIOUS
<1> USE FilesAssumption
<1>s. \A t \in {"idle", "writing", "sync", "close", "link", "unlink", "dirsync",
               "done", "cleanup", "discard", "failed", "stuck", "lost"} : t \in StoreStage
  BY DEF StoreStage
<1>l. \A t \in {"idle", "opening", "opened", "reading", "read", "done", "lost"} : t \in LoadStage
  BY DEF LoadStage
<1>1. ASSUME NEW s \in Stores, NEW n \in Fds, OpenTempWrite(s, n) PROVE TInv'
  <2>1. stage' \in [Stores -> StoreStage] /\ thread' \in [Procs -> Stores \cup {NoFile}]
    BY <1>1, <1>s, GotoTypes DEF OpenTempWrite
  <2>2. fdt' \in [Procs -> [Fds -> Handle \cup {NoFile}]]
    BY <1>1, OpenedTypes DEF OpenTempWrite, Inodes
  <2>3. TypeOK'
    BY <1>1, <2>1, <2>2 DEF OpenTempWrite, TInv, TypeOK, loadVars
  <2>4. Numbered'
    BY <1>1 DEF OpenTempWrite, TInv, TypeOK, Numbered, LoadHolds, Goto, loadVars
  <2> QED
    BY <2>3, <2>4 DEF TInv
<1>2. ASSUME NEW s \in Stores, OpenTempWriteFails(s) PROVE TInv'
  <2>1. TypeOK'
    BY <1>2, <1>s, GotoTypes DEF OpenTempWriteFails, TInv, TypeOK, loadVars, disk
  <2>2. Numbered'
    BY <1>2 DEF OpenTempWriteFails, TInv, TypeOK, Numbered, LoadHolds, Goto, loadVars
  <2> QED
    BY <2>1, <2>2 DEF TInv
<1>3. ASSUME NEW s \in Stores, WriteComplete(s) \/ WriteFails(s) PROVE TInv'
  <2>1. stfd[s] \in Fds
    BY <1>3 DEF WriteComplete, WriteFails, TInv, Numbered
  <2>2. Writable(s) => Own(s).ino \in Inodes
    BY <2>1, OwnTypes DEF Writable, Handle
  <2>3. stage' \in [Stores -> StoreStage] /\ thread' \in [Procs -> Stores \cup {NoFile}]
    BY <1>3, <1>s, GotoTypes DEF WriteComplete, WriteFails, AfterWrite, AfterShortWrite
  <2>4. body' \in [Inodes -> Bodies]
    BY <1>3, <2>2 DEF WriteComplete, WriteFails, TInv, TypeOK, Bodies
  <2>5. TypeOK'
    BY <1>3, <2>3, <2>4 DEF WriteComplete, WriteFails, TInv, TypeOK, loadVars
  <2> QED
    BY <1>3, <2>1, <2>5, GotoNumbered DEF WriteComplete, WriteFails, TInv
<1>4. ASSUME NEW s \in Stores, Fsync(s) PROVE TInv'
  <2>1. stfd[s] \in Fds
    BY <1>4 DEF Fsync, Handling, TInv, Numbered
  <2>2. Own(s) # NoFile => Own(s).ino \in Inodes
    BY <2>1, OwnTypes DEF Handle
  <2>3. stage' \in [Stores -> StoreStage] /\ thread' \in [Procs -> Stores \cup {NoFile}]
    BY <1>4, <1>s, GotoTypes DEF Fsync
  <2>4. TypeOK'
    BY <1>4, <2>2, <2>3 DEF Fsync, TInv, TypeOK, loadVars
  <2> QED
    BY <1>4, <2>1, <2>4, GotoNumbered DEF Fsync, TInv
<1>5. ASSUME NEW s \in Stores, CloseTemp(s) \/ CleanupClose(s) PROVE TInv'
  <2>1. stfd[s] \in Fds
    BY <1>5 DEF CloseTemp, CleanupClose, Handling, TInv, Numbered
  <2>2. stage' \in [Stores -> StoreStage] /\ thread' \in [Procs -> Stores \cup {NoFile}]
    BY <1>5, <1>s, GotoTypes DEF CloseTemp, CleanupClose
  <2>3. fdt' \in [Procs -> [Fds -> Handle \cup {NoFile}]]
    BY <1>5, ClosedTypes DEF CloseTemp, CleanupClose
  <2>4. TypeOK'
    BY <1>5, <2>2, <2>3 DEF CloseTemp, CleanupClose, TInv, TypeOK, loadVars, disk
  <2> QED
    BY <1>5, <2>1, <2>4, GotoNumbered DEF CloseTemp, CleanupClose, TInv
<1>6. ASSUME NEW s \in Stores, Link(s) \/ LinkFails(s) PROVE TInv'
  <2>1. stfd[s] \in Fds
    BY <1>6 DEF Link, LinkFails, Handling, TInv, Numbered
  <2>2. stage' \in [Stores -> StoreStage] /\ thread' \in [Procs -> Stores \cup {NoFile}]
    BY <1>6, <1>s, GotoTypes DEF Link, LinkFails
  <2>3. final' \in [Hashes -> Inodes \cup {NoFile}]
    BY <1>6 DEF Link, LinkFails, Linked, TInv, TypeOK, Inodes, disk
  <2>4. TypeOK'
    BY <1>6, <2>2, <2>3 DEF Link, LinkFails, TInv, TypeOK, loadVars, disk
  <2> QED
    BY <1>6, <2>1, <2>4, GotoNumbered DEF Link, LinkFails, TInv
<1>7. ASSUME NEW s \in Stores, Unlink(s) \/ UnlinkFails(s) PROVE TInv'
  <2>1. stfd[s] \in Fds
    BY <1>7 DEF Unlink, UnlinkFails, Handling, TInv, Numbered
  <2>2. stage' \in [Stores -> StoreStage] /\ thread' \in [Procs -> Stores \cup {NoFile}]
    BY <1>7, <1>s, GotoTypes DEF Unlink, UnlinkFails, AfterUnlink
  <2>3. TypeOK'
    BY <1>7, <2>2 DEF Unlink, UnlinkFails, TInv, TypeOK, loadVars, disk
  <2> QED
    BY <1>7, <2>1, <2>3, GotoNumbered DEF Unlink, UnlinkFails, TInv
<1>8. ASSUME NEW s \in Stores, FsyncDir(s) PROVE TInv'
  <2>1. stfd[s] \in Fds
    BY <1>8 DEF FsyncDir, Handling, TInv, Numbered
  <2>2. stage' \in [Stores -> StoreStage] /\ thread' \in [Procs -> Stores \cup {NoFile}]
    BY <1>8, <1>s, GotoTypes DEF FsyncDir
  <2>3. TypeOK'
    BY <1>8, <2>2 DEF FsyncDir, DirSynced, TInv, TypeOK, loadVars
  <2> QED
    BY <1>8, <2>1, <2>3, GotoNumbered DEF FsyncDir, TInv
<1>9. ASSUME NEW s \in Stores, CleanupUnlink(s) \/ CleanupRaises(s) PROVE TInv'
  <2>1. stfd[s] \in Fds
    BY <1>9 DEF CleanupUnlink, CleanupRaises, Handling, TInv, Numbered
  <2>2. stage' \in [Stores -> StoreStage] /\ thread' \in [Procs -> Stores \cup {NoFile}]
    BY <1>9, <1>s, GotoTypes DEF CleanupUnlink, CleanupRaises
  <2>3. TypeOK'
    BY <1>9, <2>2 DEF CleanupUnlink, CleanupRaises, Discarded, TInv, TypeOK, loadVars, disk
  <2> QED
    BY <1>9, <2>1, <2>3, GotoNumbered DEF CleanupUnlink, CleanupRaises, TInv
<1>10. ASSUME NEW l \in Loads, QueueOpenRead(l) \/ QueueRead(l) \/ YieldFd(l) PROVE TInv'
  <2>1. load' \in [Loads -> LoadStage]
    BY <1>10 DEF QueueOpenRead, QueueRead, YieldFd, TInv, TypeOK, LoadStage
  <2>2. TypeOK'
    BY <1>10, <2>1 DEF QueueOpenRead, QueueRead, YieldFd, TInv, TypeOK, storeVars, disk
  <2>3. Numbered'
    BY <1>10, LoadNumbered DEF QueueOpenRead, QueueRead, YieldFd, LoadHolds
  <2> QED
    BY <2>2, <2>3 DEF TInv
<1>11. ASSUME NEW l \in Loads, OpenMisses(l) \/ ReadFails(l) PROVE TInv'
  <2>1. load' \in [Loads -> LoadStage] /\ answer' \in [Loads -> Bodies \cup {NoAnswer, Error}]
    BY <1>11 DEF OpenMisses, ReadFails, TInv, TypeOK, LoadStage
  <2>2. TypeOK'
    BY <1>11, <2>1 DEF OpenMisses, ReadFails, TInv, TypeOK, storeVars, disk
  <2>3. Numbered'
    BY <1>11, LoadNumbered DEF OpenMisses, ReadFails, LoadHolds
  <2> QED
    BY <2>2, <2>3 DEF TInv
<1>12. ASSUME NEW l \in Loads, NEW n \in Fds, OpenDone(l, n) PROVE TInv'
  <2>1. fdt' \in [Procs -> [Fds -> Handle \cup {NoFile}]]
    BY <1>12, OpenedTypes DEF OpenDone, TInv, TypeOK
  <2>2. TypeOK'
    BY <1>12, <1>l, <2>1 DEF OpenDone, TInv, TypeOK, storeVars, disk
  <2>3. Numbered'
    BY <1>12, LoadNumbered DEF OpenDone
  <2> QED
    BY <2>2, <2>3 DEF TInv
<1>13. ASSUME NEW l \in Loads, ReadDone(l) PROVE TInv'
  <2> DEFINE e == fdt[LoadProc[l]][ldfd[l]]
  <2>1. e \in Handle \cup {NoFile}
    BY <1>13 DEF ReadDone, TInv, TypeOK, Numbered, LoadHolds
  <2>2. e # NoFile => body[e.ino] \in Bodies
    BY <2>1 DEF Handle, TInv, TypeOK
  <2>3. TypeOK'
    BY <1>13, <1>l, <2>2 DEF ReadDone, TInv, TypeOK, storeVars, disk
  <2>4. Numbered'
    BY <1>13, LoadNumbered DEF ReadDone, LoadHolds
  <2> QED
    BY <2>3, <2>4 DEF TInv
<1>14. ASSUME NEW l \in Loads, CloseDone(l) PROVE TInv'
  <2>1. fdt' \in [Procs -> [Fds -> Handle \cup {NoFile}]]
    BY <1>14, ClosedTypes DEF CloseDone
  <2>2. TypeOK'
    BY <1>14, <1>l, <2>1 DEF CloseDone, TInv, TypeOK, storeVars, disk
  <2>3. Numbered'
    BY <1>14, LoadNumbered DEF CloseDone
  <2> QED
    BY <2>2, <2>3 DEF TInv
<1>15. ASSUME NEW p \in Procs, Crash(p) PROVE TInv'
  BY <1>15, RestartTypes DEF Crash, TInv, TypeOK, disk
<1>16. ASSUME PowerLoss PROVE TInv'
  BY <1>16, RestartTypes DEF PowerLoss, TInv, TypeOK, Bodies
<1>17. ASSUME UNCHANGED vars PROVE TInv'
  BY <1>17 DEF vars, storeVars, loadVars, disk, TInv, TypeOK, Numbered, LoadHolds
<1> QED
  BY <1>1, <1>2, <1>3, <1>4, <1>5, <1>6, <1>7, <1>8, <1>9, <1>10, <1>11, <1>12, <1>13, <1>14,
     <1>15, <1>16, <1>17 DEF Next

LEMMA AlwaysTyped == Spec => []TInv
BY InitTypes, StepTypes, PTL DEF Spec

\* Every stage, descriptor and name keeps its type, whatever fails.
THEOREM FilesTypeCorrect == Spec => []TypeOK
BY AlwaysTyped, PTL DEF TInv

-----------------------------------------------------------------------------
(* Temporary names, whatever fails.  A store that has not made one yet, or  *)
(* has given it up, has none.                                               *)

LoadStep(l) ==
  \/ QueueOpenRead(l) \/ OpenMisses(l) \/ QueueRead(l) \/ YieldFd(l)
  \/ ReadDone(l) \/ ReadFails(l) \/ CloseDone(l)
  \/ \E n \in Fds : OpenDone(l, n)

\* A load touches neither the stores nor the disk.
LEMMA LoadsOnlyRead ==
  ASSUME NEW l \in Loads, LoadStep(l)
  PROVE  UNCHANGED <<storeVars, disk>>
BY DEF LoadStep, QueueOpenRead, OpenMisses, QueueRead, YieldFd, ReadDone, ReadFails, CloseDone,
   OpenDone

Tidy == \A s \in Stores : stage[s] \in {"idle", "dirsync", "done", "failed"} => s \notin temp

LEMMA StepTidy == TInv /\ Tidy /\ [Next]_vars => Tidy'
<1> SUFFICES ASSUME TInv, Tidy, [Next]_vars PROVE Tidy'
  OBVIOUS
<1> USE FilesAssumption DEF TInv, TypeOK, Tidy, Goto
<1>1. ASSUME NEW s \in Stores, NEW n \in Fds, OpenTempWrite(s, n) PROVE Tidy'
  BY <1>1 DEF OpenTempWrite
<1>2. ASSUME NEW s \in Stores, OpenTempWriteFails(s) PROVE Tidy'
  BY <1>2 DEF OpenTempWriteFails, disk
<1>3. ASSUME NEW s \in Stores, WriteComplete(s) \/ WriteFails(s) PROVE Tidy'
  BY <1>3 DEF WriteComplete, WriteFails, AfterWrite, AfterShortWrite
<1>4. ASSUME NEW s \in Stores, Fsync(s) PROVE Tidy'
  BY <1>4 DEF Fsync
<1>5. ASSUME NEW s \in Stores, CloseTemp(s) \/ CleanupClose(s) PROVE Tidy'
  BY <1>5 DEF CloseTemp, CleanupClose, disk
<1>6. ASSUME NEW s \in Stores, Link(s) \/ LinkFails(s) PROVE Tidy'
  BY <1>6 DEF Link, LinkFails, disk
<1>7. ASSUME NEW s \in Stores, Unlink(s) \/ UnlinkFails(s) PROVE Tidy'
  BY <1>7 DEF Unlink, UnlinkFails, disk
<1>8. ASSUME NEW s \in Stores, FsyncDir(s) PROVE Tidy'
  BY <1>8 DEF FsyncDir, Handling
<1>9. ASSUME NEW s \in Stores, CleanupUnlink(s) \/ CleanupRaises(s) PROVE Tidy'
  BY <1>9 DEF CleanupUnlink, CleanupRaises, Discarded, disk
<1>10. ASSUME NEW l \in Loads, LoadStep(l) PROVE Tidy'
  BY <1>10, LoadsOnlyRead DEF storeVars, disk
<1>11. ASSUME NEW ps, Restart(ps), UNCHANGED temp PROVE Tidy'
  BY <1>11 DEF Restart
<1> QED
  BY <1>1, <1>2, <1>3, <1>4, <1>5, <1>6, <1>7, <1>8, <1>9, <1>10, <1>11
  DEF Next, LoadStep, Crash, PowerLoss, vars, storeVars, disk

\* A store that has ended leaves no temporary name behind, whichever of the
\* calls of finish_write and cleanup_temp failed.
THEOREM NothingLeftBehind == Spec => []NoTempLeft
<1>1. Init => Tidy
  BY DEF Init, Tidy
<1>2. Tidy => NoTempLeft
  BY DEF Tidy, NoTempLeft
<1> QED
  BY <1>1, <1>2, StepTidy, AlwaysTyped, PTL DEF Spec

-----------------------------------------------------------------------------
(* What a power failure leaves of answered stores: provided directories     *)
(* exist durably before the store and _fsync_dir never fails to open one.   *)

DirsLast == SyncOnStore /\ "open" \notin Faults /\ \A s \in Stores : StoreHash[s] \in OldDirs

Visible(s) == final[StoreHash[s]] # NoFile

Lasts ==
  /\ \A s \in Stores : stage[s] = "unlink" => s \in raised \/ Visible(s)
  /\ \A s \in Stores : stage[s] = "dirsync" => Visible(s)
  /\ \A s \in Stores : stage[s] = "done" => Visible(s) /\ StoreHash[s] \in durable

\* Storing never takes a name away or moves it to another file.
LEMMA LinkedKeeps ==
  ASSUME TInv, NEW s \in Stores, Link(s)
  PROVE  /\ \A h \in Hashes : final[h] # NoFile => final'[h] = final[h]
         /\ \A h \in Hashes : final'[h] = final[h] \/ (h = StoreHash[s] /\ final'[h] = s)
         /\ Visible(s)'
<1>1. StoreHash[s] \in Hashes /\ s # NoFile
  BY FilesAssumption DEF Inodes
<1>2. final' = [final EXCEPT ![StoreHash[s]] = IF @ = NoFile THEN s ELSE @]
  BY DEF Link, Linked
<1>3. final \in [Hashes -> Inodes \cup {NoFile}]
  BY DEF TInv, TypeOK
<1>4. final'[StoreHash[s]] = IF final[StoreHash[s]] = NoFile THEN s ELSE final[StoreHash[s]]
  BY <1>1, <1>2, <1>3
<1>5. \A h \in Hashes : h # StoreHash[s] => final'[h] = final[h]
  BY <1>2, <1>3
<1>6. Visible(s)'
  BY <1>1, <1>4 DEF Visible
<1>7. \A h \in Hashes : final[h] # NoFile => final'[h] = final[h]
  BY <1>4, <1>5
<1> QED
  BY <1>4, <1>5, <1>6, <1>7

LEMMA StepLasts == DirsLast /\ TInv /\ Lasts /\ [Next]_vars => Lasts'
<1> SUFFICES ASSUME DirsLast, TInv, Lasts, [Next]_vars PROVE Lasts'
  OBVIOUS
<1> USE FilesAssumption DEF TInv, TypeOK, Lasts, Visible, Goto
<1>1. ASSUME NEW s \in Stores, NEW n \in Fds, OpenTempWrite(s, n) PROVE Lasts'
  BY <1>1 DEF OpenTempWrite
<1>2. ASSUME NEW s \in Stores, OpenTempWriteFails(s) PROVE Lasts'
  BY <1>2 DEF OpenTempWriteFails, disk
<1>3. ASSUME NEW s \in Stores, WriteComplete(s) \/ WriteFails(s) PROVE Lasts'
  BY <1>3 DEF WriteComplete, WriteFails, AfterWrite, AfterShortWrite
<1>4. ASSUME NEW s \in Stores, Fsync(s) PROVE Lasts'
  BY <1>4 DEF Fsync
<1>5. ASSUME NEW s \in Stores, CloseTemp(s) \/ CleanupClose(s) PROVE Lasts'
  BY <1>5 DEF CloseTemp, CleanupClose, disk
<1>6. ASSUME NEW s \in Stores, Link(s) PROVE Lasts'
  <2>1. \A t \in Stores : Visible(t) => Visible(t)'
    BY <1>6, LinkedKeeps
  <2>2. Visible(s)'
    BY <1>6, LinkedKeeps
  <2>3. stage' = [stage EXCEPT ![s] = "unlink"] /\ UNCHANGED <<raised, durable>>
    BY <1>6 DEF Link
  <2> QED
    BY <2>1, <2>2, <2>3
<1>7. ASSUME NEW s \in Stores, LinkFails(s) PROVE Lasts'
  BY <1>7 DEF LinkFails, disk
<1>8. ASSUME NEW s \in Stores, Unlink(s) \/ UnlinkFails(s) PROVE Lasts'
  BY <1>8 DEF Unlink, UnlinkFails, AfterUnlink, Handling, DirsLast, disk
<1>9. ASSUME NEW s \in Stores, FsyncDir(s) PROVE Lasts'
  BY <1>9 DEF FsyncDir, Handling, DirSynced, DirsLast
<1>10. ASSUME NEW s \in Stores, CleanupUnlink(s) \/ CleanupRaises(s) PROVE Lasts'
  BY <1>10 DEF CleanupUnlink, CleanupRaises, disk
<1>11. ASSUME NEW l \in Loads, LoadStep(l) PROVE Lasts'
  BY <1>11, LoadsOnlyRead DEF storeVars, disk
<1>12. ASSUME NEW p \in Procs, Crash(p) PROVE Lasts'
  BY <1>12 DEF Crash, Restart, Underway, disk
<1>13. ASSUME PowerLoss PROVE Lasts'
  <2>1. \A s \in Stores : stage'[s] = "done" <=> stage[s] = "done"
    BY <1>13 DEF PowerLoss, Restart, Underway
  <2>2. \A s \in Stores : stage'[s] \notin {"unlink", "dirsync"}
    BY <1>13 DEF PowerLoss, Restart, Underway
  <2>3. \A s \in Stores : stage[s] = "done" => final'[StoreHash[s]] = final[StoreHash[s]]
    BY <1>13 DEF PowerLoss, Lasting, DirsLast
  <2> QED
    BY <1>13, <2>1, <2>2, <2>3 DEF PowerLoss
<1>14. ASSUME UNCHANGED vars PROVE Lasts'
  BY <1>14 DEF vars, storeVars, disk
<1> QED
  BY <1>1, <1>2, <1>3, <1>4, <1>5, <1>6, <1>7, <1>8, <1>9, <1>10, <1>11, <1>12, <1>13, <1>14
  DEF Next, LoadStep

\* With sync_on_store an answered block survives a power failure, if the
\* directory of its hash was there before and could be opened for the sync.
THEOREM AnswersOutlivePower == DirsLast => (Spec => []AnsweredBlocksSurvive)
<1> SUFFICES ASSUME DirsLast PROVE Spec => []AnsweredBlocksSurvive
  OBVIOUS
<1>1. Init => Lasts
  BY DEF Init, Lasts
<1>2. Lasts => AnsweredBlocksSurvive
  BY DEF Lasts, Visible, AnsweredBlocksSurvive
<1>3. TInv /\ Lasts /\ [Next]_vars => Lasts'
  BY StepLasts
<1> QED
  BY <1>1, <1>2, <1>3, AlwaysTyped, PTL DEF Spec

-----------------------------------------------------------------------------
(* Publication and descriptors, as long as no call of finish_write fails    *)
(* after its close (otherwise a number is closed twice) and files  *)
(* are synced where power may fail.                                         *)

Benign ==
  Faults \cap {"close", "link", "unlink", "dirsync"} = {} /\ ("power" \in Faults => SyncOnStore)

\* A store has its temporary file open until it closes it, on either path.
Open(s) == stage[s] \in {"writing", "sync", "close", "cleanup"}
LoadEntry(l) == fdt[LoadProc[l]][ldfd[l]]
LoadFile(l) == final[LoadHash[l]]

Owned ==
  /\ \A s \in Stores : Open(s) => Own(s) = [ino |-> s, write |-> TRUE]
  /\ \A l \in Loads : LoadHolds(l) =>
       LoadFile(l) # NoFile /\ LoadEntry(l) = [ino |-> LoadFile(l), write |-> FALSE]
  /\ \A l, m \in Loads :
       LoadHolds(l) /\ LoadHolds(m) /\ LoadProc[l] = LoadProc[m] /\ ldfd[l] = ldfd[m] => l = m

\* What is about to be linked is whole, and synced if it has to be; what is
\* linked is as well, and nobody writes to it any more.
Whole ==
  /\ raised = {}
  /\ \A s \in Stores : stage[s] \in {"sync", "close", "link"} => body[s] = StoreHash[s]
  /\ \A s \in Stores : stage[s] \in {"close", "link"} /\ SyncOnStore => s \in synced
  /\ \A h \in Hashes : final[h] # NoFile =>
       /\ body[final[h]] = h
       /\ SyncOnStore => final[h] \in synced
       /\ \A s \in Stores : final[h] = s =>
            stage[s] \notin {"idle", "writing", "sync", "close", "link"}

Answered ==
  \A l \in Loads :
    /\ load[l] \in {"idle", "opening", "opened", "reading"} => answer[l] = NoAnswer
    /\ answer[l] \in {NoAnswer, Error, LoadHash[l]}

FInv == TInv /\ Owned /\ Whole /\ Answered

LEMMA InitFInv == Init => FInv
<1> SUFFICES ASSUME Init PROVE FInv
  OBVIOUS
<1>1. TInv
  BY InitTypes
<1>2. Owned
  BY DEF Init, Owned, Open, LoadHolds
<1>3. Whole
  <2>1. raised = {} /\ \A s \in Stores : stage[s] = "idle"
    BY DEF Init
  <2>2. ASSUME NEW h \in Hashes, final[h] # NoFile PROVE final[h] = h /\ h \in OnDisk
    BY <2>2 DEF Init
  <2>3. \A h \in OnDisk : body[h] = h /\ h \in synced
    BY DEF Init, Inodes
  <2>4. \A h \in Hashes, s \in Stores : h # s
    BY FilesAssumption
  <2> QED
    BY <2>1, <2>2, <2>3, <2>4 DEF Whole
<1>4. Answered
  BY DEF Init, Answered
<1> QED
  BY <1>1, <1>2, <1>3, <1>4 DEF FInv

\* A free number is held by nobody.
LEMMA FreeUnheld ==
  ASSUME FInv, NEW p \in Procs, NEW n \in FreeFds(p)
  PROVE  /\ \A s \in Stores : Open(s) /\ StoreProc[s] = p => stfd[s] # n
         /\ \A l \in Loads : LoadHolds(l) /\ LoadProc[l] = p => ldfd[l] # n
<1>1. ASSUME NEW i \in Inodes, NEW w \in BOOLEAN PROVE [ino |-> i, write |-> w] # NoFile
  <2>1. [ino |-> i, write |-> w] \in Handle
    BY DEF Handle
  <2> QED
    BY <2>1, FilesAssumption
<1>2. \A l \in Loads : LoadFile(l) \in Inodes \cup {NoFile}
  BY FilesAssumption DEF FInv, TInv, TypeOK, LoadFile
<1>3. ASSUME NEW s \in Stores, Open(s), StoreProc[s] = p PROVE stfd[s] # n
  BY <1>1, <1>3 DEF FInv, Owned, FreeFds, Own, Inodes
<1>4. ASSUME NEW l \in Loads, LoadHolds(l), LoadProc[l] = p PROVE ldfd[l] # n
  BY <1>1, <1>2, <1>4 DEF FInv, Owned, FreeFds, LoadEntry
<1> QED
  BY <1>3, <1>4

\* A number is held by one operation of its process.
LEMMA HeldOnce ==
  ASSUME FInv
  PROVE  /\ \A s, t \in Stores : Open(s) /\ Open(t) /\ StoreProc[s] = StoreProc[t]
                                 /\ stfd[s] = stfd[t] => s = t
         /\ \A s \in Stores, l \in Loads :
              ~(Open(s) /\ LoadHolds(l) /\ StoreProc[s] = LoadProc[l] /\ stfd[s] = ldfd[l])
<1>1. ASSUME NEW s \in Stores, NEW t \in Stores, Open(s), Open(t), Own(s) = Own(t) PROVE s = t
  <2>1. Own(s).ino = s /\ Own(t).ino = t
    BY <1>1 DEF FInv, Owned
  <2> QED
    BY <1>1, <2>1
<1>2. ASSUME NEW s \in Stores, NEW l \in Loads, Open(s), LoadHolds(l) PROVE Own(s) # LoadEntry(l)
  <2>1. Own(s).write = TRUE /\ LoadEntry(l).write = FALSE
    BY <1>2 DEF FInv, Owned
  <2> QED
    BY <2>1
<1> QED
  BY <1>1, <1>2 DEF Own, LoadEntry

\* Closing a number that nobody else holds leaves the others what they have.
LEMMA CloseKeeps ==
  ASSUME FInv, NEW p \in Procs, NEW n \in Fds, Closed(p, n)
  PROVE  \A q \in Procs, m \in Fds : q # p \/ m # n => fdt'[q][m] = fdt[q][m]
BY DEF FInv, TInv, TypeOK, Closed

\* Steps that leave numbers and names alone and open nothing keep Owned.
LEMMA OwnedKept ==
  ASSUME FInv, UNCHANGED <<fdt, final, stfd, ldfd>>,
         \A s \in Stores : Open(s)' => Open(s),
         \A l \in Loads : LoadHolds(l)' => LoadHolds(l)
  PROVE  Owned'
BY DEF FInv, Owned, Own, LoadEntry, LoadFile

LEMMA StepOwned ==
  ASSUME Benign, FInv, [Next]_vars
  PROVE  Owned'
<1> USE FilesAssumption
<1>t. /\ stage \in [Stores -> StoreStage] /\ load \in [Loads -> LoadStage]
      /\ stfd \in [Stores -> Fds \cup {NoFd}] /\ ldfd \in [Loads -> Fds \cup {NoFd}]
      /\ \A s \in Stores : stage[s] \notin {"idle", "failed", "lost"} => stfd[s] \in Fds
      /\ \A l \in Loads : LoadHolds(l) => ldfd[l] \in Fds
      /\ fdt \in [Procs -> [Fds -> Handle \cup {NoFile}]]
      /\ StoreProc \in [Stores -> Procs] /\ LoadProc \in [Loads -> Procs]
  BY DEF FInv, TInv, TypeOK, Numbered
<1>0. \A s \in Stores : \A to : Goto(s, to) => \A t \in Stores : t # s => stage'[t] = stage[t]
  BY <1>t DEF Goto
<1>g. \A s \in Stores : \A to : Goto(s, to) => stage'[s] = to
  BY <1>t DEF Goto
<1>1. ASSUME NEW s \in Stores, NEW n \in Fds, OpenTempWrite(s, n) PROVE Owned'
  <2>1. n \in FreeFds(StoreProc[s]) /\ Opened(StoreProc[s], n, s, TRUE) /\ ~Open(s)
        /\ stfd' = [stfd EXCEPT ![s] = n] /\ UNCHANGED <<loadVars, final>>
    BY <1>1 DEF OpenTempWrite, Open
  <2>k. /\ fdt'[StoreProc[s]][n] = [ino |-> s, write |-> TRUE]
        /\ \A q \in Procs, m \in Fds : q # StoreProc[s] \/ m # n => fdt'[q][m] = fdt[q][m]
    BY <1>t, <2>1 DEF Opened
  <2>2. Own(s)' = [ino |-> s, write |-> TRUE]
    BY <1>t, <2>1, <2>k DEF Own
  <2>3. ASSUME NEW t \in Stores, t # s, Open(t)' PROVE Own(t)' = [ino |-> t, write |-> TRUE]
    <3>1. stage'[t] = stage[t]
      BY <1>1, <1>0, <2>3 DEF OpenTempWrite
    <3>2. Open(t) /\ stfd'[t] = stfd[t] /\ stfd[t] \in Fds
      BY <1>t, <2>1, <2>3, <3>1 DEF Open
    <3>3. Own(t)' = Own(t)
      BY <2>1, <3>2, FreeUnheld, <2>k DEF Own
    <3> QED
      BY <3>2, <3>3 DEF FInv, Owned
  <2>4. ASSUME NEW l \in Loads, LoadHolds(l) PROVE LoadEntry(l)' = LoadEntry(l)
    BY <1>t, <2>1, <2>4, FreeUnheld, <2>k DEF LoadEntry, loadVars
  <2> QED
    BY <2>1, <2>2, <2>3, <2>4 DEF FInv, Owned, LoadHolds, LoadFile, loadVars
<1>2. ASSUME NEW s \in Stores, OpenTempWriteFails(s) PROVE Owned'
  BY <1>2, <1>0, <1>g, OwnedKept DEF OpenTempWriteFails, Open, LoadHolds, loadVars, disk
<1>3. ASSUME NEW s \in Stores, WriteComplete(s) \/ WriteFails(s) PROVE Owned'
  BY <1>3, <1>0, <1>g, OwnedKept DEF WriteComplete, WriteFails, Open, LoadHolds, loadVars
<1>4. ASSUME NEW s \in Stores, Fsync(s) PROVE Owned'
  BY <1>4, <1>0, <1>g, OwnedKept DEF Fsync, Handling, Open, LoadHolds, loadVars
<1>5. ASSUME NEW s \in Stores, CloseTemp(s) \/ CleanupClose(s) PROVE Owned'
  <2>1. Open(s) /\ stfd[s] \in Fds
    BY <1>5, <1>t DEF CloseTemp, CleanupClose, Handling, Open
  <2>2. ~Open(s)'
    <3>1. Own(s) # NoFile
      <4>1. [ino |-> s, write |-> TRUE] \in Handle
        BY DEF Handle, Inodes
      <4> QED
        BY <2>1, <4>1 DEF FInv, Owned
    <3> QED
      BY <1>5, <1>g, <3>1 DEF CloseTemp, CleanupClose, Open, Benign
  <2>3. ASSUME NEW t \in Stores, Open(t)' PROVE Open(t) /\ Own(t)' = Own(t)
    <3>1. t # s /\ Open(t)
      BY <1>5, <1>0, <2>2, <2>3 DEF CloseTemp, CleanupClose, Open
    <3>2. stfd[t] \in Fds /\ (StoreProc[t] # StoreProc[s] \/ stfd[t] # stfd[s])
      BY <1>t, <2>1, <3>1, HeldOnce DEF Open
    <3>3. Closed(StoreProc[s], stfd[s]) /\ UNCHANGED stfd
      BY <1>5 DEF CloseTemp, CleanupClose
    <3> QED
      BY <2>1, <3>1, <3>2, <3>3, CloseKeeps DEF Own
  <2>4. ASSUME NEW l \in Loads, LoadHolds(l) PROVE LoadEntry(l)' = LoadEntry(l)
    <3>1. ldfd[l] \in Fds /\ (LoadProc[l] # StoreProc[s] \/ ldfd[l] # stfd[s])
      BY <1>t, <2>1, <2>4, HeldOnce
    <3>2. Closed(StoreProc[s], stfd[s]) /\ UNCHANGED ldfd
      BY <1>5 DEF CloseTemp, CleanupClose, loadVars
    <3> QED
      BY <2>1, <3>1, <3>2, CloseKeeps DEF LoadEntry
  <2>5. UNCHANGED <<load, ldfd, final>>
    BY <1>5 DEF CloseTemp, CleanupClose, loadVars, disk
  <2> QED
    BY <2>3, <2>4, <2>5 DEF FInv, Owned, LoadHolds, LoadFile
<1>6. ASSUME NEW s \in Stores, Link(s) PROVE Owned'
  <2>1. \A l \in Loads : LoadFile(l) # NoFile => LoadFile(l)' = LoadFile(l)
    BY <1>6, LinkedKeeps DEF FInv, LoadFile
  <2>2. \A t \in Stores : Open(t)' => Open(t) /\ Own(t)' = Own(t)
    BY <1>6, <1>0, <1>g DEF Link, Open, Own
  <2>3. UNCHANGED <<fdt, load, ldfd>>
    BY <1>6 DEF Link, loadVars
  <2> QED
    BY <2>1, <2>2, <2>3 DEF FInv, Owned, LoadHolds, LoadEntry
<1>7. ASSUME NEW s \in Stores, LinkFails(s) \/ UnlinkFails(s) PROVE Owned'
  BY <1>7 DEF LinkFails, UnlinkFails, Benign
<1>8. ASSUME NEW s \in Stores, Unlink(s) PROVE Owned'
  <2>1. AfterUnlink(s) # "cleanup"
    BY DEF AfterUnlink, FInv, Whole
  <2> QED
    BY <1>8, <1>0, <1>g, <2>1, OwnedKept DEF Unlink, AfterUnlink, Open, LoadHolds, loadVars
<1>9. ASSUME NEW s \in Stores, FsyncDir(s) PROVE Owned'
  BY <1>9, <1>0, <1>g, OwnedKept DEF FsyncDir, Benign, Open, LoadHolds, loadVars
<1>10. ASSUME NEW s \in Stores, CleanupUnlink(s) \/ CleanupRaises(s) PROVE Owned'
  BY <1>10, <1>0, <1>g, OwnedKept DEF CleanupUnlink, CleanupRaises, Open, LoadHolds, loadVars, disk
<1>11. ASSUME NEW l \in Loads,
              \/ QueueOpenRead(l) \/ OpenMisses(l) \/ QueueRead(l) \/ YieldFd(l)
              \/ ReadDone(l) \/ ReadFails(l)
       PROVE  Owned'
  <2>1. \A m \in Loads : LoadHolds(m)' => LoadHolds(m)
    BY <1>11, <1>t DEF QueueOpenRead, OpenMisses, QueueRead, YieldFd, ReadDone, ReadFails, LoadHolds
  <2>2. UNCHANGED <<fdt, final, stage, stfd, ldfd>>
    BY <1>11 DEF QueueOpenRead, OpenMisses, QueueRead, YieldFd, ReadDone, ReadFails,
       storeVars, disk
  <2> QED
    BY <2>1, <2>2, OwnedKept DEF Open
<1>12. ASSUME NEW l \in Loads, NEW n \in Fds, OpenDone(l, n) PROVE Owned'
  <2>1. n \in FreeFds(LoadProc[l]) /\ Opened(LoadProc[l], n, LoadFile(l), FALSE)
        /\ LoadFile(l) # NoFile /\ UNCHANGED <<stage, stfd, final>>
    BY <1>12 DEF OpenDone, LoadFile, storeVars, disk
  <2>2. ldfd' = [ldfd EXCEPT ![l] = n] /\ load' = [load EXCEPT ![l] = "opened"]
    BY <1>12 DEF OpenDone
  <2>k. /\ fdt'[LoadProc[l]][n] = [ino |-> LoadFile(l), write |-> FALSE]
        /\ \A q \in Procs, m \in Fds : q # LoadProc[l] \/ m # n => fdt'[q][m] = fdt[q][m]
    BY <1>t, <2>1 DEF Opened
  <2>3. LoadEntry(l)' = [ino |-> LoadFile(l), write |-> FALSE] /\ ldfd'[l] = n
    BY <1>t, <2>1, <2>2, <2>k DEF LoadEntry
  <2>4. ASSUME NEW m \in Loads, m # l, LoadHolds(m)'
        PROVE  /\ LoadHolds(m) /\ LoadEntry(m)' = LoadEntry(m) /\ ldfd'[m] = ldfd[m]
               /\ LoadProc[m] = LoadProc[l] => ldfd[m] # n
    <3>1. LoadHolds(m) /\ ldfd'[m] = ldfd[m]
      BY <1>t, <2>2, <2>4 DEF LoadHolds
    <3>2. LoadProc[m] = LoadProc[l] => ldfd[m] # n
      BY <2>1, <3>1, FreeUnheld
    <3>3. ldfd[m] \in Fds /\ LoadProc[m] \in Procs /\ LoadProc[l] \in Procs
      BY <1>t, <3>1
    <3> QED
      BY <2>1, <3>1, <3>2, <3>3, <2>k DEF LoadEntry
  <2>5. ASSUME NEW s \in Stores, Open(s) PROVE Own(s)' = Own(s)
    <3>1. stfd[s] \in Fds /\ stfd' = stfd /\ StoreProc[s] \in Procs /\ LoadProc[l] \in Procs
      BY <1>t, <2>1, <2>5 DEF Open
    <3>2. StoreProc[s] = LoadProc[l] => stfd[s] # n
      BY <2>1, <2>5, <3>1, FreeUnheld
    <3> QED
      BY <2>k, <3>1, <3>2 DEF Own
  <2>6. \A m \in Loads : LoadFile(m)' = LoadFile(m)
    BY <2>1 DEF LoadFile
  <2>7. \A s \in Stores : Open(s)' = Open(s)
    BY <2>1 DEF Open
  <2>8. \A s \in Stores : Open(s)' => Own(s)' = [ino |-> s, write |-> TRUE]
    BY <2>5, <2>7 DEF FInv, Owned
  <2>9. \A m \in Loads : LoadHolds(m)' =>
          LoadFile(m)' # NoFile /\ LoadEntry(m)' = [ino |-> LoadFile(m)', write |-> FALSE]
    BY <2>1, <2>3, <2>4, <2>6 DEF FInv, Owned
  <2>10. ASSUME NEW k \in Loads, NEW m \in Loads, LoadHolds(k)', LoadHolds(m)',
                LoadProc[k] = LoadProc[m], ldfd'[k] = ldfd'[m]
         PROVE  k = m
    BY <2>3, <2>4, <2>10 DEF FInv, Owned
  <2> QED
    BY <2>8, <2>9, <2>10 DEF Owned
<1>13. ASSUME NEW l \in Loads, CloseDone(l) PROVE Owned'
  <2>1. LoadHolds(l) /\ ldfd[l] \in Fds /\ Closed(LoadProc[l], ldfd[l])
        /\ UNCHANGED <<stage, stfd, ldfd, final>>
    BY <1>13, <1>t DEF CloseDone, LoadHolds, storeVars, disk
  <2>2. ASSUME NEW m \in Loads, LoadHolds(m)' PROVE LoadHolds(m) /\ LoadEntry(m)' = LoadEntry(m)
    <3>1. m # l /\ LoadHolds(m)
      BY <1>13, <1>t, <2>2 DEF CloseDone, LoadHolds
    <3>2. ldfd[m] \in Fds /\ (LoadProc[m] # LoadProc[l] \/ ldfd[m] # ldfd[l])
      BY <1>t, <2>1, <3>1 DEF FInv, Owned
    <3> QED
      BY <2>1, <3>1, <3>2, CloseKeeps DEF LoadEntry
  <2>3. ASSUME NEW s \in Stores, Open(s) PROVE Own(s)' = Own(s)
    <3>1. stfd[s] \in Fds /\ (StoreProc[s] # LoadProc[l] \/ stfd[s] # ldfd[l])
      BY <1>t, <2>1, <2>3, HeldOnce DEF Open
    <3> QED
      BY <2>1, <3>1, CloseKeeps DEF Own
  <2> QED
    BY <2>1, <2>2, <2>3 DEF FInv, Owned, Open, LoadFile
<1>14. ASSUME NEW p \in Procs, Crash(p) PROVE Owned'
  <2>1. Restart({p}) /\ UNCHANGED <<stfd, ldfd, final>>
    BY <1>14 DEF Crash, Restart, disk
  <2>2. ASSUME NEW s \in Stores, Open(s)' PROVE Open(s) /\ Own(s)' = Own(s)
    <3>1. StoreProc[s] # p /\ Open(s)
      BY <1>t, <2>1, <2>2 DEF Restart, Underway, Open
    <3> QED
      BY <2>1, <3>1 DEF Restart, Own
  <2>3. ASSUME NEW l \in Loads, LoadHolds(l)' PROVE LoadHolds(l) /\ LoadEntry(l)' = LoadEntry(l)
    <3>1. LoadProc[l] # p /\ LoadHolds(l)
      BY <1>t, <2>1, <2>3 DEF Restart, LoadHolds
    <3> QED
      BY <2>1, <3>1 DEF Restart, LoadEntry
  <2> QED
    BY <2>1, <2>2, <2>3 DEF FInv, Owned, LoadFile
<1>15. ASSUME PowerLoss PROVE Owned'
  <2>1. \A s \in Stores : ~Open(s)'
    BY <1>15, <1>t DEF PowerLoss, Restart, Underway, Open
  <2>2. \A l \in Loads : ~LoadHolds(l)'
    BY <1>15, <1>t DEF PowerLoss, Restart, LoadHolds
  <2> QED
    BY <2>1, <2>2 DEF Owned
<1>16. ASSUME UNCHANGED vars PROVE Owned'
  BY <1>16, OwnedKept DEF vars, storeVars, loadVars, disk, Open, LoadHolds
<1> QED
  BY <1>1, <1>2, <1>3, <1>4, <1>5, <1>6, <1>7, <1>8, <1>9, <1>10, <1>11, <1>12, <1>13, <1>14,
     <1>15, <1>16 DEF Next

Early == {"idle", "writing", "sync", "close", "link"}
Ready == {"sync", "close", "link"}

\* Steps that change no file and make nothing ready to be linked.
LEMMA WholeKept ==
  ASSUME Whole, UNCHANGED <<raised, final, body, synced>>,
         \A s \in Stores : stage'[s] \in Early => stage[s] \in Early,
         \A s \in Stores : stage'[s] \in Ready =>
           stage[s] = stage'[s] \/ (stage[s] = "close" /\ stage'[s] = "link")
  PROVE  Whole'
BY DEF Whole, Early, Ready

LEMMA StepWhole ==
  ASSUME Benign, FInv, [Next]_vars
  PROVE  Whole'
<1> USE FilesAssumption
<1>t. /\ stage \in [Stores -> StoreStage] /\ body \in [Inodes -> Bodies]
      /\ final \in [Hashes -> Inodes \cup {NoFile}]
      /\ synced \subseteq Inodes /\ Stores \subseteq Inodes /\ NoFile \notin Inodes
  BY DEF FInv, TInv, TypeOK, Inodes
<1>w. Whole
  BY DEF FInv
<1>0. \A s \in Stores : \A to : Goto(s, to) => \A t \in Stores : t # s => stage'[t] = stage[t]
  BY <1>t DEF Goto
<1>g. \A s \in Stores : \A to : Goto(s, to) => stage'[s] = to
  BY <1>t DEF Goto
<1>o. ASSUME NEW s \in Stores, stage[s] \in {"writing", "sync"}
      PROVE  Own(s).ino = s /\ Own(s) # NoFile
  <2>1. [ino |-> s, write |-> TRUE] \in Handle
    BY <1>t DEF Handle
  <2>2. Own(s) = [ino |-> s, write |-> TRUE]
    BY <1>o DEF FInv, Owned, Open
  <2>3. Own(s).ino = s
    BY <2>2
  <2>4. Own(s) \in Handle
    BY <2>1, <2>2
  <2>5. Own(s) # NoFile
    BY <2>4
  <2> QED
    BY <2>3, <2>5
<1>1. ASSUME NEW s \in Stores, NEW n \in Fds, OpenTempWrite(s, n) PROVE Whole'
  BY <1>1, <1>w, <1>0, <1>g, WholeKept DEF OpenTempWrite, Early, Ready
<1>2. ASSUME NEW s \in Stores, OpenTempWriteFails(s) PROVE Whole'
  BY <1>2, <1>w, <1>0, <1>g, WholeKept DEF OpenTempWriteFails, Early, Ready, disk
<1>3. ASSUME NEW s \in Stores, WriteComplete(s) PROVE Whole'
  <2>1. body' = [body EXCEPT ![s] = StoreHash[s]] /\ stage[s] = "writing"
        /\ UNCHANGED <<raised, final, synced>>
    BY <1>3, <1>o DEF WriteComplete
  <2>2. \A h \in Hashes : final[h] # s
    BY <1>w, <1>t, <2>1 DEF Whole
  <2>3. stage'[s] = AfterWrite /\ \A u \in Stores : u # s => stage'[u] = stage[u]
    BY <1>3, <1>0, <1>g DEF WriteComplete
  <2>4. body'[s] = StoreHash[s] /\ \A i \in Inodes : i # s => body'[i] = body[i]
    BY <1>t, <2>1
  <2>5. stage'[s] = "sync" \/ (stage'[s] = "close" /\ ~SyncOnStore)
    BY <2>3 DEF AfterWrite
  <2>6. ASSUME NEW u \in Stores, stage'[u] \in Ready PROVE body'[u] = StoreHash[u]
    BY <1>w, <1>t, <2>3, <2>4, <2>6 DEF Whole, Ready
  <2>7. ASSUME NEW u \in Stores, stage'[u] \in {"close", "link"}, SyncOnStore PROVE u \in synced'
    BY <1>w, <2>1, <2>3, <2>5, <2>7 DEF Whole
  <2>8. ASSUME NEW h \in Hashes, final'[h] # NoFile
        PROVE  /\ body'[final'[h]] = h
               /\ SyncOnStore => final'[h] \in synced'
               /\ \A u \in Stores : final'[h] = u => stage'[u] \notin Early
    <3>1. final'[h] = final[h] /\ final[h] # s /\ final[h] \in Inodes
      BY <1>t, <2>1, <2>2, <2>8
    <3> QED
      BY <1>w, <2>1, <2>3, <2>4, <2>8, <3>1 DEF Whole, Early
  <2> QED
    BY <1>w, <2>1, <2>6, <2>7, <2>8 DEF Whole, Early, Ready
<1>4. ASSUME NEW s \in Stores, WriteFails(s) PROVE Whole'
  <2>1. (body' = body \/ body' = [body EXCEPT ![s] = Torn]) /\ stage[s] = "writing"
        /\ UNCHANGED <<raised, final, synced>>
    <3>1. stage[s] = "writing" /\ UNCHANGED <<raised, final, synced>>
      BY <1>4 DEF WriteFails
    <3>2. Own(s).ino = s
      BY <1>o, <3>1
    <3>3. body' = body \/ body' = [body EXCEPT ![Own(s).ino] = Torn]
      BY <1>4 DEF WriteFails
    <3> QED
      BY <3>1, <3>2, <3>3
  <2>2. \A h \in Hashes : final[h] # s
    BY <1>w, <1>t, <2>1 DEF Whole
  <2>3. stage'[s] = "cleanup" /\ \A u \in Stores : u # s => stage'[u] = stage[u]
    BY <1>4, <1>0, <1>g DEF WriteFails, AfterShortWrite
  <2>4. \A i \in Inodes : i # s => body'[i] = body[i]
    BY <1>t, <2>1
  <2>5. ASSUME NEW h \in Hashes, final'[h] # NoFile
        PROVE  /\ body'[final'[h]] = h
               /\ SyncOnStore => final'[h] \in synced'
               /\ \A u \in Stores : final'[h] = u => stage'[u] \notin Early
    <3>1. final'[h] = final[h] /\ final[h] # s /\ final[h] \in Inodes
      BY <1>t, <2>1, <2>2, <2>5
    <3> QED
      BY <1>w, <2>1, <2>3, <2>4, <2>5, <3>1 DEF Whole, Early
  <2>6. \A u \in Stores : stage'[u] \in Ready => u # s /\ body'[u] = StoreHash[u]
    BY <1>w, <1>t, <2>3, <2>4 DEF Whole, Ready
  <2> QED
    BY <1>w, <2>1, <2>3, <2>5, <2>6 DEF Whole, Early, Ready
<1>5. ASSUME NEW s \in Stores, Fsync(s) PROVE Whole'
  <2>1. stage[s] = "sync" /\ UNCHANGED <<raised, final, body>>
    BY <1>5 DEF Fsync, Handling
  <2>2. \/ stage'[s] = "close" /\ synced' = synced \cup {s}
        \/ stage'[s] = "cleanup" /\ synced' = synced
    BY <1>5, <1>g, <1>o, <2>1 DEF Fsync
  <2>3. \A u \in Stores : u # s => stage'[u] = stage[u]
    BY <1>5, <1>0 DEF Fsync
  <2> QED
    BY <1>w, <2>1, <2>2, <2>3 DEF Whole
<1>6. ASSUME NEW s \in Stores, CloseTemp(s) \/ CleanupClose(s) PROVE Whole'
  BY <1>6, <1>w, <1>0, <1>g, WholeKept DEF CloseTemp, CleanupClose, Handling, Early, Ready, disk
<1>7. ASSUME NEW s \in Stores, Link(s) PROVE Whole'
  <2>1. stage[s] = "link" /\ UNCHANGED <<raised, body, synced>>
    BY <1>7 DEF Link, Handling
  <2>2. stage'[s] = "unlink" /\ \A u \in Stores : u # s => stage'[u] = stage[u]
    BY <1>7, <1>0, <1>g DEF Link
  <2>3. \A h \in Hashes : final'[h] = final[h] \/ (h = StoreHash[s] /\ final'[h] = s)
    BY <1>7, LinkedKeeps DEF FInv
  <2>4. body[s] = StoreHash[s] /\ (SyncOnStore => s \in synced)
    BY <1>w, <2>1 DEF Whole
  <2>5. ASSUME NEW h \in Hashes, final'[h] # NoFile
        PROVE  /\ body'[final'[h]] = h
               /\ SyncOnStore => final'[h] \in synced'
               /\ \A u \in Stores : final'[h] = u => stage'[u] \notin Early
    BY <1>w, <2>1, <2>2, <2>3, <2>4, <2>5 DEF Whole, Early
  <2>6. \A u \in Stores : stage'[u] \in Ready => stage'[u] = stage[u]
    BY <2>2 DEF Ready
  <2> QED
    BY <1>w, <2>1, <2>5, <2>6 DEF Whole, Early, Ready
<1>8. ASSUME NEW s \in Stores, LinkFails(s) \/ UnlinkFails(s) PROVE Whole'
  BY <1>8 DEF LinkFails, UnlinkFails, Benign
<1>9. ASSUME NEW s \in Stores, Unlink(s) PROVE Whole'
  BY <1>9, <1>w, <1>0, <1>g, WholeKept DEF Unlink, AfterUnlink, Early, Ready
<1>10. ASSUME NEW s \in Stores, FsyncDir(s) PROVE Whole'
  BY <1>10, <1>w, <1>0, <1>g, WholeKept DEF FsyncDir, Early, Ready
<1>11. ASSUME NEW s \in Stores, CleanupUnlink(s) \/ CleanupRaises(s) PROVE Whole'
  BY <1>11, <1>w, <1>0, <1>g, WholeKept DEF CleanupUnlink, CleanupRaises, Early, Ready, disk
<1>12. ASSUME NEW l \in Loads, LoadStep(l) PROVE Whole'
  BY <1>12, <1>w, LoadsOnlyRead, WholeKept DEF storeVars, disk
<1>13. ASSUME NEW p \in Procs, Crash(p) PROVE Whole'
  <2>1. \A s \in Stores : stage'[s] = stage[s] \/ stage'[s] = "lost"
    BY <1>13 DEF Crash, Restart
  <2> QED
    BY <1>13, <1>w, <2>1, WholeKept DEF Crash, Restart, Early, Ready, disk
<1>14. ASSUME PowerLoss PROVE Whole'
  <2>1. SyncOnStore /\ UNCHANGED <<raised, synced>>
    BY <1>14 DEF PowerLoss, Restart, Benign
  <2>2. \A s \in Stores : stage'[s] \notin Ready
    BY <1>14, <1>t DEF PowerLoss, Restart, Underway, Ready
  <2>3. \A h \in Hashes : final'[h] \in {NoFile, final[h]}
    BY <1>14 DEF PowerLoss
  <2>4. \A i \in synced : body'[i] = body[i]
    BY <1>14, <1>t DEF PowerLoss
  <2>5. \A s \in Stores : stage'[s] \in Early => stage'[s] = stage[s]
    BY <1>14, <1>t DEF PowerLoss, Restart, Underway, Early
  <2>6. ASSUME NEW h \in Hashes, final'[h] # NoFile
        PROVE  /\ body'[final'[h]] = h
               /\ SyncOnStore => final'[h] \in synced'
               /\ \A u \in Stores : final'[h] = u => stage'[u] \notin Early
    BY <1>w, <2>1, <2>3, <2>4, <2>5, <2>6 DEF Whole, Early
  <2> QED
    BY <1>w, <2>1, <2>2, <2>6 DEF Whole, Early, Ready
<1>15. ASSUME UNCHANGED vars PROVE Whole'
  BY <1>15, <1>w, WholeKept DEF vars, storeVars, disk
<1> QED
  BY <1>1, <1>2, <1>3, <1>4, <1>5, <1>6, <1>7, <1>8, <1>9, <1>10, <1>11, <1>12, <1>13, <1>14,
     <1>15 DEF Next, LoadStep

LEMMA StepAnswered ==
  ASSUME FInv, [Next]_vars
  PROVE  Answered'
<1> USE FilesAssumption
<1>t. load \in [Loads -> LoadStage] /\ answer \in [Loads -> Bodies \cup {NoAnswer, Error}]
  BY DEF FInv, TInv, TypeOK
<1>1. ASSUME UNCHANGED loadVars PROVE Answered'
  BY <1>1 DEF FInv, Answered, loadVars
<1>2. ASSUME NEW l \in Loads, QueueOpenRead(l) PROVE Answered'
  BY <1>2, <1>t DEF FInv, Answered, QueueOpenRead
<1>3. ASSUME NEW l \in Loads, OpenMisses(l) \/ ReadFails(l) PROVE Answered'
  BY <1>3, <1>t DEF FInv, Answered, OpenMisses, ReadFails
<1>4. ASSUME NEW l \in Loads, QueueRead(l) PROVE Answered'
  BY <1>4, <1>t DEF FInv, Answered, QueueRead
<1>5. ASSUME NEW l \in Loads, YieldFd(l) PROVE Answered'
  BY <1>5, <1>t DEF FInv, Answered, YieldFd
<1>6. ASSUME NEW l \in Loads, ReadDone(l) PROVE Answered'
  <2>1. LoadFile(l) # NoFile /\ LoadEntry(l) = [ino |-> LoadFile(l), write |-> FALSE]
    BY <1>6 DEF ReadDone, FInv, Owned, LoadHolds
  <2>2. body[LoadFile(l)] = LoadHash[l]
    BY <2>1 DEF FInv, Whole, LoadFile
  <2>3. answer'[l] \in {Error, LoadHash[l]}
    BY <1>6, <1>t, <2>1, <2>2 DEF ReadDone, LoadEntry
  <2>4. load' = [load EXCEPT ![l] = "read"] /\ \A m \in Loads : m # l => answer'[m] = answer[m]
    BY <1>6, <1>t DEF ReadDone
  <2> QED
    BY <1>t, <2>3, <2>4 DEF FInv, Answered
<1>7. ASSUME NEW l \in Loads, CloseDone(l) PROVE Answered'
  BY <1>7, <1>t DEF FInv, Answered, CloseDone
<1>8. ASSUME NEW l \in Loads, NEW n \in Fds, OpenDone(l, n) PROVE Answered'
  BY <1>8, <1>t DEF FInv, Answered, OpenDone
<1>9. ASSUME NEW ps, Restart(ps) PROVE Answered'
  BY <1>9, <1>t DEF FInv, Answered, Restart
<1> QED
  BY <1>1, <1>2, <1>3, <1>4, <1>5, <1>6, <1>7, <1>8, <1>9
  DEF Next, OpenTempWrite, OpenTempWriteFails, WriteComplete, WriteFails, Fsync, CloseTemp, Link,
      LinkFails, Unlink, UnlinkFails, FsyncDir, CleanupClose, CleanupUnlink, CleanupRaises, Crash,
      PowerLoss, vars

LEMMA AlwaysFInv == ASSUME Benign PROVE Spec => []FInv
<1>1. FInv /\ [Next]_vars => FInv'
  BY StepTypes, StepOwned, StepWhole, StepAnswered DEF FInv
<1> QED
  BY <1>1, InitFInv, PTL DEF Spec

\* A final name is linked to a file that holds the whole block of its hash,
\* whichever process wrote it and whatever crashed on the way.
THEOREM PublishedWhole == Benign => (Spec => []PublishedComplete)
<1> SUFFICES ASSUME Benign PROVE Spec => []PublishedComplete
  OBVIOUS
<1>1. FInv => PublishedComplete
  BY DEF FInv, Whole, PublishedComplete
<1> QED
  BY <1>1, AlwaysFInv, PTL

\* The number an operation holds stands for the file it opened, and no two
\* operations of a process hold the same number.
THEOREM NumbersHeldOnce == Benign => (Spec => []DescriptorsOwned)
<1> SUFFICES ASSUME Benign PROVE Spec => []DescriptorsOwned
  OBVIOUS
<1>1. FInv => DescriptorsOwned
  BY DEF FInv, Owned, DescriptorsOwned, StoreHolds, Open, LoadEntry, LoadFile
<1> QED
  BY <1>1, AlwaysFInv, PTL

\* A load is given the block it asked for or an error.
THEOREM LoadsAreTrue == Benign => (Spec => []LoadsGetTheirBlock)
<1> SUFFICES ASSUME Benign PROVE Spec => []LoadsGetTheirBlock
  OBVIOUS
<1>1. FInv => LoadsGetTheirBlock
  BY DEF FInv, Answered, LoadsGetTheirBlock
<1> QED
  BY <1>1, AlwaysFInv, PTL

-----------------------------------------------------------------------------
(* Without power failures the store implements HashStore.                   *)

Published == {h \in Hashes : final[h] # NoFile}

\* Files stay, and only a link makes one visible.
LEMMA StepNames ==
  ASSUME "power" \notin Faults, TInv, [Next]_vars
  PROVE  \A h \in Hashes : final[h] # NoFile => final'[h] = final[h]
<1>1. ASSUME NEW s \in Stores, Link(s)
      PROVE  \A h \in Hashes : final[h] # NoFile => final'[h] = final[h]
  BY <1>1, LinkedKeeps
<1>2. ~PowerLoss
  BY DEF PowerLoss
<1>3. (\E s \in Stores : Link(s)) \/ UNCHANGED final
  BY <1>2
  DEF Next, OpenTempWrite, OpenTempWriteFails, WriteComplete, WriteFails, Fsync, CloseTemp,
      LinkFails, Unlink, UnlinkFails, FsyncDir, CleanupClose, CleanupUnlink, CleanupRaises,
      QueueOpenRead, OpenMisses, QueueRead, YieldFd, ReadDone, ReadFails, CloseDone, OpenDone, Crash,
      disk, vars
<1> QED
  BY <1>1, <1>3

\* A final name that exists goes on naming the same file, however many
\* processes store the block.
THEOREM NamesStay == "power" \notin Faults => (Spec => NamesImmutable)
<1> SUFFICES ASSUME "power" \notin Faults PROVE Spec => NamesImmutable
  OBVIOUS
<1>1. TInv /\ [Next]_vars => [\A h \in Hashes : final[h] # NoFile => final'[h] = final[h]]_vars
  BY StepNames
<1> QED
  BY <1>1, AlwaysTyped, PTL DEF Spec, NamesImmutable

LEMMA StepStore ==
  ASSUME Benign, "power" \notin Faults, FInv, [Next]_vars
  PROVE  [Store!Next]_(Store!svars)
<1> USE FilesAssumption
<1>t. /\ answer \in [Loads -> Bodies \cup {NoAnswer, Error}]
      /\ StoreHash \in [Stores -> Hashes] /\ LoadHash \in [Loads -> Hashes]
  BY DEF FInv, TInv, TypeOK
<1> DEFINE Goal == [Store!Next]_(Store!svars)
<1>1. ASSUME NEW s \in Stores, Link(s) PROVE Goal
  <2>1. \A h \in Hashes : final'[h] # NoFile <=> final[h] # NoFile \/ h = StoreHash[s]
    BY <1>1, LinkedKeeps DEF FInv, Visible
  <2>2. Published' = Published \cup {StoreHash[s]} /\ StoreHash[s] \in Hashes
    BY <1>t, <2>1 DEF Published
  <2>3. UNCHANGED answer
    BY <1>1 DEF Link, loadVars
  <2>4. Store!Publish(StoreHash[s])
    BY <2>2, <2>3 DEF Store!Publish, Published
  <2> QED
    BY <2>2, <2>4 DEF Store!Next
<1>2. ASSUME NEW l \in Loads, OpenMisses(l) \/ ReadFails(l) PROVE Goal
  <2>1. answer[l] = NoAnswer /\ answer' = [answer EXCEPT ![l] = Error] /\ UNCHANGED final
    BY <1>2 DEF OpenMisses, ReadFails, FInv, Answered, disk
  <2>2. Store!Answer(l)
    BY <2>1 DEF Store!Answer
  <2> QED
    BY <2>2 DEF Store!Next
<1>3. ASSUME NEW l \in Loads, ReadDone(l) PROVE Goal
  <2>1. LoadFile(l) # NoFile /\ LoadEntry(l) = [ino |-> LoadFile(l), write |-> FALSE]
    BY <1>3 DEF ReadDone, FInv, Owned, LoadHolds
  <2>2. body[LoadFile(l)] = LoadHash[l] /\ LoadHash[l] \in Published
    BY <1>t, <2>1 DEF FInv, Whole, LoadFile, Published
  <2>3. answer[l] = NoAnswer /\ UNCHANGED final
    BY <1>3 DEF ReadDone, FInv, Answered, disk
  <2>4. \/ answer' = [answer EXCEPT ![l] = Error]
        \/ answer' = [answer EXCEPT ![l] = LoadHash[l]]
    <3> DEFINE e == LoadEntry(l)
               v == IF e = NoFile THEN Error
                    ELSE IF e.write \/ body[e.ino] = Empty THEN Error ELSE body[e.ino]
    <3>1. answer' = [answer EXCEPT ![l] = v]
      BY <1>3 DEF ReadDone, LoadEntry
    <3>2. v = Error \/ v = body[e.ino]
      OBVIOUS
    <3>3. body[e.ino] = LoadHash[l]
      BY <2>1, <2>2
    <3> QED
      BY <3>1, <3>2, <3>3
  <2>5. Store!Answer(l)
    BY <2>2, <2>3, <2>4 DEF Store!Answer, Published
  <2> QED
    BY <2>5 DEF Store!Next
<1>4. ASSUME UNCHANGED <<final, answer>> PROVE Goal
  BY <1>4 DEF Store!svars
<1>5. \/ \E s \in Stores : Link(s)
      \/ \E l \in Loads : OpenMisses(l) \/ ReadFails(l) \/ ReadDone(l)
      \/ UNCHANGED <<final, answer>>
  <2>1. ~PowerLoss
    BY DEF PowerLoss
  <2> QED
    BY <2>1
    DEF Next, OpenTempWrite, OpenTempWriteFails, WriteComplete, WriteFails, Fsync, CloseTemp,
        LinkFails, Unlink, UnlinkFails, FsyncDir, CleanupClose, CleanupUnlink, CleanupRaises,
        QueueOpenRead, QueueRead, YieldFd, CloseDone, OpenDone, Crash, Restart, loadVars, disk, vars
<1> QED
  BY <1>1, <1>2, <1>3, <1>4, <1>5

\* To a reader the directory is a set of blocks that only grows, and a load
\* is answered once, with the published block of its hash or an error.
THEOREM StoreImplementsHashStore ==
  Benign /\ "power" \notin Faults => (Spec => ImplementsHashStore)
<1> SUFFICES ASSUME Benign, "power" \notin Faults PROVE Spec => ImplementsHashStore
  OBVIOUS
<1>1. Init => Store!Init
  <2> SUFFICES ASSUME Init PROVE Store!Init
    OBVIOUS
  <2>1. \A h \in Hashes : final[h] # NoFile <=> h \in OnDisk
    BY FilesAssumption DEF Init, Inodes
  <2>2. OnDisk \subseteq Hashes
    BY FilesAssumption
  <2>3. {h \in Hashes : final[h] # NoFile} = OnDisk
    BY <2>1, <2>2
  <2> QED
    BY <2>3 DEF Init, Store!Init
<1>2. FInv /\ [Next]_vars => [Store!Next]_(Store!svars)
  BY StepStore
<1> QED
  BY <1>1, <1>2, AlwaysFInv, PTL DEF Spec, ImplementsHashStore, Store!Spec
=============================================================================
