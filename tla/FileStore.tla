----------------------------- MODULE FileStore -----------------------------
(***************************************************************************)
(* The block files (DirectIoFileStore of liburing_file.py) at the grain of *)
(* system calls.  Several processes share one directory.  In each, the     *)
(* reactor thread makes its system calls in program order, while the       *)
(* kernel finishes opens, reads and closes that io_uring took over at any  *)
(* time, between any two of them.                                          *)
(*                                                                         *)
(* A store writes a temporary file of its own and links it to the final    *)
(* name; the inode of a store is named after it.                           *)
(***************************************************************************)
EXTENDS FiniteSets

CONSTANTS
  Procs,        \* processes that share the storage
  Hashes,       \* block hashes, each with one final name
  Stores,       \* store files the processes write, each once
  Loads,        \* load or preload files the processes read, each once
  Fds,          \* descriptor numbers of a process
  StoreProc, StoreHash,   \* the process and the hash of each store
  LoadProc, LoadHash,     \* the process and the hash of each load
  OnDisk,       \* hashes whose file is there at the start
  OldDirs,      \* hashes whose directory is there, durably, at the start
  SyncOnStore,  \* sync_on_store
  NoFile, NoFd, NoAnswer, Error, Torn, Empty,
  Faults        \* which calls may fail in this instance

FaultKinds ==
  {"open", "read", "write", "fsync", "close", "link", "unlink", "dirsync", "crash", "power"}

\* The inode of a file present at the start is named after its hash.
Inodes == Stores \cup OnDisk
Handle == [ino : Inodes, write : BOOLEAN]
Bodies == Hashes \cup {Empty, Torn}

ASSUME FilesAssumption ==
  /\ StoreProc \in [Stores -> Procs] /\ StoreHash \in [Stores -> Hashes]
  /\ LoadProc \in [Loads -> Procs] /\ LoadHash \in [Loads -> Hashes]
  /\ OnDisk \subseteq Hashes /\ OldDirs \subseteq Hashes /\ OnDisk \subseteq OldDirs
  /\ SyncOnStore \in BOOLEAN /\ Faults \subseteq FaultKinds
  /\ Stores \cap Hashes = {} /\ NoFile \notin Inodes \cup Handle /\ NoFd \notin Fds
  /\ Empty \notin Hashes /\ Torn \notin Hashes \cup {Empty}
  /\ NoAnswer \notin Bodies /\ Error \notin Bodies \cup {NoAnswer}

VARIABLES
  stage,    \* where each store stands in its sequence of calls
  stfd,     \* the descriptor number a store holds
  raised,   \* stores whose link raised (link_error)
  thread,   \* the store whose completion a reactor thread is handling
  load,     \* where each load stands
  ldfd,     \* the descriptor number a load holds
  answer,   \* what each load was given
  fdt,      \* the descriptor table of each process
  temp,     \* stores whose temporary name exists
  final,    \* the inode each final name is linked to
  body,     \* what each inode holds
  synced,   \* inodes whose body is durable
  durable   \* hashes whose final name is durable in its directory

storeVars == <<stage, stfd, raised, thread>>
loadVars  == <<load, ldfd, answer>>
disk      == <<temp, final, body, synced, durable>>
vars      == <<storeVars, loadVars, fdt, disk>>

StoreStage == {"idle", "writing", "sync", "close", "link", "unlink", "dirsync",
               "done", "cleanup", "discard", "failed", "stuck", "lost"}
LoadStage  == {"idle", "opening", "opened", "reading", "read", "done", "lost"}

TypeOK ==
  /\ stage \in [Stores -> StoreStage] /\ stfd \in [Stores -> Fds \cup {NoFd}]
  /\ raised \subseteq Stores /\ thread \in [Procs -> Stores \cup {NoFile}]
  /\ load \in [Loads -> LoadStage] /\ ldfd \in [Loads -> Fds \cup {NoFd}]
  /\ answer \in [Loads -> Bodies \cup {NoAnswer, Error}]
  /\ fdt \in [Procs -> [Fds -> Handle \cup {NoFile}]]
  /\ temp \subseteq Stores /\ final \in [Hashes -> Inodes \cup {NoFile}]
  /\ body \in [Inodes -> Bodies] /\ synced \subseteq Inodes /\ durable \subseteq Hashes

Init ==
  /\ stage = [s \in Stores |-> "idle"] /\ stfd = [s \in Stores |-> NoFd]
  /\ raised = {} /\ thread = [p \in Procs |-> NoFile]
  /\ load = [l \in Loads |-> "idle"] /\ ldfd = [l \in Loads |-> NoFd]
  /\ answer = [l \in Loads |-> NoAnswer]
  /\ fdt = [p \in Procs |-> [n \in Fds |-> NoFile]]
  /\ temp = {} /\ final = [h \in Hashes |-> IF h \in OnDisk THEN h ELSE NoFile]
  /\ body = [i \in Inodes |-> IF i \in OnDisk THEN i ELSE Empty]
  /\ synced = OnDisk /\ durable = OnDisk

-----------------------------------------------------------------------------
(* Descriptors. *)

FreeFds(p) == {n \in Fds : fdt[p][n] = NoFile}
Opened(p, n, ino, write) ==
  fdt' = [fdt EXCEPT ![p][n] = [ino |-> ino, write |-> write]]

\* close(2) on a number: whatever file the number stands for now.
Closed(p, n) == fdt' = [fdt EXCEPT ![p][n] = NoFile]

\* What system calls of store s on its descriptor reach.
Own(s) == fdt[StoreProc[s]][stfd[s]]
Free(p) == thread[p] = NoFile

\* The next call of the thread that handles the completion of s.
Handling(s, from) == stage[s] = from /\ thread[StoreProc[s]] = s
Goto(s, to) ==
  /\ stage' = [stage EXCEPT ![s] = to]
  /\ thread' = [thread EXCEPT ![StoreProc[s]] =
                  IF to \in {"done", "failed", "writing"} THEN NoFile ELSE s]

-----------------------------------------------------------------------------
(* Storing: open_temp_write and queue_write, then the write's completion. *)

OpenTempWrite(s, n) ==
  /\ stage[s] = "idle" /\ Free(StoreProc[s]) /\ n \in FreeFds(StoreProc[s])
  /\ temp' = temp \cup {s}
  /\ Opened(StoreProc[s], n, s, TRUE)
  /\ stfd' = [stfd EXCEPT ![s] = n]
  /\ \/ Goto(s, "writing")
     \/ "write" \in Faults /\ Goto(s, "cleanup")     \* queue_write raises
  /\ UNCHANGED <<raised, loadVars, final, body, synced, durable>>

OpenTempWriteFails(s) ==
  /\ stage[s] = "idle" /\ Free(StoreProc[s]) /\ "open" \in Faults
  /\ Goto(s, "failed")
  /\ UNCHANGED <<stfd, raised, loadVars, fdt, disk>>

Writable(s) == Own(s) # NoFile /\ Own(s).write

\* Variants for mutation: the file is not synced before the link; a short
\* write passes for a whole one; it is to be resumed, which nothing does.
AfterWriteUnsynced == "close"
AfterShortWriteIgnored == IF SyncOnStore THEN "sync" ELSE "close"
AfterShortWriteResumed == "resume"

AfterWrite == IF SyncOnStore THEN "sync" ELSE "close"
AfterShortWrite == "cleanup"

WriteComplete(s) ==
  /\ stage[s] = "writing" /\ Free(StoreProc[s]) /\ Writable(s)
  /\ body' = [body EXCEPT ![Own(s).ino] = StoreHash[s]]
  /\ Goto(s, AfterWrite)
  /\ UNCHANGED <<stfd, raised, loadVars, fdt, temp, final, synced, durable>>

\* An error or a short count; a number that is not open for writing is EBADF.
WriteFails(s) ==
  /\ stage[s] = "writing" /\ Free(StoreProc[s])
  /\ ~Writable(s) \/ "write" \in Faults
  /\ \/ UNCHANGED body
     \/ Writable(s) /\ body' = [body EXCEPT ![Own(s).ino] = Torn]
  /\ Goto(s, AfterShortWrite)
  /\ UNCHANGED <<stfd, raised, loadVars, fdt, temp, final, synced, durable>>

-----------------------------------------------------------------------------
(* finish_write, call by call. *)

Fsync(s) ==
  /\ Handling(s, "sync")
  /\ \/ /\ Own(s) # NoFile /\ Goto(s, "close") /\ synced' = synced \cup {Own(s).ino}
     \/ /\ Own(s) = NoFile \/ "fsync" \in Faults
        /\ Goto(s, "cleanup") /\ UNCHANGED synced
  /\ UNCHANGED <<stfd, raised, loadVars, fdt, temp, final, body, durable>>

\* A close that reports an error has released the number all the same.
CloseTemp(s) ==
  /\ Handling(s, "close")
  /\ Closed(StoreProc[s], stfd[s])
  /\ \/ Own(s) # NoFile /\ Goto(s, "link")
     \/ (Own(s) = NoFile \/ "close" \in Faults) /\ Goto(s, "cleanup")
  /\ UNCHANGED <<stfd, raised, loadVars, disk>>

\* Variant for mutation: the name is replaced, as rename(2) would.
LinkedOver(s) == [final EXCEPT ![StoreHash[s]] = s]

\* link(2) of the temporary file; a name that is taken is left alone.
Linked(s) == [final EXCEPT ![StoreHash[s]] = IF @ = NoFile THEN s ELSE @]

Link(s) ==
  /\ Handling(s, "link")
  /\ final' = Linked(s)
  /\ Goto(s, "unlink")
  /\ UNCHANGED <<stfd, raised, loadVars, fdt, temp, body, synced, durable>>

LinkFails(s) ==
  /\ Handling(s, "link") /\ "link" \in Faults
  /\ raised' = raised \cup {s}
  /\ Goto(s, "unlink")
  /\ UNCHANGED <<stfd, loadVars, fdt, disk>>

\* Variant for mutation: the clean-up of the error path runs every time.
AfterUnlinkCleans(s) == "cleanup"

AfterUnlink(s) ==
  IF s \in raised THEN "cleanup" ELSE IF SyncOnStore THEN "dirsync" ELSE "done"

Unlink(s) ==
  /\ Handling(s, "unlink")
  /\ temp' = temp \ {s}
  /\ Goto(s, AfterUnlink(s))
  /\ UNCHANGED <<stfd, raised, loadVars, fdt, final, body, synced, durable>>

UnlinkFails(s) ==
  /\ Handling(s, "unlink") /\ "unlink" \in Faults
  /\ Goto(s, "cleanup")
  /\ UNCHANGED <<stfd, raised, loadVars, fdt, disk>>

\* Variant for mutation: the directory is not synced.
DirSyncedNot(s) == durable

\* _fsync_dir: the entries of the hash's own directory become durable; an
\* open of the directory that fails is passed over.
DirSynced(s) == durable \cup {StoreHash[s]}

FsyncDir(s) ==
  /\ Handling(s, "dirsync")
  /\ \/ Goto(s, "done") /\ durable' = DirSynced(s)
     \/ "open" \in Faults /\ Goto(s, "done") /\ UNCHANGED durable
     \/ "dirsync" \in Faults /\ Goto(s, "cleanup") /\ UNCHANGED durable
  /\ UNCHANGED <<stfd, raised, loadVars, fdt, temp, final, body, synced>>

-----------------------------------------------------------------------------
(* cleanup_temp: close, whatever it says, and unlink. *)

CleanupClose(s) ==
  /\ Handling(s, "cleanup")
  /\ Closed(StoreProc[s], stfd[s])
  /\ Goto(s, "discard")
  /\ UNCHANGED <<stfd, raised, loadVars, disk>>

\* Variant for mutation: the temporary name is kept.
DiscardedNot(s) == temp

Discarded(s) == temp \ {s}

CleanupUnlink(s) ==
  /\ Handling(s, "discard")
  /\ temp' = Discarded(s)
  /\ Goto(s, "failed")
  /\ UNCHANGED <<stfd, raised, loadVars, fdt, final, body, synced, durable>>

\* Any other error of the unlink leaves the handler and ends the thread.
CleanupRaises(s) ==
  /\ Handling(s, "discard") /\ "unlink" \in Faults
  /\ Goto(s, "stuck")
  /\ UNCHANGED <<stfd, raised, loadVars, fdt, disk>>

-----------------------------------------------------------------------------
(* Loading: openat, read and close through the ring. *)

QueueOpenRead(l) ==
  /\ load[l] = "idle" /\ Free(LoadProc[l])
  /\ load' = [load EXCEPT ![l] = "opening"]
  /\ UNCHANGED <<storeVars, ldfd, answer, fdt, disk>>

\* The kernel opens the final name and picks a number.
OpenDone(l, n) ==
  /\ load[l] = "opening" /\ final[LoadHash[l]] # NoFile /\ n \in FreeFds(LoadProc[l])
  /\ Opened(LoadProc[l], n, final[LoadHash[l]], FALSE)
  /\ ldfd' = [ldfd EXCEPT ![l] = n]
  /\ load' = [load EXCEPT ![l] = "opened"]
  /\ UNCHANGED <<storeVars, answer, disk>>

OpenMisses(l) ==
  /\ load[l] = "opening"
  /\ final[LoadHash[l]] = NoFile \/ "open" \in Faults
  /\ load' = [load EXCEPT ![l] = "done"]
  /\ answer' = [answer EXCEPT ![l] = Error]
  /\ UNCHANGED <<storeVars, ldfd, fdt, disk>>

QueueRead(l) ==
  /\ load[l] = "opened" /\ Free(LoadProc[l])
  /\ load' = [load EXCEPT ![l] = "reading"]
  /\ UNCHANGED <<storeVars, ldfd, answer, fdt, disk>>

\* A preload yields its descriptor unread (_drain_ready_preload_fds).
YieldFd(l) ==
  /\ load[l] = "opened" /\ Free(LoadProc[l])
  /\ load' = [load EXCEPT ![l] = "read"]
  /\ UNCHANGED <<storeVars, ldfd, answer, fdt, disk>>

\* The number is resolved now; only a whole block counts as read.
ReadDone(l) ==
  LET e == fdt[LoadProc[l]][ldfd[l]]
  IN /\ load[l] = "reading"
     /\ load' = [load EXCEPT ![l] = "read"]
     /\ answer' = [answer EXCEPT ![l] =
          IF e = NoFile THEN Error
          ELSE IF e.write \/ body[e.ino] = Empty THEN Error ELSE body[e.ino]]
     /\ UNCHANGED <<storeVars, ldfd, fdt, disk>>

\* The ring refuses the read, or it ends with an error or a short count.
ReadFails(l) ==
  /\ "read" \in Faults
  /\ load[l] = "reading" \/ (load[l] = "opened" /\ Free(LoadProc[l]))
  /\ load' = [load EXCEPT ![l] = "read"]
  /\ answer' = [answer EXCEPT ![l] = Error]
  /\ UNCHANGED <<storeVars, ldfd, fdt, disk>>

\* _async_close, done by the kernel some time later.
CloseDone(l) ==
  /\ load[l] = "read"
  /\ Closed(LoadProc[l], ldfd[l])
  /\ load' = [load EXCEPT ![l] = "done"]
  /\ UNCHANGED <<storeVars, ldfd, answer, disk>>

-----------------------------------------------------------------------------
(* Failures of processes and of the machine. *)

Underway(s) == stage[s] \notin {"idle", "done", "failed", "lost"}

\* The processes in ps die with what they had under way, and start afresh.
Restart(ps) ==
  /\ stage' = [s \in Stores |->
       IF StoreProc[s] \in ps /\ Underway(s) THEN "lost" ELSE stage[s]]
  /\ thread' = [p \in Procs |-> IF p \in ps THEN NoFile ELSE thread[p]]
  /\ load' = [l \in Loads |->
       IF LoadProc[l] \in ps /\ load[l] \notin {"idle", "done"} THEN "lost" ELSE load[l]]
  /\ fdt' = [p \in Procs |-> IF p \in ps THEN [n \in Fds |-> NoFile] ELSE fdt[p]]
  /\ UNCHANGED <<stfd, raised, ldfd, answer>>

Crash(p) == "crash" \in Faults /\ Restart({p}) /\ UNCHANGED disk

\* A name outlives a power failure for certain if its directory was synced
\* and the directory itself was there durably; a body if it was synced.
Lasting(h) == h \in durable /\ h \in OldDirs

PowerLoss ==
  /\ "power" \in Faults
  /\ Restart(Procs)
  /\ \E gone \in SUBSET {h \in Hashes : ~Lasting(h)} :
       final' = [h \in Hashes |-> IF h \in gone THEN NoFile ELSE final[h]]
  /\ \E torn \in SUBSET (Inodes \ synced) :
       body' = [i \in Inodes |-> IF i \in torn THEN Torn ELSE body[i]]
  /\ UNCHANGED <<temp, synced, durable>>

Next ==
  \/ \E s \in Stores :
       \/ \E n \in Fds : OpenTempWrite(s, n)
       \/ OpenTempWriteFails(s) \/ WriteComplete(s) \/ WriteFails(s)
       \/ Fsync(s) \/ CloseTemp(s) \/ Link(s) \/ LinkFails(s)
       \/ Unlink(s) \/ UnlinkFails(s) \/ FsyncDir(s)
       \/ CleanupClose(s) \/ CleanupUnlink(s) \/ CleanupRaises(s)
  \/ \E l \in Loads :
       \/ QueueOpenRead(l) \/ OpenMisses(l) \/ QueueRead(l) \/ YieldFd(l)
       \/ ReadDone(l) \/ ReadFails(l) \/ CloseDone(l)
       \/ \E n \in Fds : OpenDone(l, n)
  \/ \E p \in Procs : Crash(p)
  \/ PowerLoss

Spec == Init /\ [][Next]_vars

-----------------------------------------------------------------------------
(* Properties. *)

\* A final name is linked to a file that holds the whole block of its hash,
\* whoever wrote it and whatever crashed on the way (finish_write links only
\* what was written whole, and synced if power may fail).
PublishedComplete == \A h \in Hashes : final[h] # NoFile => body[final[h]] = h

\* The number an operation holds stands for the file it opened, and no two
\* operations of a process hold the same one: a close never takes a file
\* away from another operation (finish_write, cleanup_temp, _async_close).
StoreHolds(s) == stage[s] \in {"writing", "sync", "close"}
LoadHolds(l) == load[l] \in {"opened", "reading", "read"}
DescriptorsOwned ==
  /\ \A s \in Stores : StoreHolds(s) => Own(s) = [ino |-> s, write |-> TRUE]
  /\ \A l \in Loads : LoadHolds(l) =>
       fdt[LoadProc[l]][ldfd[l]] = [ino |-> final[LoadHash[l]], write |-> FALSE]
  /\ \A l, m \in Loads :
       LoadHolds(l) /\ LoadHolds(m) /\ LoadProc[l] = LoadProc[m] /\ ldfd[l] = ldfd[m]
         => l = m

\* A store that has ended leaves no temporary name behind, whichever of its
\* calls failed, unless its process died under it.
NoTempLeft == \A s \in Stores : stage[s] \in {"done", "failed"} => s \notin temp

\* With sync_on_store a block whose store was answered survives a power
\* failure (_link_temp_once, _fsync_dir).  It does where the directory of the
\* block was durable before, OldDirs = Hashes, and could be opened: that of a
\* directory made for the block is synced nowhere (liburing_file.py:351).
AnsweredBlocksSurvive ==
  SyncOnStore => \A s \in Stores : stage[s] = "done" => final[StoreHash[s]] # NoFile

\* The bytes a load is given are those of the block it asked for.
LoadsGetTheirBlock == \A l \in Loads : answer[l] \in {NoAnswer, Error, LoadHash[l]}

\* A final name that exists goes on naming the same file, however many
\* processes store the block (the immutable files of the README).
NamesImmutable == [][\A h \in Hashes : final[h] # NoFile => final'[h] = final[h]]_vars

\* Publication is once and for good, and loads get published blocks.
Store == INSTANCE HashStore WITH published <- {h \in Hashes : final[h] # NoFile}
ImplementsHashStore == Store!Spec
=============================================================================
