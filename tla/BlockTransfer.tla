--------------------------- MODULE BlockTransfer ---------------------------
(***************************************************************************)
(* What the transfer service promises its caller, without slots, queues,   *)
(* preloads or turns (the Futures of TransferCoordinator, the files on     *)
(* disk).  A job is answered once; it succeeds in the very step in which   *)
(* its last file completes; a store file completes by being published, a   *)
(* load file only if its block is published; published blocks stay.        *)
(***************************************************************************)
EXTENDS Naturals, Sequences

CONSTANTS Hashes, Jobs, JobKind, JobHashes, OnDisk

VARIABLES
  future,   \* state of each job's Future
  done,     \* files completed
  stored    \* published blocks

tvars == <<future, done, stored>>

FilesOf(j) == {j} \X (1..Len(JobHashes[j]))
Block(f)   == JobHashes[f[1]][f[2]]

Init == /\ future = [j \in Jobs |-> "none"]
        /\ done = {} /\ stored = OnDisk

\* The job is accepted, declined by the break-even gate, or refused; a job
\* without files is answered at once.
Submit(j) ==
  /\ future[j] = "none"
  /\ \E r \in {"pending", "ok", "error", "declined"} :
       /\ r = "ok" => JobHashes[j] = <<>>
       /\ r = "declined" => JobKind[j] = "load"
       /\ future' = [future EXCEPT ![j] = r]
  /\ UNCHANGED <<done, stored>>

Taken(j) == future[j] \in {"pending", "error"}

\* A file completes; the last one answers the job.
Complete(j, f) ==
  /\ Taken(j) /\ f \in FilesOf(j) \ done
  /\ IF JobKind[j] = "store" THEN stored' = stored \cup {Block(f)}
     ELSE Block(f) \in stored /\ UNCHANGED stored
  /\ done' = done \cup {f}
  /\ future' = IF future[j] = "pending" /\ FilesOf(j) \subseteq done'
                 THEN [future EXCEPT ![j] = "ok"] ELSE future

\* Jobs fail together; a store that fails may still have published a block.
Fail(J) ==
  /\ \A j \in J : future[j] = "pending"
  /\ future' = [j \in Jobs |-> IF j \in J THEN "error" ELSE future[j]]
  /\ \/ UNCHANGED stored
     \/ \E j \in Jobs : /\ JobKind[j] = "store" /\ Taken(j)
                        /\ \E f \in FilesOf(j) : stored' = stored \cup {Block(f)}
  /\ UNCHANGED done

Next ==
  \/ \E j \in Jobs : Submit(j) \/ \E f \in FilesOf(j) : Complete(j, f)
  \/ \E J \in SUBSET Jobs : Fail(J)

Spec == Init /\ [][Next]_tvars
=============================================================================
