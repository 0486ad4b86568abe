-------------------------------- MODULE Ring --------------------------------
(***************************************************************************)
(* LiburingRing: the submission and completion rings shared with the       *)
(* kernel.  Indices in shared memory are words that wrap at Word; the code *)
(* computes with them as unbounded integers.  The kernel is external: it   *)
(* takes entries while io_uring_enter runs, finishes operations in any     *)
(* order and posts a completion when the ring has room for it.             *)
(***************************************************************************)
EXTENDS Integers, FiniteSets, SequencesExt

CONSTANTS
  Word,          \* 2^32
  Entries,       \* sq_entries
  CqEntries,     \* cq_entries
  Start,         \* operations the ring has carried before
  Ops,           \* operations to queue, each once
  Empty

ASSUME RingAssumption ==
  /\ {Word, Entries, CqEntries} \subseteq Nat \ {0} /\ Start \in Nat
  /\ IsFiniteSet(Ops)

VARIABLES
  sqHead, sqTail, cqHead, cqTail,   \* words in shared memory
  sqes, cqes,                       \* the two arrays
  pending,                          \* _pending_submit
  kernel,                           \* operations the kernel works on
  poll,                             \* locals of poll_all, or Idle
  queued, refused, delivered,       \* history: accepted, refused, reaped
  isOpen

sq == <<sqHead, sqTail, sqes, pending>>
cq == <<cqHead, cqTail, cqes>>
log == <<queued, refused, delivered>>
vars == <<sq, cq, kernel, poll, log, isOpen>>

Idle == [head |-> 0, tail |-> 0, got |-> <<>>]    \* poll_all is not running
Apart(from, to) == (to - from) % Word             \* the kernel's view: unsigned
Unsent == {sqes[(sqHead + i) % Entries] : i \in 0..(Apart(sqHead, sqTail) - 1)}
Unread == {cqes[(cqHead + i) % CqEntries] : i \in 0..(Apart(cqHead, cqTail) - 1)}

Init ==
  /\ sqHead = Start % Word /\ sqTail = sqHead /\ cqHead = sqHead /\ cqTail = sqHead
  /\ sqes = [i \in 0..(Entries - 1) |-> Empty]
  /\ cqes = [i \in 0..(CqEntries - 1) |-> Empty]
  /\ pending = 0 /\ kernel = {} /\ poll = Idle /\ isOpen = TRUE
  /\ queued = {} /\ refused = {} /\ delivered = {}

Free == isOpen /\ poll = Idle      \* the thread is in no call

(* --- submission --------------------------------------------------------- *)

\* Mutant of Left: the kernel is taken to have accepted everything.
LeftNone(k) == 0
Left(k) == IF k > pending THEN 0 ELSE pending - k

Full(head) == sqTail - head >= Entries

\* io_uring_enter: the kernel takes the k oldest entries; none, when the
\* call fails.
Taken(k) == {sqes[(sqHead + i) % Entries] : i \in 0..(k - 1)}
Enter(k) ==
  /\ k \in 0..Apart(sqHead, sqTail) /\ k <= pending
  /\ sqHead' = (sqHead + k) % Word
  /\ kernel' = kernel \cup Taken(k)
  /\ pending' = Left(k)

\* _begin_sqe with room in the ring, the operation's fields, _commit_sqe.
Write(op) ==
  /\ sqes' = [sqes EXCEPT ![sqTail % Entries] = op]
  /\ sqTail' = (sqTail + 1) % Word
  /\ queued' = queued \cup {op}
Queue(op) ==
  /\ Free /\ op \in Ops \ (queued \cup refused)
  /\ ~Full(sqHead)
  /\ Write(op) /\ pending' = pending + 1
  /\ UNCHANGED <<sqHead, cq, kernel, poll, refused, delivered, isOpen>>

\* _begin_sqe on a full ring hands entries to the kernel first.
QueueAfterFlush(op) ==
  /\ Free /\ op \in Ops \ (queued \cup refused)
  /\ Full(sqHead) /\ pending > 0
  /\ \E k \in 1..pending :
       /\ k <= Apart(sqHead, sqTail) /\ sqHead' = (sqHead + k) % Word
       /\ ~Full(sqHead')
       /\ kernel' = kernel \cup Taken(k)
       /\ pending' = Left(k) + 1
  /\ Write(op)
  /\ UNCHANGED <<cq, poll, refused, delivered, isOpen>>

\* The ring is full and stays so: the call fails, has nothing to hand over or
\* makes no room.  The caller gets an exception.
QueueRefused(op) ==
  /\ Free /\ op \in Ops \ (queued \cup refused)
  /\ Full(sqHead)
  /\ \E k \in 0..pending : Enter(k) /\ Full(sqHead')
  /\ refused' = refused \cup {op}
  /\ UNCHANGED <<sqTail, sqes, cq, poll, queued, delivered, isOpen>>

\* submit_pending; the kernel may take fewer entries than offered.
SubmitPending ==
  /\ Free /\ pending > 0
  /\ \E k \in 1..pending : Enter(k)
  /\ UNCHANGED <<sqTail, sqes, cq, poll, log, isOpen>>

(* --- the kernel --------------------------------------------------------- *)

Post(op) ==
  /\ isOpen /\ op \in kernel
  /\ Apart(cqHead, cqTail) < CqEntries
  /\ cqes' = [cqes EXCEPT ![cqTail % CqEntries] = op]
  /\ cqTail' = (cqTail + 1) % Word
  /\ kernel' = kernel \ {op}
  /\ UNCHANGED <<sq, cqHead, poll, log, isOpen>>

(* --- poll_all ------------------------------------------------------------ *)

\* The tail is read once; completions posted later wait for the next call.
PollBegin ==
  /\ Free /\ cqHead # cqTail
  /\ poll' = [head |-> cqHead, tail |-> cqTail, got |-> <<>>]
  /\ UNCHANGED <<sq, cq, kernel, log, isOpen>>

PollTake ==
  /\ poll.head # poll.tail
  /\ poll' = [poll EXCEPT !.head = @ + 1, !.got = Append(@, cqes[poll.head % CqEntries])]
  /\ UNCHANGED <<sq, cq, kernel, log, isOpen>>

\* Mutant of Reached: the tail of now, not the one that was read.
ReachedTail == cqTail
Reached == poll.head % Word

PollEnd ==
  /\ poll # Idle /\ poll.head = poll.tail
  /\ cqHead' = Reached
  /\ delivered' = delivered \cup Range(poll.got)
  /\ poll' = Idle
  /\ UNCHANGED <<sq, cqTail, cqes, kernel, queued, refused, isOpen>>

\* The rings are unmapped; the kernel drops what it was working on.
Close ==
  /\ Free /\ isOpen' = FALSE
  /\ UNCHANGED <<sq, cq, kernel, poll, log>>

Next ==
  \/ \E op \in Ops : Queue(op) \/ QueueAfterFlush(op) \/ QueueRefused(op) \/ Post(op)
  \/ SubmitPending \/ PollBegin \/ PollTake \/ PollEnd \/ Close

Spec == Init /\ [][Next]_vars

\* Every turn of the reactor polls and submits (_pump_once), the kernel
\* finishes what it took.
FairSpec ==
  /\ Spec /\ WF_vars(SubmitPending) /\ WF_vars(\E op \in Ops : Post(op))
  /\ WF_vars(PollBegin \/ PollTake \/ PollEnd)

(* --- properties --------------------------------------------------------- *)

\* The count submit_pending goes by is the number of entries in the ring:
\* were it less, entries would stay behind; it is corrected by what the
\* kernel says it took (liburing_file.py:275).
PendingExact == pending = Apart(sqHead, sqTail)

\* An operation that was accepted is in one place: an entry not yet handed
\* over, the kernel, a completion not yet reaped, or reaped; it is reaped at
\* most once, and one that was refused is nowhere (liburing_file.py:192 "A
\* full SQ is backpressure, not an error -- flush and retry").
NothingLostOrTwice ==
  /\ PendingExact /\ pending <= Entries
  /\ queued = Unsent \cup kernel \cup Unread \cup delivered
  /\ Cardinality(queued) = pending + Cardinality(kernel)
                             + Apart(cqHead, cqTail) + Cardinality(delivered)
  /\ Range(poll.got) \subseteq Unread /\ IsInjective(poll.got)
  /\ queued \cap refused = {}

\* Everything accepted is reaped.
EveryOpReaped == \A op \in Ops : op \in queued ~> op \in delivered \/ ~isOpen
=============================================================================
