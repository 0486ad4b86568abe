----------------------------- MODULE RingProofs -----------------------------
(***************************************************************************)
(* Why a ring that has carried fewer operations than an index can count    *)
(* loses none and reaps none twice, whatever its sizes, however few        *)
(* entries the kernel takes at a time and in whatever order it finishes.   *)
(* Where the count wraps the run `wrap' shows that the code goes wrong.    *)
(***************************************************************************)
EXTENDS Ring, FiniteSetTheorems, SequenceTheorems, TLAPS

\* The indices do not wrap in the life of the ring.
NoWrap == Start + Cardinality(Ops) < Word

-----------------------------------------------------------------------------
(* The inductive invariant.                                                 *)

\* An index counts on; its entry is the one at its remainder.
SqAt(p) == sqes[p % Entries]
CqAt(p) == cqes[p % CqEntries]
SqLive  == sqHead..(sqTail - 1)
CqLive  == cqHead..(cqTail - 1)
InSq    == {SqAt(p) : p \in SqLive}
InCq    == {CqAt(p) : p \in CqLive}

Types ==
  /\ sqHead \in Nat /\ sqTail \in Nat /\ cqHead \in Nat /\ cqTail \in Nat
  /\ pending \in Nat
  /\ sqes \in [0..(Entries - 1) -> Ops \cup {Empty}]
  /\ cqes \in [0..(CqEntries - 1) -> Ops \cup {Empty}]
  /\ kernel \subseteq Ops /\ queued \subseteq Ops
  /\ refused \subseteq Ops /\ delivered \subseteq Ops

\* The indices count what has been queued and what has been reaped.
Counts ==
  /\ sqTail = Start + Cardinality(queued)
  /\ sqTail = sqHead + pending /\ pending <= Entries
  /\ cqHead = Start + Cardinality(delivered)
  /\ cqHead <= cqTail /\ cqTail - cqHead <= CqEntries
  /\ Cardinality(queued) = pending + Cardinality(kernel)
                             + (cqTail - cqHead) + Cardinality(delivered)

\* An accepted operation has one place, and no entry is a copy of another.
Places ==
  /\ queued = InSq \cup kernel \cup InCq \cup delivered
  /\ InSq \cap kernel = {} /\ InSq \cap InCq = {} /\ InSq \cap delivered = {}
  /\ kernel \cap InCq = {} /\ kernel \cap delivered = {} /\ InCq \cap delivered = {}
  /\ queued \cap refused = {}
  /\ \A p, q \in SqLive : SqAt(p) = SqAt(q) => p = q
  /\ \A p, q \in CqLive : CqAt(p) = CqAt(q) => p = q

\* What poll_all has read so far is the beginning of what is there to read.
Polling ==
  poll # Idle =>
    /\ DOMAIN poll = {"head", "tail", "got"}
    /\ poll.head \in cqHead..poll.tail /\ poll.tail \in cqHead..cqTail
    /\ poll.got \in Seq(Ops) /\ Len(poll.got) = poll.head - cqHead
    /\ \A i \in 1..(poll.head - cqHead) : poll.got[i] = CqAt(cqHead + (i - 1))

Inv == Types /\ Counts /\ Places /\ Polling

-----------------------------------------------------------------------------
(* Remainders and sizes.                                                    *)

LEMMA DivMod ==
  ASSUME NEW n \in Nat \ {0}, NEW a \in Nat
  PROVE  a % n \in 0..(n - 1) /\ \E q \in Int : a = n * q + (a % n)
<1>1. a % n \in 0..(n - 1)
  OBVIOUS
<1>2. a = n * (a \div n) + (a % n) /\ a \div n \in Int
  OBVIOUS
<1>. QED  BY <1>1, <1>2

LEMMA ModLess ==
  ASSUME NEW n \in Nat, NEW a \in Nat, a < n
  PROVE  a % n = a
OBVIOUS

\* Indices less than a ring apart have different entries.
LEMMA ModInjective ==
  ASSUME NEW n \in Nat \ {0}, NEW a \in Nat, NEW b \in Nat,
         a - b < n, b - a < n, a % n = b % n
  PROVE  a = b
<1>1. PICK q \in Int : a = n * q + (a % n)
  BY DivMod
<1>2. PICK r \in Int : b = n * r + (b % n)
  BY DivMod
<1>3. b - a = n * (r - q)
  BY <1>1, <1>2, DivMod
<1>4. ASSUME NEW d \in Int, n * d < n, -n < n * d PROVE d = 0
  BY <1>4
<1>. QED  BY <1>3, <1>4, <1>2

\* An injective stretch of a sequence of entries has as many elements as
\* indices.
Stretch(f, a, b, S) ==
  /\ S = {f[p] : p \in a..(b - 1)}
  /\ \A p, q \in a..(b - 1) : f[p] = f[q] => p = q

LEMMA StretchCard ==
  ASSUME NEW a \in Int, NEW b \in Int, a <= b, NEW f, NEW S, Stretch(f, a, b, S)
  PROVE  IsFiniteSet(S) /\ Cardinality(S) = b - a
<1>. DEFINE g == [p \in a..(b - 1) |-> f[p]]
<1>1. g \in Bijection(a..(b - 1), S)
  <2>1. \A p \in a..(b - 1) : g[p] = f[p] /\ f[p] \in S
    BY DEF Stretch
  <2>2. g \in [a..(b - 1) -> S] /\ \A p, q \in a..(b - 1) : g[p] = g[q] => p = q
    BY <2>1 DEF Stretch
  <2>3. \A x \in S : \E p \in a..(b - 1) : g[p] = x
    BY <2>1 DEF Stretch
  <2>. DEFINE D == a..(b - 1)
  <2>4. g \in [D -> S] /\ (\A p, q \in D : g[p] = g[q] => p = q) /\ DOMAIN g = D
    BY <2>2
  <2>5. \A x \in S : \E p \in D : g[p] = x
    BY <2>3
  <2>. HIDE DEF g, D
  <2>6. g \in Injection(D, S)
    <3>1. IsInjective(g)
      BY <2>4 DEF IsInjective
    <3>. QED  BY <3>1, <2>4 DEF Injection
  <2>7. g \in Surjection(D, S)
    BY <2>4, <2>5 DEF Surjection
  <2>8. g \in Bijection(D, S)
    BY <2>6, <2>7 DEF Bijection
  <2>. QED  BY <2>8 DEF D
<1>2. IsFiniteSet(a..(b - 1)) /\ Cardinality(a..(b - 1)) = b - a
  <2>. DEFINE e == b - 1
  <2>1. e \in Int /\ (a > e <=> a = b) /\ (e - a) + 1 = b - a
    OBVIOUS
  <2>. HIDE DEF e
  <2>2. IsFiniteSet(a..e) /\ Cardinality(a..e) = IF a > e THEN 0 ELSE (e - a) + 1
    BY <2>1, FS_Interval
  <2>3. Cardinality(a..e) = b - a
    BY <2>1, <2>2
  <2>. QED  BY <2>2, <2>3 DEF e
<1>3. IsFiniteSet(S) /\ Cardinality(S) = b - a
  <2>. DEFINE D == a..(b - 1)
  <2>1. IsFiniteSet(D) /\ Cardinality(D) = b - a /\ ExistsBijection(D, S)
    BY <1>1, <1>2 DEF ExistsBijection
  <2>. HIDE DEF D
  <2>. QED  BY <2>1, FS_Bijection
<1>. QED  BY <1>3

LEMMA Sizes ==
  ASSUME Types
  PROVE  /\ IsFiniteSet(Ops) /\ IsFiniteSet(kernel) /\ IsFiniteSet(queued)
         /\ IsFiniteSet(delivered)
         /\ Cardinality(kernel) \in Nat /\ Cardinality(queued) \in Nat
         /\ Cardinality(delivered) \in Nat /\ Cardinality(Ops) \in Nat
         /\ Cardinality(queued) <= Cardinality(Ops)
<1>1. \A S \in SUBSET Ops : IsFiniteSet(S) /\ Cardinality(S) <= Cardinality(Ops)
  BY RingAssumption, FS_Subset
<1>2. \A S \in SUBSET Ops : Cardinality(S) \in Nat
  BY <1>1, FS_CardinalityType
<1>3. Ops \in SUBSET Ops /\ kernel \in SUBSET Ops /\ queued \in SUBSET Ops
      /\ delivered \in SUBSET Ops
  BY DEF Types
<1>. QED  BY <1>1, <1>2, <1>3, Zenon

-----------------------------------------------------------------------------
(* Where nothing wraps, the kernel's view is that of the code.              *)

LEMMA Bounds ==
  ASSUME Types, Counts, NoWrap
  PROVE  /\ sqTail < Word /\ sqHead <= sqTail /\ cqTail < Word
         /\ kernel # {} => cqTail + 1 < Word
         /\ queued # Ops => sqTail + 1 < Word
         /\ Word \in Nat \ {0} /\ Entries \in Nat \ {0} /\ CqEntries \in Nat \ {0}
<1>1. Cardinality(kernel) >= 0 /\ (kernel # {} => Cardinality(kernel) > 0)
  BY Sizes, FS_EmptySet
<1>2. queued # Ops => Cardinality(queued) < Cardinality(Ops)
  BY Sizes, FS_Subset, RingAssumption DEF Types
<1>3. /\ sqHead \in Nat /\ sqTail \in Nat /\ cqHead \in Nat /\ cqTail \in Nat
      /\ pending \in Nat /\ Start \in Nat
  BY RingAssumption DEF Types
<1>4. {Word, Entries, CqEntries} \subseteq Nat \ {0}
  BY RingAssumption
<1>. QED  BY <1>1, <1>2, <1>3, <1>4, Sizes DEF Counts, NoWrap

LEMMA Views ==
  ASSUME Types, Counts, NoWrap
  PROVE  /\ Apart(sqHead, sqTail) = pending /\ Apart(cqHead, cqTail) = cqTail - cqHead
         /\ Unsent = InSq /\ Unread = InCq
<1>1. Apart(sqHead, sqTail) = sqTail - sqHead /\ Apart(cqHead, cqTail) = cqTail - cqHead
  <2>1. ASSUME NEW m \in Nat, NEW n \in Nat, m <= n, n < Word PROVE Apart(m, n) = n - m
    BY <2>1, Bounds, ModLess DEF Apart
  <2>. QED  BY <2>1, Bounds DEF Types, Counts
<1>2. Unsent = InSq
  <2>1. \A i \in 0..(Apart(sqHead, sqTail) - 1) :
          sqHead + i \in SqLive /\ sqes[(sqHead + i) % Entries] = SqAt(sqHead + i)
    BY <1>1 DEF SqLive, SqAt, Types
  <2>2. \A p \in SqLive : p - sqHead \in 0..(Apart(sqHead, sqTail) - 1) /\ sqHead + (p - sqHead) = p
    BY <1>1 DEF SqLive, Types
  <2>. QED  BY <2>1, <2>2 DEF Unsent, InSq, SqAt
<1>3. Unread = InCq
  <2>1. \A i \in 0..(Apart(cqHead, cqTail) - 1) :
          cqHead + i \in CqLive /\ cqes[(cqHead + i) % CqEntries] = CqAt(cqHead + i)
    BY <1>1 DEF CqLive, CqAt, Types
  <2>2. \A p \in CqLive : p - cqHead \in 0..(Apart(cqHead, cqTail) - 1) /\ cqHead + (p - cqHead) = p
    BY <1>1 DEF CqLive, Types
  <2>. QED  BY <2>1, <2>2 DEF Unread, InCq, CqAt
<1>. QED  BY <1>1, <1>2, <1>3 DEF Counts, Types

-----------------------------------------------------------------------------
(* What the two halves of a submission do.                                  *)

\* The k oldest entries go to the kernel; the others keep their places.
LEMMA TakeFacts ==
  ASSUME Inv, NoWrap, NEW k \in 0..pending
  PROVE  LET rest == {SqAt(p) : p \in (sqHead + k)..(sqTail - 1)}
         IN  /\ (sqHead + k) % Word = sqHead + k /\ Left(k) = pending - k
             /\ InSq = Taken(k) \cup rest /\ Taken(k) \cap rest = {}
             /\ Cardinality(kernel \cup Taken(k)) = Cardinality(kernel) + k
<1>. DEFINE rest == {SqAt(p) : p \in (sqHead + k)..(sqTail - 1)}
            first == {SqAt(p) : p \in sqHead..((sqHead + k) - 1)}
<1>1. sqHead \in Nat /\ sqTail \in Nat /\ pending \in Nat /\ sqTail = sqHead + pending
  BY DEF Inv, Types, Counts
<1>2. (sqHead + k) % Word = sqHead + k
  <2>1. sqHead + k < Word
    BY <1>1, Bounds DEF Inv
  <2>. QED  BY <2>1, <1>1, Bounds, ModLess DEF Inv
<1>3. Left(k) = pending - k
  BY <1>1 DEF Left
<1>4. Taken(k) = first
  <2>1. \A i \in 0..(k - 1) :
          sqHead + i \in sqHead..((sqHead + k) - 1) /\ sqes[(sqHead + i) % Entries] = SqAt(sqHead + i)
    BY <1>1 DEF SqAt
  <2>2. \A p \in sqHead..((sqHead + k) - 1) : p - sqHead \in 0..(k - 1) /\ sqHead + (p - sqHead) = p
    BY <1>1
  <2>. QED  BY <2>1, <2>2 DEF Taken, SqAt
<1>5. InSq = first \cup rest
  BY <1>1 DEF InSq, SqLive
<1>6. \A p \in sqHead..((sqHead + k) - 1), q \in (sqHead + k)..(sqTail - 1) :
        p \in SqLive /\ q \in SqLive /\ p # q
  BY <1>1 DEF SqLive
<1>7. first \cap rest = {}
  BY <1>6 DEF Inv, Places
<1>8. Cardinality(kernel \cup first) = Cardinality(kernel) + k
  <2>1. \A p, q \in sqHead..((sqHead + k) - 1) : SqAt(p) = SqAt(q) => p = q
    BY <1>1 DEF Inv, Places, SqLive
  <2>. DEFINE f == [p \in sqHead..((sqHead + k) - 1) |-> SqAt(p)]
  <2>2. {f[p] : p \in sqHead..((sqHead + k) - 1)} = first
    OBVIOUS
  <2>3. IsFiniteSet(first) /\ Cardinality(first) = k
    <3>. DEFINE e == sqHead + k
    <3>1. \A p, q \in sqHead..(e - 1) : f[p] = f[q] => p = q
      BY <2>1
    <3>3. first = {f[p] : p \in sqHead..(e - 1)}
      BY <2>2
    <3>2. sqHead \in Int /\ e \in Int /\ sqHead <= e /\ e - sqHead = k
      BY <1>1
    <3>4. Stretch(f, sqHead, e, first)
      BY <3>1, <3>3 DEF Stretch
    <3>. HIDE DEF f, first, e
    <3>. QED  BY ONLY <3>2, <3>4, StretchCard
  <2>4. kernel \cap first = {}
    BY <1>5 DEF Inv, Places
  <2>. HIDE DEF first
  <2>5. Cardinality(kernel) \in Nat /\ Cardinality(kernel \cap first) = 0
    BY <2>4, Sizes, FS_EmptySet DEF Inv
  <2>6. Cardinality(kernel \cup first)
          = Cardinality(kernel) + Cardinality(first) - Cardinality(kernel \cap first)
    BY <2>3, Sizes, FS_Union DEF Inv
  <2>. QED  BY <2>3, <2>5, <2>6
<1>. QED  BY <1>2, <1>3, <1>4, <1>5, <1>7, <1>8

\* The operation is written behind the last entry, into a free one.
LEMMA WriteFacts ==
  ASSUME Inv, NoWrap, NEW op \in Ops, op \notin queued, Write(op),
         NEW h \in sqHead..sqTail, sqTail - h < Entries
  PROVE  /\ sqTail' = sqTail + 1 /\ queued' = queued \cup {op}
         /\ Cardinality(queued') = Cardinality(queued) + 1
         /\ sqes' \in [0..(Entries - 1) -> Ops \cup {Empty}]
         /\ \A p \in h..(sqTail - 1) : sqes'[p % Entries] = SqAt(p)
         /\ sqes'[sqTail % Entries] = op
<1>1. sqHead \in Nat /\ sqTail \in Nat /\ h \in Nat /\ Entries \in Nat \ {0}
  BY Bounds DEF Inv, Types
<1>2. sqTail' = sqTail + 1
  <2>1. queued # Ops
    OBVIOUS
  <2>. QED  BY <1>1, <2>1, Bounds, ModLess DEF Inv, Write
<1>3. queued' = queued \cup {op} /\ Cardinality(queued') = Cardinality(queued) + 1
  BY Sizes, FS_AddElement DEF Inv, Write
<1>4. sqTail % Entries \in 0..(Entries - 1)
  BY <1>1, DivMod
<1>5. sqes' \in [0..(Entries - 1) -> Ops \cup {Empty}] /\ sqes'[sqTail % Entries] = op
  BY <1>4 DEF Inv, Types, Write
<1>6. \A p \in h..(sqTail - 1) : sqes'[p % Entries] = SqAt(p)
  <2>. TAKE p \in h..(sqTail - 1)
  <2>1. p \in Nat /\ p - sqTail < Entries /\ sqTail - p < Entries /\ p # sqTail
    BY <1>1
  <2>2. p % Entries # sqTail % Entries
    BY <2>1, <1>1, ModInjective
  <2>3. p % Entries \in 0..(Entries - 1)
    BY <2>1, <1>1, DivMod
  <2>. QED  BY <2>2, <2>3 DEF SqAt, Write, Inv, Types
<1>. QED  BY <1>2, <1>3, <1>5, <1>6

-----------------------------------------------------------------------------
(* Every step keeps the invariant.                                          *)

LEMMA InitInv == ASSUME NoWrap, Init PROVE Inv
<1>1. Start \in Nat /\ {Word, Entries, CqEntries} \subseteq Nat \ {0}
      /\ Cardinality(Ops) \in Nat
  BY RingAssumption, FS_CardinalityType
<1>2. Start % Word = Start
  BY <1>1, ModLess DEF NoWrap
<1>3. Types
  BY <1>1, <1>2 DEF Types, Init
<1>4. Counts
  BY <1>1, <1>2, FS_EmptySet DEF Counts, Init
<1>5. Places
  BY <1>1, <1>2 DEF Places, Init, InSq, InCq, SqLive, CqLive
<1>6. Polling
  BY DEF Polling, Init
<1>. QED  BY <1>3, <1>4, <1>5, <1>6 DEF Inv

\* The completions and what was read of them are left alone.
LEMMA CqKept ==
  ASSUME UNCHANGED cq
  PROVE  InCq' = InCq /\ CqLive' = CqLive /\ \A p : CqAt(p)' = CqAt(p)
BY DEF cq, InCq, CqLive, CqAt

LEMMA PollKept ==
  ASSUME Polling, UNCHANGED <<cq, poll>>
  PROVE  Polling'
BY CqKept DEF Polling, cq

\* _begin_sqe, with or without a flush, and _commit_sqe.
LEMMA QueueInv ==
  ASSUME Inv, NoWrap, NEW op \in Ops \ (queued \cup refused), NEW k \in 0..pending,
         sqTail - (sqHead + k) < Entries, Write(op),
         sqHead' = (sqHead + k) % Word, kernel' = kernel \cup Taken(k),
         pending' = Left(k) + 1, UNCHANGED <<cq, poll, refused, delivered>>
  PROVE  Inv'
<1>. DEFINE h == sqHead + k
            rest == {SqAt(p) : p \in h..(sqTail - 1)}
<1>1. /\ sqHead \in Nat /\ sqTail \in Nat /\ pending \in Nat /\ k \in Nat /\ h \in Nat
      /\ sqTail = sqHead + pending
      /\ h \in sqHead..sqTail /\ pending <= Entries /\ Entries \in Nat \ {0}
  <2>1. Entries \in Nat \ {0}
    BY RingAssumption
  <2>2. sqHead \in Nat /\ sqTail \in Nat /\ pending \in Nat /\ k \in Nat
    BY DEF Inv, Types
  <2>3. sqTail = sqHead + pending /\ pending <= Entries
    BY DEF Inv, Counts
  <2>. QED  BY <2>1, <2>2, <2>3
<1>2. /\ sqHead' = h /\ pending' = (pending - k) + 1
      /\ InSq = Taken(k) \cup rest /\ Taken(k) \cap rest = {}
      /\ Cardinality(kernel') = Cardinality(kernel) + k
  BY <1>1, TakeFacts
<1>. HIDE DEF h
<1>3. /\ sqTail' = sqTail + 1 /\ queued' = queued \cup {op}
      /\ Cardinality(queued') = Cardinality(queued) + 1
      /\ sqes' \in [0..(Entries - 1) -> Ops \cup {Empty}]
      /\ \A p \in h..(sqTail - 1) : sqes'[p % Entries] = SqAt(p)
      /\ sqes'[sqTail % Entries] = op
  <2>1. sqTail - h < Entries
    BY DEF h
  <2>. QED  BY <1>1, <2>1, WriteFacts
<1>4. InSq \subseteq Ops
  BY DEF Inv, Places, Types
<1>5. Types'
  <2>1. Taken(k) \subseteq Ops
    BY <1>2, <1>4
  <2>. QED  BY <1>1, <1>2, <1>3, <2>1 DEF Inv, Types, cq
<1>6. Counts'
  <2>1. Cardinality(queued) \in Nat /\ Cardinality(kernel) \in Nat /\ Cardinality(delivered) \in Nat
    BY Sizes DEF Inv
  <2>2. pending' <= Entries /\ sqTail' = sqHead' + pending'
    <3>1. sqTail - h < Entries
      BY DEF h
    <3>. QED  BY ONLY <1>1, <1>2, <1>3, <3>1 DEF h
  <2>3. Start \in Nat /\ cqHead \in Nat /\ cqTail \in Nat
    BY RingAssumption DEF Inv, Types
  <2>4. sqTail' = Start + Cardinality(queued')
    <3>1. sqTail = Start + Cardinality(queued)
      BY DEF Inv, Counts
    <3>2. sqTail' = sqTail + 1 /\ Cardinality(queued') = Cardinality(queued) + 1
      BY <1>3
    <3>. QED  BY ONLY <3>1, <3>2, <1>1, <2>1, <2>3
  <2>5. Cardinality(queued') = pending' + Cardinality(kernel')
                               + (cqTail - cqHead) + Cardinality(delivered)
    <3>1. Cardinality(queued) = pending + Cardinality(kernel)
                                + (cqTail - cqHead) + Cardinality(delivered)
      BY DEF Inv, Counts
    <3>2. /\ pending' = (pending - k) + 1 /\ Cardinality(kernel') = Cardinality(kernel) + k
          /\ Cardinality(queued') = Cardinality(queued) + 1
          /\ pending \in Nat /\ k \in Nat
      BY <1>1, <1>2, <1>3
    <3>. QED  BY ONLY <3>1, <3>2, <2>1, <2>3
  <2>. QED  BY <2>2, <2>4, <2>5 DEF Inv, Counts, cq
<1>7. SqLive' = (h..(sqTail - 1)) \cup {sqTail}
  <2>1. sqTail' - 1 = sqTail
    BY <1>1, <1>3
  <2>2. h..sqTail = (h..(sqTail - 1)) \cup {sqTail}
    BY <1>1
  <2>. QED  BY <1>2, <2>1, <2>2 DEF SqLive
<1>8. InSq' = rest \cup {op}
  BY <1>7, <1>3 DEF InSq, SqAt
<1>9. \A p, q \in SqLive' : SqAt(p)' = SqAt(q)' => p = q
  <2>1. \A p, q \in h..(sqTail - 1) : SqAt(p) = SqAt(q) => p = q
    BY <1>1 DEF Inv, Places, SqLive
  <2>2. \A p \in h..(sqTail - 1) : SqAt(p) \in queued
    BY <1>2 DEF Inv, Places
  <2>. QED  BY <1>7, <1>3, <2>1, <2>2 DEF SqAt
<1>10. Places'
  <2>. HIDE DEF rest
  <2>1. InCq' = InCq /\ (\A p, q \in CqLive' : CqAt(p)' = CqAt(q)' => p = q)
    BY CqKept DEF Inv, Places
  <2>. QED  BY <1>2, <1>3, <1>8, <1>9, <2>1 DEF Inv, Places
<1>. QED  BY <1>5, <1>6, <1>10, PollKept DEF Inv

LEMMA SubmitInv == ASSUME Inv, NoWrap, SubmitPending PROVE Inv'
<1>1. PICK k \in 1..pending : Enter(k)
  BY DEF SubmitPending
<1>2. k \in 0..pending /\ UNCHANGED <<sqTail, sqes, cq, poll, queued, refused, delivered>>
  BY <1>1, RingAssumption DEF SubmitPending, Enter, log, Inv, Types
<1>. DEFINE h == sqHead + k
            rest == {SqAt(p) : p \in h..(sqTail - 1)}
<1>3. /\ sqHead \in Nat /\ sqTail \in Nat /\ pending \in Nat /\ k \in Nat /\ h \in Nat
      /\ sqTail = sqHead + pending
      /\ pending <= Entries /\ Entries \in Nat \ {0}
  <2>1. Entries \in Nat \ {0}
    BY RingAssumption
  <2>2. sqHead \in Nat /\ sqTail \in Nat /\ pending \in Nat
    BY DEF Inv, Types
  <2>3. sqTail = sqHead + pending /\ pending <= Entries
    BY DEF Inv, Counts
  <2>. QED  BY <1>2, <2>1, <2>2, <2>3
<1>4. /\ sqHead' = h /\ pending' = pending - k /\ kernel' = kernel \cup Taken(k)
      /\ InSq = Taken(k) \cup rest /\ Taken(k) \cap rest = {}
      /\ Cardinality(kernel') = Cardinality(kernel) + k
  BY <1>1, <1>2, TakeFacts DEF Enter
<1>5. InSq' = rest /\ (\A p, q \in SqLive' : SqAt(p)' = SqAt(q)' => p = q)
  <2>1. SqLive' = h..(sqTail - 1) /\ SqLive' \subseteq SqLive
    BY <1>2, <1>3, <1>4 DEF SqLive
  <2>. QED  BY <2>1, <1>2 DEF InSq, SqAt, Inv, Places
<1>6. Types'
  <2>1. Taken(k) \subseteq Ops
    BY <1>4 DEF Inv, Places, Types
  <2>. QED  BY <1>2, <1>3, <1>4, <2>1 DEF Inv, Types, cq
<1>7. Counts'
  <2>1. Cardinality(queued) \in Nat /\ Cardinality(kernel) \in Nat /\ Cardinality(delivered) \in Nat
    BY Sizes DEF Inv
  <2>2. Start \in Nat /\ cqHead \in Nat /\ cqTail \in Nat
    BY RingAssumption DEF Inv, Types
  <2>. QED  BY <1>2, <1>3, <1>4, <2>1, <2>2 DEF Inv, Counts, cq
<1>8. Places'
  <2>. HIDE DEF rest
  <2>1. InCq' = InCq /\ (\A p, q \in CqLive' : CqAt(p)' = CqAt(q)' => p = q)
    BY <1>2, CqKept DEF Inv, Places
  <2>. QED  BY <1>2, <1>4, <1>5, <2>1 DEF Inv, Places
<1>. QED  BY <1>2, <1>6, <1>7, <1>8, PollKept DEF Inv

\* A submission leaves the places of its entries alone.
LEMMA SqKept ==
  ASSUME UNCHANGED sq
  PROVE  InSq' = InSq /\ SqLive' = SqLive /\ \A p : SqAt(p)' = SqAt(p)
BY DEF sq, InSq, SqLive, SqAt

\* The completion is written behind the last one, into a free entry.
LEMMA PostInv == ASSUME Inv, NoWrap, NEW op \in Ops, Post(op) PROVE Inv'
<1>1. /\ cqHead \in Nat /\ cqTail \in Nat /\ cqHead <= cqTail /\ CqEntries \in Nat \ {0}
  BY Bounds DEF Inv, Types, Counts
<1>2. /\ cqTail - cqHead < CqEntries /\ op \in kernel /\ kernel' = kernel \ {op}
      /\ UNCHANGED <<sq, cqHead, poll, queued, refused, delivered>>
  BY Views DEF Post, Inv, log
<1>3. cqTail' = cqTail + 1
  BY <1>1, <1>2, Bounds, ModLess DEF Inv, Post
<1>4. cqTail % CqEntries \in 0..(CqEntries - 1)
  BY <1>1, DivMod
<1>5. /\ cqes' \in [0..(CqEntries - 1) -> Ops \cup {Empty}]
      /\ cqes'[cqTail % CqEntries] = op
  BY <1>4 DEF Inv, Types, Post
<1>6. \A p \in CqLive : cqes'[p % CqEntries] = CqAt(p)
  <2>. TAKE p \in CqLive
  <2>1. p \in Nat /\ p - cqTail < CqEntries /\ cqTail - p < CqEntries /\ p # cqTail
    BY <1>1, <1>2 DEF CqLive
  <2>2. p % CqEntries # cqTail % CqEntries
    BY <2>1, <1>1, ModInjective
  <2>3. p % CqEntries \in 0..(CqEntries - 1)
    BY <2>1, <1>1, DivMod
  <2>. QED  BY <2>2, <2>3 DEF CqAt, Post, Inv, Types
<1>7. CqLive' = CqLive \cup {cqTail}
  <2>1. cqTail' - 1 = cqTail /\ cqHead' = cqHead
    BY <1>1, <1>2, <1>3
  <2>2. cqHead..cqTail = (cqHead..(cqTail - 1)) \cup {cqTail}
    BY <1>1
  <2>. QED  BY <2>1, <2>2 DEF CqLive
<1>8. InCq' = InCq \cup {op}
  BY <1>5, <1>6, <1>7 DEF InCq, CqAt
<1>9. \A p, q \in CqLive' : CqAt(p)' = CqAt(q)' => p = q
  <2>1. \A p \in CqLive : CqAt(p) # op
    BY <1>2 DEF Inv, Places, InCq
  <2>. QED  BY <1>5, <1>6, <1>7, <2>1 DEF CqAt, Inv, Places
<1>10. Types'
  BY <1>1, <1>2, <1>3, <1>5 DEF Inv, Types, sq
<1>11. Counts'
  <2>1. /\ Cardinality(queued) \in Nat /\ Cardinality(kernel) \in Nat
        /\ Cardinality(delivered) \in Nat /\ Cardinality(kernel') = Cardinality(kernel) - 1
    BY <1>2, Sizes, FS_RemoveElement DEF Inv
  <2>2. Cardinality(queued) = pending + Cardinality(kernel)
                              + (cqTail - cqHead) + Cardinality(delivered)
    BY DEF Inv, Counts
  <2>3. pending \in Nat
    BY DEF Inv, Types
  <2>4. Cardinality(queued) = pending + Cardinality(kernel')
                              + (cqTail' - cqHead) + Cardinality(delivered)
    BY ONLY <1>1, <1>3, <2>1, <2>2, <2>3
  <2>5. cqHead <= cqTail' /\ cqTail' - cqHead <= CqEntries
    BY <1>1, <1>2, <1>3
  <2>. QED  BY <1>2, <2>4, <2>5 DEF Inv, Counts, sq
<1>12. Places'
  <2>1. InSq' = InSq /\ (\A p, q \in SqLive' : SqAt(p)' = SqAt(q)' => p = q)
    BY <1>2, SqKept DEF Inv, Places
  <2>. QED  BY <1>2, <1>8, <1>9, <2>1 DEF Inv, Places
<1>13. Polling'
  <2>. SUFFICES ASSUME poll # Idle PROVE Polling'
    BY <1>2 DEF Polling
  <2>1. poll.head \in cqHead..poll.tail /\ poll.tail \in cqHead..cqTail
    BY DEF Inv, Polling
  <2>2. \A i \in 1..(poll.head - cqHead) : cqes'[(cqHead + (i - 1)) % CqEntries] = CqAt(cqHead + (i - 1))
    <3>. TAKE i \in 1..(poll.head - cqHead)
    <3>1. cqHead + (i - 1) \in CqLive
      BY <1>1, <2>1 DEF CqLive
    <3>. QED  BY <3>1, <1>6
  <2>3. poll.tail \in cqHead'..cqTail'
    BY <1>1, <1>2, <1>3, <2>1
  <2>. QED  BY <1>2, <2>1, <2>2, <2>3 DEF Inv, Polling, CqAt
<1>. QED  BY <1>10, <1>11, <1>12, <1>13 DEF Inv

\* What nothing but poll_all changes.
LEMMA RestKept ==
  ASSUME Types, Counts, Places, UNCHANGED <<sq, cq, kernel, queued, refused, delivered>>
  PROVE  Types' /\ Counts' /\ Places'
<1>1. Types'
  BY DEF Types, sq, cq
<1>2. Counts'
  BY DEF Counts, sq, cq
<1>3. InSq' = InSq /\ (\A p, q \in SqLive' : SqAt(p)' = SqAt(q)' => p = q)
  BY SqKept DEF Places
<1>4. InCq' = InCq /\ (\A p, q \in CqLive' : CqAt(p)' = CqAt(q)' => p = q)
  BY CqKept DEF Places
<1>. QED  BY <1>1, <1>2, <1>3, <1>4 DEF Places

LEMMA PollBeginInv == ASSUME Inv, NoWrap, PollBegin PROVE Inv'
<1>1. Types' /\ Counts' /\ Places'
  BY RestKept DEF Inv, PollBegin, log
<1>2. cqHead \in Nat /\ cqTail \in Nat /\ cqHead <= cqTail
  BY DEF Inv, Types, Counts
<1>3. poll' = [head |-> cqHead, tail |-> cqTail, got |-> <<>>] /\ UNCHANGED cq
  BY DEF PollBegin
<1>4. cqHead - cqHead = 0 /\ cqHead \in cqHead..cqTail /\ cqTail \in cqHead..cqTail
  BY <1>2
<1>5. <<>> \in Seq(Ops) /\ Len(<<>>) = 0
  OBVIOUS
<1>. QED  BY <1>1, <1>3, <1>4, <1>5 DEF Inv, Polling, cq

LEMMA PollTakeInv == ASSUME Inv, NoWrap, PollTake PROVE Inv'
<1>1. Types' /\ Counts' /\ Places'
  BY RestKept DEF Inv, PollTake, log
<1>2. poll # Idle
  BY DEF PollTake, Idle
<1>3. /\ DOMAIN poll = {"head", "tail", "got"}
      /\ poll.head \in cqHead..poll.tail /\ poll.tail \in cqHead..cqTail
      /\ poll.got \in Seq(Ops) /\ Len(poll.got) = poll.head - cqHead
      /\ \A i \in 1..(poll.head - cqHead) : poll.got[i] = CqAt(cqHead + (i - 1))
  BY <1>2 DEF Inv, Polling
<1>. DEFINE n == poll.head - cqHead
            x == CqAt(poll.head)
<1>4. cqHead \in Nat /\ cqTail \in Nat /\ poll.head \in Nat /\ poll.tail \in Nat /\ n \in Nat
      /\ cqHead + n = poll.head /\ poll.head # poll.tail
  BY <1>3 DEF Inv, Types, PollTake
<1>5. x \in Ops
  <2>1. poll.head \in CqLive
    BY <1>3, <1>4 DEF CqLive
  <2>. QED  BY <2>1 DEF Inv, Places, Types, InCq
<1>6. poll' = [poll EXCEPT !.head = poll.head + 1, !.got = Append(poll.got, x)] /\ UNCHANGED cq
  BY DEF PollTake, CqAt
<1>7. /\ poll'.head = poll.head + 1 /\ poll'.tail = poll.tail
      /\ poll'.got = Append(poll.got, x) /\ DOMAIN poll' = DOMAIN poll
  BY <1>3, <1>6
<1>. HIDE DEF x
<1>8. /\ poll'.got \in Seq(Ops) /\ Len(poll'.got) = n + 1
      /\ \A i \in 1..n : poll'.got[i] = poll.got[i]
      /\ poll'.got[n + 1] = x
  BY <1>3, <1>5, <1>7, AppendProperties
<1>9. poll'.head - cqHead = n + 1 /\ poll'.head \in cqHead..poll.tail
  BY <1>3, <1>4, <1>7
<1>10. \A i \in 1..(n + 1) : poll'.got[i] = CqAt(cqHead + (i - 1))
  <2>1. \A i \in 1..(n + 1) : i \in 1..n \/ (i = n + 1 /\ cqHead + (i - 1) = poll.head)
    BY <1>4
  <2>. QED  BY <2>1, <1>3, <1>8 DEF x
<1>11. cqHead' = cqHead /\ cqTail' = cqTail /\ (\A p : CqAt(p)' = CqAt(p))
  BY <1>6, CqKept DEF cq
<1>. HIDE DEF n
<1>12. Polling'
  BY <1>3, <1>7, <1>8, <1>9, <1>10, <1>11 DEF Polling
<1>. QED  BY <1>1, <1>12 DEF Inv

\* What poll_all has read is what lies before its position, once each.
LEMMA GotFacts ==
  ASSUME Inv, poll # Idle
  PROVE  LET got == {CqAt(p) : p \in cqHead..(poll.head - 1)}
         IN  /\ Range(poll.got) = got /\ got \subseteq InCq /\ IsInjective(poll.got)
             /\ IsFiniteSet(got) /\ Cardinality(got) = poll.head - cqHead
<1>. DEFINE head == poll.head
            got == {CqAt(p) : p \in cqHead..(head - 1)}
            f == [p \in cqHead..(head - 1) |-> CqAt(p)]
<1>1. /\ head \in cqHead..poll.tail /\ poll.tail \in cqHead..cqTail
      /\ poll.got \in Seq(Ops) /\ Len(poll.got) = head - cqHead
      /\ \A i \in 1..(head - cqHead) : poll.got[i] = CqAt(cqHead + (i - 1))
  BY DEF Inv, Polling
<1>2. cqHead \in Nat /\ cqTail \in Nat /\ head \in Nat /\ poll.tail \in Nat /\ head <= cqTail
  BY <1>1 DEF Inv, Types
<1>3. \A p \in cqHead..(head - 1) : p \in CqLive
  BY <1>2 DEF CqLive
<1>4. DOMAIN poll.got = 1..(head - cqHead)
  BY <1>1
<1>. HIDE DEF head
<1>5. Range(poll.got) = got
  <2>1. \A i \in 1..(head - cqHead) : cqHead + (i - 1) \in cqHead..(head - 1)
    BY <1>2
  <2>2. \A p \in cqHead..(head - 1) :
          p - cqHead + 1 \in 1..(head - cqHead) /\ cqHead + ((p - cqHead + 1) - 1) = p
    BY <1>2
  <2>3. \A p \in cqHead..(head - 1) : \E i \in 1..(head - cqHead) : poll.got[i] = CqAt(p)
    BY <2>2, <1>1
  <2>. QED  BY <1>1, <1>4, <2>1, <2>3 DEF Range
<1>6. IsInjective(poll.got)
  <2>. SUFFICES ASSUME NEW i \in 1..(head - cqHead), NEW k \in 1..(head - cqHead),
                       poll.got[i] = poll.got[k]
                PROVE  i = k
    BY <1>4 DEF IsInjective
  <2>1. cqHead + (i - 1) \in CqLive /\ cqHead + (k - 1) \in CqLive
    BY <1>2, <1>3
  <2>2. cqHead + (i - 1) = cqHead + (k - 1)
    BY <1>1, <2>1 DEF Inv, Places
  <2>. QED  BY <2>2, <1>2
<1>7. IsFiniteSet(got) /\ Cardinality(got) = head - cqHead
  <2>1. \A p, q \in cqHead..(head - 1) : f[p] = f[q] => p = q
    BY <1>3 DEF Inv, Places
  <2>2. got = {f[p] : p \in cqHead..(head - 1)}
    OBVIOUS
  <2>3. cqHead \in Int /\ head \in Int /\ cqHead <= head
    BY <1>1, <1>2 DEF head
  <2>4. Stretch(f, cqHead, head, got)
    BY <2>1, <2>2 DEF Stretch
  <2>. HIDE DEF f, got
  <2>. QED  BY ONLY <2>3, <2>4, StretchCard
<1>8. got \subseteq InCq
  BY <1>3 DEF InCq
<1>. QED  BY <1>5, <1>6, <1>7, <1>8 DEF head

LEMMA PollEndInv == ASSUME Inv, NoWrap, PollEnd PROVE Inv'
<1>. DEFINE got == {CqAt(p) : p \in cqHead..(poll.head - 1)}
            rest == {CqAt(p) : p \in poll.head..(cqTail - 1)}
<1>1. /\ poll # Idle /\ poll.head = poll.tail /\ poll' = Idle
      /\ cqHead' = poll.head % Word /\ delivered' = delivered \cup Range(poll.got)
      /\ UNCHANGED <<sq, cqTail, cqes, kernel, queued, refused>>
  BY DEF PollEnd, Reached
<1>2. poll.head \in cqHead..poll.tail /\ poll.tail \in cqHead..cqTail
  BY <1>1 DEF Inv, Polling
<1>3. cqHead \in Nat /\ cqTail \in Nat /\ poll.head \in Nat /\ poll.head <= cqTail /\ cqHead <= poll.head
  BY <1>1, <1>2 DEF Inv, Types
<1>4. cqHead' = poll.head
  BY <1>1, <1>3, Bounds, ModLess DEF Inv
<1>5. /\ Range(poll.got) = got /\ got \subseteq InCq
      /\ IsFiniteSet(got) /\ Cardinality(got) = poll.head - cqHead
  BY <1>1, GotFacts
<1>6. InCq = got \cup rest /\ got \cap rest = {}
  <2>1. \A p : p \in CqLive <=> p \in cqHead..(poll.head - 1) \/ p \in poll.head..(cqTail - 1)
    BY <1>3 DEF CqLive
  <2>2. \A p \in cqHead..(poll.head - 1), q \in poll.head..(cqTail - 1) : p # q
    BY <1>3
  <2>3. got \cap rest = {}
    BY <2>1, <2>2 DEF Inv, Places
  <2>. QED  BY <2>1, <2>3 DEF InCq
<1>7. InCq' = rest /\ (\A p, q \in CqLive' : CqAt(p)' = CqAt(q)' => p = q)
  <2>1. CqLive' = poll.head..(cqTail - 1) /\ CqLive' \subseteq CqLive
    BY <1>1, <1>3, <1>4 DEF CqLive
  <2>. QED  BY <1>1, <2>1 DEF InCq, CqAt, Inv, Places
<1>. HIDE DEF got, rest
<1>8. Cardinality(delivered') = Cardinality(delivered) + (poll.head - cqHead)
  <2>1. delivered \cap got = {}
    BY <1>5 DEF Inv, Places
  <2>2. Cardinality(delivered') = Cardinality(delivered) + Cardinality(got) - Cardinality({})
    BY <1>1, <1>5, <2>1, Sizes, FS_Union DEF Inv
  <2>3. Cardinality(delivered) \in Nat /\ Cardinality({}) = 0
    BY Sizes, FS_EmptySet DEF Inv
  <2>. QED  BY <1>3, <1>5, <2>2, <2>3
<1>9. Types'
  <2>1. got \subseteq Ops
    BY <1>5 DEF Inv, Places, Types
  <2>. QED  BY <1>1, <1>3, <1>4, <1>5, <2>1 DEF Inv, Types, sq
<1>10. Counts'
  <2>1. /\ Cardinality(queued) \in Nat /\ Cardinality(kernel) \in Nat
        /\ Cardinality(delivered) \in Nat /\ pending \in Nat /\ Start \in Nat
    BY Sizes, RingAssumption DEF Inv, Types
  <2>2. /\ Cardinality(queued) = pending + Cardinality(kernel)
                                 + (cqTail - cqHead) + Cardinality(delivered)
        /\ cqHead = Start + Cardinality(delivered) /\ cqTail - cqHead <= CqEntries
    BY DEF Inv, Counts
  <2>3. Cardinality(queued) = pending + Cardinality(kernel)
                              + (cqTail - cqHead') + Cardinality(delivered')
    BY ONLY <1>3, <1>4, <1>8, <2>1, <2>2
  <2>4. cqHead' = Start + Cardinality(delivered')
    BY ONLY <1>3, <1>4, <1>8, <2>1, <2>2
  <2>5. cqHead' <= cqTail /\ cqTail - cqHead' <= CqEntries
    BY <1>3, <1>4, <2>2, RingAssumption
  <2>. QED  BY <1>1, <2>3, <2>4, <2>5 DEF Inv, Counts, sq
<1>11. Places'
  <2>1. InSq' = InSq /\ (\A p, q \in SqLive' : SqAt(p)' = SqAt(q)' => p = q)
    BY <1>1, SqKept DEF Inv, Places
  <2>. QED  BY <1>1, <1>5, <1>6, <1>7, <2>1 DEF Inv, Places
<1>. QED  BY <1>1, <1>9, <1>10, <1>11 DEF Inv, Polling

\* Had the kernel taken an entry there would be room: it took none.
LEMMA RefusedInv == ASSUME Inv, NoWrap, NEW op \in Ops, QueueRefused(op) PROVE Inv'
<1>0. PICK k \in 0..pending : Enter(k) /\ Full(sqHead')
  BY DEF QueueRefused
<1>a. /\ sqHead \in Nat /\ sqTail \in Nat /\ pending \in Nat /\ Entries \in Nat
      /\ sqTail = sqHead + pending /\ pending <= Entries
  BY RingAssumption DEF Inv, Types, Counts
<1>b. sqHead' = sqHead + k /\ pending' = pending - k /\ kernel' = kernel \cup Taken(k)
  BY <1>0, TakeFacts DEF Enter
<1>c. sqTail' = sqTail /\ Entries' = Entries
  BY DEF QueueRefused
<1>d. sqTail - (sqHead + k) >= Entries
  BY <1>0, <1>b, <1>c DEF Full
<1>e. k = 0
  BY <1>a, <1>d
<1>f. Taken(k) = {}
  BY <1>e DEF Taken
<1>g. sqHead' = sqHead /\ pending' = pending /\ kernel' = kernel
  BY <1>a, <1>b, <1>e, <1>f
<1>1. refused' = refused \cup {op} /\ op \notin queued
      /\ UNCHANGED <<sq, cq, kernel, poll, queued, delivered>>
  BY <1>g DEF QueueRefused, sq
<1>2. Types' /\ Counts'
  BY <1>1 DEF Inv, Types, Counts, sq, cq
<1>3. Places'
  <2>1. InSq' = InSq /\ (\A p, q \in SqLive' : SqAt(p)' = SqAt(q)' => p = q)
    BY <1>1, SqKept DEF Inv, Places
  <2>2. InCq' = InCq /\ (\A p, q \in CqLive' : CqAt(p)' = CqAt(q)' => p = q)
    BY <1>1, CqKept DEF Inv, Places
  <2>. QED  BY <1>1, <2>1, <2>2 DEF Inv, Places
<1>. QED  BY <1>1, <1>2, <1>3, PollKept DEF Inv

LEMMA KeptInv == ASSUME Inv, UNCHANGED <<sq, cq, kernel, poll, log>> PROVE Inv'
<1>1. Types' /\ Counts' /\ Places'
  BY RestKept DEF Inv, log
<1>. QED  BY <1>1, PollKept DEF Inv

LEMMA NextInv == ASSUME Inv, NoWrap, [Next]_vars PROVE Inv'
<1>1. ASSUME NEW op \in Ops, Queue(op) PROVE Inv'
  <2>1. 0 \in 0..pending /\ sqHead \in Nat /\ sqTail \in Nat /\ sqTail < Word /\ sqHead <= sqTail
        /\ Word \in Nat /\ pending \in Nat /\ Entries \in Nat
    BY Bounds DEF Inv, Types
  <2>2. Taken(0) = {} /\ Left(0) = pending /\ (sqHead + 0) % Word = sqHead /\ sqHead + 0 = sqHead
    BY <2>1, ModLess DEF Taken, Left
  <2>3. sqTail - (sqHead + 0) < Entries
    BY <1>1, <2>1, <2>2 DEF Queue, Full
  <2>. QED  BY <1>1, <2>1, <2>2, <2>3, QueueInv DEF Queue
<1>2. ASSUME NEW op \in Ops, QueueAfterFlush(op) PROVE Inv'
  <2>1. PICK k \in 1..pending :
          /\ sqHead' = (sqHead + k) % Word /\ ~Full(sqHead')
          /\ kernel' = kernel \cup Taken(k) /\ pending' = Left(k) + 1
    BY <1>2 DEF QueueAfterFlush
  <2>2. k \in 0..pending /\ sqTail \in Nat /\ sqHead \in Nat /\ Entries \in Nat
    BY Bounds DEF Inv, Types
  <2>3. sqHead' = sqHead + k
    BY <2>1, <2>2, TakeFacts
  <2>4. sqTail - (sqHead + k) < Entries
    BY <2>1, <2>2, <2>3 DEF Full
  <2>. QED  BY <1>2, <2>1, <2>2, <2>4, QueueInv DEF QueueAfterFlush
<1>3. CASE Close
  BY <1>3, KeptInv DEF Close
<1>4. CASE UNCHANGED vars
  BY <1>4, KeptInv DEF vars
<1>. QED  BY <1>1, <1>2, <1>3, <1>4, RefusedInv, PostInv, SubmitInv, PollBeginInv,
             PollTakeInv, PollEndInv DEF Next

-----------------------------------------------------------------------------
(* The theorem.                                                             *)

LEMMA InvGivesProperty == ASSUME Inv, NoWrap PROVE NothingLostOrTwice
<1>1. /\ Apart(sqHead, sqTail) = pending /\ Apart(cqHead, cqTail) = cqTail - cqHead
      /\ Unsent = InSq /\ Unread = InCq
  BY Views DEF Inv
<1>2. Range(poll.got) \subseteq InCq /\ IsInjective(poll.got)
  <2>1. CASE poll = Idle
    BY <2>1 DEF Idle, Range, IsInjective
  <2>. QED  BY <2>1, GotFacts
<1>. QED  BY <1>1, <1>2 DEF NothingLostOrTwice, PendingExact, Inv, Counts, Places

\* In the life of a ring that carries fewer than Word operations no accepted
\* operation is lost, none is reaped twice and none that was refused is in
\* it, over partial submissions, flushes of a full ring, failures of
\* io_uring_enter and completions in any order (liburing_file.py).
THEOREM RingLosesNothing == ASSUME NoWrap PROVE Spec => []NothingLostOrTwice
<1>1. Init => Inv
  BY InitInv
<1>2. Inv /\ [Next]_vars => Inv'
  BY NextInv
<1>3. Inv => NothingLostOrTwice
  BY InvGivesProperty
<1>. QED  BY <1>1, <1>2, <1>3, PTL DEF Spec
=============================================================================
