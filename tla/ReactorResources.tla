-------------------------- MODULE ReactorResources --------------------------
(***************************************************************************)
(* Why the reactor's books balance, for every workload, pool size and set  *)
(* of faults, except that "parked on a read that is going on" needs        *)
(* submissions that are not refused.                                       *)
(*                                                                         *)
(* The shared-preload mode: a hash is queued, read, staged, parked on a    *)
(* write or known missing, never two of them; the counters say what is     *)
(* under way; a retained object is wanted by somebody; and a load parked   *)
(* on a read is parked on one that is going on.                            *)
(*                                                                         *)
(* The slots: none is lost, given away twice or overwritten while a copy   *)
(* reads it.  Every slot has one holder, an object or cache entry a copy   *)
(* reads is counted as read, and each copy finds its block in its slot,    *)
(* over every error path and through STOP.                                 *)
(***************************************************************************)
EXTENDS ReactorProofs, FunctionTheorems

USE DEF turn, intake, jobList, fileVars, loadIo, budget, specQ, parked, specIo,
        inflight, demand, pool, retained, storeIo, copying, preload, slots, jobs,
        transfers

-----------------------------------------------------------------------------
(* The inductive invariant.                                                 *)

\* How often a hash stands in a queue, and in a table of records.
Times(s, h)   == Cardinality({k \in 1..Len(s) : s[k] = h})
Entries(T, h) == Cardinality({x \in T : x.hash = h})

One(b) == IF b THEN 1 ELSE 0

\* The places of a hash that exclude a queued or running read of it.
Shelf(h) == One(IsShared(h)) + One(h \in blocked) + One(h \in knownMissing)

UnderWay(h) == Entries(preOpens, h) + Times(preReady, h) + Entries(preReads, h)

\* A cancelled entry stays in the queue until its turn comes, so a hash may be
\* queued while it is read for parked loads.  It may not be while it is read
\* for nobody, parked on a write or known missing: a second read could start.
Book(h) ==
  /\ preInflight[h] = UnderWay(h)
  /\ cancel[h] \in Nat /\ cancel[h] <= Times(pending, h)
  /\ Times(pending, h) - cancel[h] + preInflight[h] + Shelf(h) <= 1
  /\ (h \in blocked \/ h \in knownMissing) => Times(pending, h) = 0
  /\ (preInflight[h] > 0 /\ waiters[h] = {}) => Times(pending, h) = 0

\* The requests that own a demand for h are counted in it, and an object is
\* retained only while some demand for it is counted.
Owners(h) == {q \in Reqs : <<q, h>> \in owned}
Covered   == \A h \in Hashes : refcount[h] >= Cardinality(Owners(h))
Wanted    == \A h \in Hashes : IsShared(h) => refcount[h] > 0

Total ==
  /\ IsFiniteSet(preOpens) /\ IsFiniteSet(preReads)
  /\ mode = "run" =>
       preTotal = Cardinality(preOpens) + Len(preReady) + Cardinality(preReads)

\* Parked loads have their read, if no submission is refused.
Served == "submit" \notin Faults => \A h \in Hashes : waiters[h] # {} => preInflight[h] > 0

Books      == \A h \in Hashes : Book(h)
Preloading == Alive => Total /\ Books /\ Covered /\ Wanted /\ Served

-----------------------------------------------------------------------------
(* Counting.                                                                *)

LEMMA TimesType ==
  ASSUME NEW S, NEW s \in Seq(S), NEW h
  PROVE  /\ Times(s, h) \in Nat
         /\ IsFiniteSet({k \in 1..Len(s) : s[k] = h})
         /\ Times(s, h) = 0 <=> \A k \in 1..Len(s) : s[k] # h
<1>. DEFINE P == {k \in 1..Len(s) : s[k] = h}
<1>1. IsFiniteSet(1..Len(s))
  BY FS_Interval
<1>2. IsFiniteSet(P)
  BY <1>1, FS_Subset
<1>3. Times(s, h) = 0 <=> P = {}
  BY <1>2, FS_EmptySet DEF Times
<1>. QED  BY <1>2, <1>3, FS_CardinalityType DEF Times

LEMMA TimesAppend ==
  ASSUME NEW S, NEW s \in Seq(S), NEW x \in S, NEW h
  PROVE  Times(Append(s, x), h) = Times(s, h) + One(x = h)
<1>. DEFINE P == {k \in 1..Len(s) : s[k] = h}
            t == Append(s, x)
            Q == {k \in 1..Len(t) : t[k] = h}
            n == Len(s) + 1
<1>1. Len(s) \in Nat /\ Len(t) = n /\ t[n] = x /\ \A k \in 1..Len(s) : t[k] = s[k]
  BY AppendProperties
<1>2. \A k : k \in Q <=> k \in P \/ (x = h /\ k = n)
  BY <1>1
<1>3. n \notin P
  BY <1>1
<1>4. /\ IsFiniteSet(P) /\ Cardinality(P) \in Nat
      /\ Times(s, h) = Cardinality(P) /\ Times(t, h) = Cardinality(Q)
  BY TimesType DEF Times
<1>. HIDE DEF P, Q, t
<1>5. CASE x = h
  <2>1. Q = P \cup {n}
    BY <1>2, <1>5
  <2>2. Cardinality(Q) = Cardinality(P) + 1
    BY <1>3, <1>4, <2>1, FS_AddElement
  <2>. QED  BY <1>4, <1>5, <2>2 DEF One, t
<1>6. CASE x # h
  <2>1. Q = P
    BY <1>2, <1>6
  <2>. QED  BY <1>4, <1>6, <2>1 DEF One, t
<1>. QED  BY <1>5, <1>6

LEMMA TimesTail ==
  ASSUME NEW S, NEW s \in Seq(S), s # <<>>, NEW h
  PROVE  Times(s, h) = Times(Tail(s), h) + One(Head(s) = h)
<1>. DEFINE t == Tail(s)
            P == {k \in 1..Len(s) : s[k] = h}
            R == {k \in P : k # 1}
            Q == {k \in 1..Len(t) : t[k] = h}
            f == [k \in Q |-> k + 1]
<1>1. /\ Len(s) \in Nat /\ Len(s) > 0 /\ Head(s) = s[1] /\ t \in Seq(S)
      /\ Len(t) = Len(s) - 1 /\ \A k \in 1..Len(t) : t[k] = s[k + 1]
  BY HeadTailProperties, EmptySeq
<1>2. IsFiniteSet(P) /\ Cardinality(P) = Times(s, h) /\ IsFiniteSet(Q)
      /\ Cardinality(Q) = Times(t, h) /\ Times(t, h) \in Nat
  <2>1. IsFiniteSet(P) /\ Cardinality(P) = Times(s, h)
    BY TimesType DEF Times
  <2>2. t \in Seq(S)
    BY <1>1
  <2>. HIDE DEF t
  <2>3. IsFiniteSet(Q) /\ Cardinality(Q) = Times(t, h) /\ Times(t, h) \in Nat
    BY <2>2, TimesType DEF Times
  <2>. QED  BY <2>1, <2>3
<1>3. Cardinality(R) = Cardinality(Q)
  <2>1. f \in Bijection(Q, R)
    <3>1. \A k \in Q : f[k] = k + 1 /\ k + 1 \in R
      BY <1>1
    <3>2. f \in [Q -> R]
      BY <3>1
    <3>3. \A a, b \in Q : f[a] = f[b] => a = b
      BY <3>1
    <3>4. \A k \in R : k - 1 \in Q /\ f[k - 1] = k
      BY <1>1
    <3>5. \A k \in R : \E i \in Q : f[i] = k
      BY <3>4
    <3>. HIDE DEF f, Q, R
    <3>. QED  BY <3>2, <3>3, <3>5, Fun_IsBij
  <2>2. ExistsBijection(Q, R)
    BY <2>1 DEF ExistsBijection
  <2>. QED  BY <1>2, <2>2, FS_Bijection
<1>. HIDE DEF P, Q, R, t
<1>4. CASE Head(s) = h
  <2>1. P = R \cup {1} /\ 1 \notin R
    BY <1>1, <1>4 DEF P, R
  <2>2. IsFiniteSet(R)
    BY <1>2, FS_Subset DEF R
  <2>3. Cardinality(P) = Cardinality(R) + 1
    BY <2>1, <2>2, FS_AddElement
  <2>. QED  BY <1>2, <1>3, <1>4, <2>3 DEF One, t
<1>5. CASE Head(s) # h
  <2>1. P = R
    BY <1>1, <1>5 DEF P, R
  <2>. QED  BY <1>2, <1>3, <1>5, <2>1 DEF One, t
<1>. QED  BY <1>4, <1>5

LEMMA EntriesType ==
  ASSUME NEW T, IsFiniteSet(T), NEW h
  PROVE  /\ Entries(T, h) \in Nat
         /\ Entries(T, h) = 0 <=> \A x \in T : x.hash # h
<1>. DEFINE P == {x \in T : x.hash = h}
<1>1. IsFiniteSet(P)
  BY FS_Subset
<1>2. Entries(T, h) = 0 <=> P = {}
  BY <1>1, FS_EmptySet DEF Entries
<1>. QED  BY <1>1, <1>2, FS_CardinalityType DEF Entries

LEMMA EntriesPut ==
  ASSUME NEW T, IsFiniteSet(T), NEW x, x \notin T, NEW U, U = T \cup {x}
  PROVE  /\ IsFiniteSet(U) /\ Cardinality(U) = Cardinality(T) + 1
         /\ \A h : Entries(U, h) = Entries(T, h) + One(x.hash = h)
<1>1. IsFiniteSet(U) /\ Cardinality(U) = Cardinality(T) + 1
  BY FS_AddElement
<1>2. ASSUME NEW h PROVE Entries(U, h) = Entries(T, h) + One(x.hash = h)
  <2>. DEFINE P == {y \in T : y.hash = h}
              Q == {y \in U : y.hash = h}
  <2>1. IsFiniteSet(P) /\ Cardinality(P) \in Nat
    BY FS_Subset, FS_CardinalityType
  <2>0. Entries(T, h) = Cardinality(P) /\ Entries(U, h) = Cardinality(Q)
    BY DEF Entries
  <2>2. CASE x.hash = h
    <3>1. Q = P \cup {x} /\ x \notin P
      BY <2>2
    <3>2. Cardinality(Q) = Cardinality(P) + 1
      BY <2>1, <3>1, FS_AddElement
    <3>. HIDE DEF P, Q
    <3>. QED  BY <2>0, <2>2, <3>2 DEF One
  <2>3. CASE x.hash # h
    <3>1. Q = P
      BY <2>3
    <3>. HIDE DEF P, Q
    <3>. QED  BY <2>0, <2>1, <2>3, <3>1 DEF One
  <2>. QED  BY <2>2, <2>3
<1>. QED  BY <1>1, <1>2

LEMMA EntriesTake ==
  ASSUME NEW T, IsFiniteSet(T), NEW x \in T, NEW U, U = T \ {x}
  PROVE  /\ IsFiniteSet(U) /\ Cardinality(T) = Cardinality(U) + 1
         /\ \A h : Entries(T, h) = Entries(U, h) + One(x.hash = h)
<1>1. IsFiniteSet(U)
  BY FS_Subset
<1>2. x \notin U /\ T = U \cup {x}
  OBVIOUS
<1>3. /\ Cardinality(T) = Cardinality(U) + 1
      /\ \A h : Entries(T, h) = Entries(U, h) + One(x.hash = h)
  BY ONLY <1>1, <1>2, EntriesPut
<1>. QED  BY <1>1, <1>2, <1>3

-----------------------------------------------------------------------------
(* Demand.                                                                  *)

LEMMA OwnersFinite ==
  ASSUME NEW h
  PROVE  IsFiniteSet(Owners(h)) /\ Cardinality(Owners(h)) \in Nat
<1>1. Owners(h) \in SUBSET Reqs
  BY DEF Owners
<1>. QED  BY <1>1, FinitenessAssumption, FS_Subset, FS_CardinalityType

\* Fewer owners for the same count, and fewer objects for the same demand.
LEMMA DemandKept ==
  ASSUME DemandTypes
  PROVE  /\ Covered /\ owned' \subseteq owned /\ UNCHANGED refcount => Covered'
         /\ Wanted /\ UNCHANGED refcount /\ (\A h \in Hashes : IsShared(h)' => IsShared(h))
              => Wanted'
<1>1. ASSUME Covered, owned' \subseteq owned, UNCHANGED refcount, NEW h \in Hashes
      PROVE  refcount'[h] >= Cardinality(Owners(h)')
  <2>1. Owners(h)' \in SUBSET Owners(h)
    BY <1>1 DEF Owners
  <2>2. Cardinality(Owners(h)') <= Cardinality(Owners(h)) /\ Cardinality(Owners(h)') \in Nat
    BY <2>1, OwnersFinite, FS_Subset, FS_CardinalityType
  <2>. QED  BY <1>1, <2>2, OwnersFinite DEF Covered, DemandTypes
<1>. QED  BY <1>1 DEF Covered, Wanted

LEMMA ClaimCovered ==
  ASSUME DemandTypes, Covered, NEW qs \in SUBSET Reqs, NEW h \in Hashes, Claim(qs, h)
  PROVE  Covered'
<1>. DEFINE mine == OwnersIn(qs, h)
<1>1. /\ owned' = owned \ (qs \X {h})
      /\ refcount' = [refcount EXCEPT ![h] = RefAfter(qs, h)]
  BY DEF Claim
<1>2. Owners(h)' = Owners(h) \ qs /\ mine = Owners(h) \cap qs
  BY <1>1 DEF Owners, OwnersIn
<1>3. /\ Cardinality(Owners(h)') = Cardinality(Owners(h)) - Cardinality(mine)
      /\ IsFiniteSet(Owners(h)')
  BY <1>2, OwnersFinite, FS_Difference
<1>4. Cardinality(mine) \in Nat /\ Cardinality(Owners(h)') \in Nat
  BY <1>2, <1>3, OwnersFinite, FS_Intersection, FS_CardinalityType
<1>5. refcount'[h] >= Cardinality(Owners(h)')
  <2>1. refcount'[h] = RefAfter(qs, h) /\ refcount[h] \in Nat
    BY <1>1 DEF DemandTypes
  <2>2. refcount[h] >= Cardinality(Owners(h)) /\ Cardinality(Owners(h)) \in Nat
    BY OwnersFinite DEF Covered
  <2>. HIDE DEF mine
  <2>3. RefAfter(qs, h) = IF refcount[h] > Cardinality(mine)
                            THEN refcount[h] - Cardinality(mine) ELSE 0
    BY DEF RefAfter, mine
  <2>. QED  BY <1>3, <1>4, <2>1, <2>2, <2>3
<1>6. ASSUME NEW g \in Hashes, g # h PROVE refcount'[g] >= Cardinality(Owners(g)')
  <2>1. Owners(g)' = Owners(g)
    BY <1>1, <1>6 DEF Owners
  <2>2. refcount'[g] = refcount[g]
    BY <1>1, <1>6 DEF DemandTypes
  <2>. QED  BY <2>1, <2>2 DEF Covered
<1>. QED  BY <1>5, <1>6 DEF Covered

LEMMA PurgeCovered ==
  ASSUME DemandTypes, Covered, NEW h \in Hashes, Purge(h)
  PROVE  Covered'
<1>1. Owners(h)' = {}
  BY DEF Purge, Owners
<1>2. refcount'[h] = 0
  BY DEF Purge, DemandTypes
<1>3. ASSUME NEW g \in Hashes, g # h PROVE refcount'[g] >= Cardinality(Owners(g)')
  <2>1. Owners(g)' = Owners(g) /\ refcount'[g] = refcount[g]
    BY <1>3 DEF Purge, Owners, DemandTypes
  <2>. QED  BY <2>1 DEF Covered
<1>. QED  BY <1>1, <1>2, <1>3, FS_EmptySet DEF Covered

LEMMA OwnCovered ==
  ASSUME DemandTypes, Covered, NEW q \in Reqs, NEW h \in Hashes, Own(<<q, h>>),
         refcount' = [refcount EXCEPT ![h] = @ + 1]
  PROVE  Covered'
<1>1. owned' \subseteq owned \cup {<<q, h>>}
  BY DEF Own
<1>2. ASSUME NEW g \in Hashes PROVE refcount'[g] >= Cardinality(Owners(g)')
  <2>1. refcount[g] \in Nat /\ refcount[g] >= Cardinality(Owners(g))
    BY DEF DemandTypes, Covered
  <2>2. CASE g = h
    <3>1. Owners(g)' \in SUBSET (Owners(g) \cup {q})
      BY <1>1, <2>2 DEF Owners
    <3>0. IsFiniteSet(Owners(g)) /\ Cardinality(Owners(g)) \in Nat
      BY OwnersFinite
    <3>5. /\ IsFiniteSet(Owners(g) \cup {q})
          /\ \/ Cardinality(Owners(g) \cup {q}) = Cardinality(Owners(g))
             \/ Cardinality(Owners(g) \cup {q}) = Cardinality(Owners(g)) + 1
      BY <3>0, FS_AddElement
    <3>2. /\ IsFiniteSet(Owners(g) \cup {q})
          /\ Cardinality(Owners(g) \cup {q}) <= Cardinality(Owners(g)) + 1
          /\ Cardinality(Owners(g) \cup {q}) \in Nat
      BY <3>0, <3>5
    <3>3. /\ Cardinality(Owners(g)') <= Cardinality(Owners(g) \cup {q})
          /\ Cardinality(Owners(g)') \in Nat
      BY <3>1, <3>2, FS_Subset, FS_CardinalityType
    <3>4. refcount'[g] = refcount[g] + 1
      BY <2>2 DEF DemandTypes
    <3>. QED  BY <2>1, <3>2, <3>3, <3>4, OwnersFinite
  <2>3. CASE g # h
    <3>1. Owners(g)' \in SUBSET Owners(g)
      BY <1>1, <2>3 DEF Owners
    <3>2. Cardinality(Owners(g)') <= Cardinality(Owners(g)) /\ Cardinality(Owners(g)') \in Nat
      BY <3>1, OwnersFinite, FS_Subset, FS_CardinalityType
    <3>3. refcount'[g] = refcount[g]
      BY <2>3 DEF DemandTypes
    <3>. QED  BY <2>1, <3>2, <3>3, OwnersFinite
  <2>. QED  BY <2>2, <2>3
<1>. QED  BY <1>2 DEF Covered

\* A slot reserved at the cost of an idle preload ends the demand for it.
LEMMA ReserveDemand ==
  ASSUME DemandTypes, SharedTypes, Covered, Wanted, NEW s, NEW back, ReserveForeground(s, back)
  PROVE  Covered' /\ Wanted' /\ \A h \in Hashes : IsShared(h)' => IsShared(h)
<1>1. CASE UNCHANGED <<sharedCached, demand>>
  BY <1>1, DemandKept DEF IsShared
<1>2. ASSUME NEW v \in IdleShared, sharedCached' = [sharedCached EXCEPT ![v] = NoSlot], Purge(v)
      PROVE  Covered' /\ Wanted' /\ \A h \in Hashes : IsShared(h)' => IsShared(h)
  <2>1. v \in Hashes
    BY DEF IdleShared, SharedHashes
  <2>2. Covered'
    BY <1>2, <2>1, PurgeCovered
  <2>3. ASSUME NEW h \in Hashes, IsShared(h)' PROVE h # v /\ IsShared(h) /\ refcount'[h] = refcount[h]
    <3>1. h # v
      BY <1>2, <2>1, <2>3 DEF IsShared, SharedTypes
    <3>. QED  BY <1>2, <2>1, <2>3, <3>1 DEF IsShared, SharedTypes, Purge, DemandTypes
  <2>. QED  BY <2>2, <2>3 DEF Wanted
<1>. QED  BY <1>1, <1>2 DEF ReserveForeground

\* A claim leaves an object only to those who still want it.
LEMMA ClaimWanted ==
  ASSUME DemandTypes, SharedTypes, Wanted, NEW q \in Reqs, NEW h \in Hashes, Claim({q}, h),
         IF EndsDemand(q, h) /\ IsShared(h) THEN sharedCached' = [sharedCached EXCEPT ![h] = NoSlot]
         ELSE UNCHANGED sharedCached
  PROVE  Wanted' /\ \A g \in Hashes : IsShared(g)' => IsShared(g)
<1>1. \A g \in Hashes : IsShared(g)' => IsShared(g)
  BY DEF IsShared, SharedTypes
<1>2. \A g \in Hashes : g # h => refcount'[g] = refcount[g]
  BY DEF Claim, DemandTypes
<1>3. ASSUME IsShared(h)' PROVE refcount'[h] > 0
  <2>1. IsShared(h) /\ ~EndsDemand(q, h) /\ refcount[h] \in Nat /\ refcount[h] > 0
    BY <1>3 DEF IsShared, SharedTypes, Wanted, DemandTypes
  <2>2. refcount'[h] = RefAfter({q}, h)
    BY DEF Claim, DemandTypes
  <2>3. CASE <<q, h>> \in owned
    <3>1. OwnersIn({q}, h) = {q}
      BY <2>3 DEF OwnersIn
    <3>2. Cardinality(OwnersIn({q}, h)) = 1
      BY <3>1, FS_Singleton
    <3>3. refcount[h] > 1
      BY <2>1, <2>3 DEF EndsDemand
    <3>. QED  BY <2>1, <2>2, <3>2, <3>3 DEF RefAfter
  <2>4. CASE <<q, h>> \notin owned
    <3>1. OwnersIn({q}, h) = {}
      BY <2>4 DEF OwnersIn
    <3>2. Cardinality(OwnersIn({q}, h)) = 0
      BY <3>1, FS_EmptySet
    <3>. QED  BY <2>1, <2>2, <3>2 DEF RefAfter
  <2>. QED  BY <2>3, <2>4
<1>. QED  BY <1>1, <1>2, <1>3 DEF Wanted

LEMMA DecrefDemand ==
  ASSUME DemandTypes, SharedTypes, Covered, Wanted, NEW q \in Reqs, NEW h \in Hashes,
         SharedDecref(q, h)
  PROVE  Covered' /\ Wanted' /\ \A g \in Hashes : IsShared(g)' => IsShared(g)
<1>1. Claim({q}, h)
  BY DEF SharedDecref
<1>2. IF EndsDemand(q, h) /\ IsShared(h) THEN sharedCached' = [sharedCached EXCEPT ![h] = NoSlot]
      ELSE UNCHANGED sharedCached
  BY DEF SharedDecref
<1>. QED  BY <1>1, <1>2, ClaimCovered, ClaimWanted

-----------------------------------------------------------------------------
(* The books of one hash.                                                   *)

Numbers(h) ==
  /\ preInflight[h] \in Nat /\ cancel[h] \in Int /\ UnderWay(h) \in Nat
  /\ Times(pending, h) \in Nat /\ Times(preReady, h) \in Nat
  /\ Entries(preOpens, h) \in Nat /\ Entries(preReads, h) \in Nat

LEMMA AreNumbers ==
  ASSUME TypeOK, Total, NEW h \in Hashes
  PROVE  Numbers(h)
<1>. USE DEF TypeOK, PreloadTypes, QueueTypes
<1>1. preInflight[h] \in Nat /\ cancel[h] \in Int
  OBVIOUS
<1>2. Times(pending, h) \in Nat /\ Times(preReady, h) \in Nat
  BY TimesType
<1>3. Entries(preOpens, h) \in Nat /\ Entries(preReads, h) \in Nat
  BY EntriesType DEF Total
<1>. QED  BY <1>1, <1>2, <1>3 DEF Numbers, UnderWay

\* A step that does not touch the reads and the queue entries of h, and puts
\* nothing on its shelf.
Steady(h) ==
  /\ UnderWay(h)' = UnderWay(h) /\ preInflight'[h] = preInflight[h]
  /\ Times(pending, h)' = Times(pending, h) /\ cancel'[h] = cancel[h]
  /\ IsShared(h)' => IsShared(h)
  /\ h \in blocked' => h \in blocked
  /\ h \in knownMissing' => h \in knownMissing
  /\ waiters[h] \subseteq waiters'[h]

LEMMA SteadyBook ==
  ASSUME NEW h \in Hashes, Numbers(h), Book(h), Steady(h)
  PROVE  Book(h)'
<1>1. One(IsShared(h))' <= One(IsShared(h)) /\ One(IsShared(h))' \in Nat /\ One(IsShared(h)) \in Nat
  BY DEF One, Steady
<1>2. /\ One(h \in blocked)' <= One(h \in blocked)
      /\ One(h \in blocked)' \in Nat /\ One(h \in blocked) \in Nat
  BY DEF One, Steady
<1>3. /\ One(h \in knownMissing)' <= One(h \in knownMissing)
      /\ One(h \in knownMissing)' \in Nat /\ One(h \in knownMissing) \in Nat
  BY DEF One, Steady
<1>4. Shelf(h)' <= Shelf(h) /\ Shelf(h)' \in Nat /\ Shelf(h) \in Nat
  BY <1>1, <1>2, <1>3 DEF Shelf
<1>. QED  BY <1>4 DEF Book, Numbers, Steady

\* Nothing moves for any hash but h, whose book balances again.
LEMMA BooksStep ==
  ASSUME TypeOK, Total, Books, NEW h \in Hashes, Book(h)',
         \A g \in Hashes : g # h => Steady(g)
  PROVE  Books'
<1>1. ASSUME NEW g \in Hashes, g # h PROVE Book(g)'
  BY <1>1, AreNumbers, SteadyBook DEF Books
<1>. QED  BY <1>1 DEF Books

\* What the book of h says about a hash with a read, a place in the queue, or
\* nothing at all.
LEMMA Shelves ==
  ASSUME NEW h \in Hashes, Numbers(h)
  PROVE  /\ Shelf(h) \in Nat
         /\ Shelf(h) = 0 <=> ~IsShared(h) /\ h \notin blocked /\ h \notin knownMissing
         /\ (Shelf(h) <= 1 /\ h \in blocked) => ~IsShared(h) /\ h \notin knownMissing
         /\ (Shelf(h) <= 1 /\ h \in knownMissing) => ~IsShared(h) /\ h \notin blocked
BY DEF Shelf, One

LEMMA BookOfRead ==
  ASSUME NEW h \in Hashes, Numbers(h), Book(h), preInflight[h] > 0
  PROVE  /\ preInflight[h] = 1 /\ UnderWay(h) = 1 /\ cancel[h] = Times(pending, h)
         /\ ~IsShared(h) /\ h \notin blocked /\ h \notin knownMissing
         /\ waiters[h] = {} => Times(pending, h) = 0 /\ cancel[h] = 0
<1>1. Shelf(h) \in Nat
  BY Shelves
<1>2. preInflight[h] = 1 /\ cancel[h] = Times(pending, h) /\ Shelf(h) = 0
  BY <1>1 DEF Book, Numbers
<1>. QED  BY <1>2, Shelves DEF Book

\* A queued entry that nobody cancelled is the only thing known of its hash.
LEMMA BookOfQueued ==
  ASSUME NEW h \in Hashes, Numbers(h), Book(h), Times(pending, h) > 0, ~(cancel[h] > 0)
  PROVE  /\ Times(pending, h) = 1 /\ cancel[h] = 0 /\ preInflight[h] = 0 /\ UnderWay(h) = 0
         /\ ~IsShared(h) /\ h \notin blocked /\ h \notin knownMissing
<1>1. Shelf(h) \in Nat
  BY Shelves
<1>2. cancel[h] = 0 /\ preInflight[h] = 0 /\ Times(pending, h) = 1 /\ Shelf(h) = 0
  BY <1>1 DEF Book, Numbers
<1>. QED  BY <1>2, Shelves DEF Book

LEMMA BookOfParked ==
  ASSUME NEW h \in Hashes, Numbers(h), Book(h), h \in blocked \/ h \in knownMissing
  PROVE  /\ Times(pending, h) = 0 /\ cancel[h] = 0 /\ preInflight[h] = 0 /\ UnderWay(h) = 0
         /\ ~IsShared(h) /\ ~(h \in blocked /\ h \in knownMissing)
<1>1. Times(pending, h) = 0 /\ cancel[h] = 0
  BY DEF Book, Numbers
<1>2. Shelf(h) \in Nat /\ Shelf(h) # 0
  BY Shelves
<1>3. preInflight[h] = 0 /\ Shelf(h) <= 1
  BY <1>1, <1>2 DEF Book, Numbers
<1>. QED  BY <1>1, <1>3, Shelves DEF Book

\* A step that leaves the reads and the queue alone and only takes from the
\* shelves keeps the books of every hash.
LEMMA Undisturbed ==
  ASSUME TypeOK, Preloading, Alive' => Alive, mode' = "run" => mode = "run",
         UNCHANGED <<specQ, specIo, inflight, waiters>>,
         blocked' \subseteq blocked, knownMissing' \subseteq knownMissing,
         \A h \in Hashes : IsShared(h)' => IsShared(h),
         Alive => Covered' /\ Wanted'
  PROVE  Preloading'
<1>. SUFFICES ASSUME Alive PROVE Total' /\ Books' /\ Served'
  BY DEF Preloading
<1>1. Total /\ Books /\ Served
  BY DEF Preloading
<1>2. Total'
  BY <1>1 DEF Total
<1>3. Served'
  BY <1>1 DEF Served
<1>4. ASSUME NEW h \in Hashes PROVE Book(h)'
  <2>1. Steady(h)
    BY DEF Steady, UnderWay
  <2>. QED  BY <1>1, <2>1, AreNumbers, SteadyBook DEF Books
<1>. QED  BY <1>2, <1>3, <1>4 DEF Books

-----------------------------------------------------------------------------
(* Submissions.                                                             *)

LEMMA QueuedTimes ==
  ASSUME TypeOK, NEW h \in Hashes
  PROVE  Queued(h) <=> Times(pending, h) # 0
BY TimesType DEF Queued, TypeOK, QueueTypes

LEMMA NoneQueued ==
  ASSUME NEW h
  PROVE  Times(<<>>, h) = 0
<1>1. {k \in 1..Len(<<>>) : <<>>[k] = h} = {}
  OBVIOUS
<1>. QED  BY <1>1, FS_EmptySet DEF Times

LEMMA InitPreloads == Init => Preloading
<1>. SUFFICES ASSUME Init PROVE Total /\ Books /\ Covered /\ Wanted /\ Served
  BY DEF Preloading
<1>1. IsFiniteSet({}) /\ Cardinality({}) = 0
  BY FS_EmptySet
<1>2. Total /\ Served
  BY <1>1 DEF Init, Total, Served
<1>3. Covered /\ Wanted
  <2>1. \A h \in Hashes : Owners(h) = {}
    BY DEF Init, Owners
  <2>2. \A h \in Hashes : Cardinality(Owners(h)) = 0
    BY <1>1, <2>1
  <2>. QED  BY <2>2 DEF Init, Covered, Wanted, IsShared
<1>4. ASSUME NEW h \in Hashes PROVE Book(h)
  <2>1. Entries({}, h) = 0
    BY <1>1, EntriesType
  <2>2. Times(<<>>, h) = 0
    BY NoneQueued
  <2>3. Shelf(h) = 0
    BY DEF Init, Shelf, One, IsShared
  <2>. QED  BY <2>1, <2>2, <2>3 DEF Init, Book, UnderWay
<1>. QED  BY <1>2, <1>3, <1>4 DEF Books

\* STOP forgets the queue and everything retained, not the reads under way.
LEMMA StopPreloads ==
  ASSUME TypeOK, Preloading, Stop
  PROVE  Preloading'
<1>1. /\ Total /\ Books /\ mode' = "stopping" /\ UNCHANGED <<specIo, preInflight>>
      /\ pending' = <<>> /\ cancel' = [h \in Hashes |-> 0]
      /\ blocked' = {} /\ knownMissing' = {} /\ waiters' = [h \in Hashes |-> {}]
      /\ refcount' = [h \in Hashes |-> 0] /\ owned' = {}
      /\ sharedCached' = [h \in Hashes |-> NoSlot]
  BY DEF Stop, CanIntake, Preloading, Alive
<1>2. Total' /\ Served'
  BY <1>1 DEF Total, Served
<1>3. Covered' /\ Wanted'
  <2>1. \A h \in Hashes : Owners(h)' = {}
    BY <1>1 DEF Owners
  <2>2. \A h \in Hashes : Cardinality(Owners(h)') = 0
    BY <2>1, FS_EmptySet
  <2>. QED  BY <1>1, <2>2 DEF Covered, Wanted, IsShared
<1>4. ASSUME NEW h \in Hashes PROVE Book(h)'
  <2>1. Numbers(h) /\ Book(h)
    BY <1>1, AreNumbers DEF Books
  <2>2. Times(pending, h)' = 0
    BY <1>1, NoneQueued
  <2>3. Shelf(h)' = 0
    BY <1>1 DEF Shelf, One, IsShared
  <2>4. UnderWay(h)' = UnderWay(h)
    BY <1>1 DEF UnderWay
  <2>5. preInflight[h] <= 1
    <3>1. Shelf(h) \in Nat
      BY <2>1, Shelves
    <3>. QED  BY <2>1, <3>1 DEF Book, Numbers
  <2>. QED  BY <1>1, <2>1, <2>2, <2>3, <2>4, <2>5 DEF Book, Numbers
<1>. QED  BY <1>2, <1>3, <1>4 DEF Books, Preloading

LEMMA ClientPreloads == TypeOK /\ Preloading /\ Client => Preloading'
<1>. SUFFICES ASSUME TypeOK, Preloading, Client PROVE Preloading'
  OBVIOUS
<1>1. DemandTypes /\ (Alive => Covered /\ Wanted)
  BY DEF TypeOK, Preloading
<1>2. ASSUME NEW p \in Preloads, AskPreload(p) PROVE Preloading'
  BY <1>1, <1>2, DemandKept, Undisturbed DEF AskPreload, IsShared, Alive
<1>3. ASSUME NEW j \in Jobs, IntakeLoad(j) \/ IntakeStore(j) \/ SubmitClosed(j)
      PROVE  Preloading'
  <2>1. /\ UNCHANGED <<mode, specQ, specIo, inflight, waiters, sharedCached, demand, blocked>>
        /\ knownMissing' \subseteq knownMissing
    BY <1>3 DEF IntakeLoad, IntakeStore, SubmitClosed
  <2>. QED  BY <1>1, <2>1, DemandKept, Undisturbed DEF IsShared, Alive
<1>. QED  BY <1>2, <1>3, StopPreloads DEF Client

\* A hash of a preload request is queued unless something is known of it.
LEMMA AskedPreloads ==
  ASSUME TypeOK, Preloading, NEW a \in asking, PreloadHash(a)
  PROVE  Preloading'
<1>. DEFINE h == PreHashes[a[1]][a[2]]
            q == PreReq[a[1]]
<1>1. h \in Hashes /\ q \in Reqs
  BY WorkloadAssumption DEF TypeOK, TurnTypes, Asks
<1>2. /\ Alive /\ UNCHANGED <<mode, cancel, parked, specIo, inflight, waiters, sharedCached>>
      /\ \/ UNCHANGED <<demand, pending>>
         \/ /\ Own(<<q, h>>) /\ refcount' = [refcount EXCEPT ![h] = @ + 1]
            /\ pending' = IF HasAnySharedState(h) THEN pending ELSE Append(pending, h)
  BY DEF PreloadHash
<1>3. Total /\ Books /\ Covered /\ Wanted /\ Served /\ DemandTypes
  BY <1>2 DEF Preloading, TypeOK
<1>. HIDE DEF h, q
<1>4. CASE UNCHANGED <<demand, pending>>
  BY <1>2, <1>3, <1>4, DemandKept, Undisturbed DEF IsShared, Alive
<1>5. CASE /\ Own(<<q, h>>) /\ refcount' = [refcount EXCEPT ![h] = @ + 1]
           /\ pending' = IF HasAnySharedState(h) THEN pending ELSE Append(pending, h)
  <2>1. Covered'
    BY <1>1, <1>3, <1>5, OwnCovered
  <2>2. Wanted'
    <3>1. \A g \in Hashes : refcount'[g] >= refcount[g] /\ refcount[g] \in Nat /\ refcount'[g] \in Nat
      BY <1>3, <1>5 DEF DemandTypes
    <3>. QED  BY <1>2, <1>3, <3>1 DEF Wanted, IsShared
  <2>3. CASE HasAnySharedState(h)
    BY <1>2, <1>5, <2>1, <2>2, <2>3, Undisturbed DEF IsShared, Alive
  <2>4. CASE ~HasAnySharedState(h)
    <3>1. \A g \in Hashes : Times(pending, g)' = Times(pending, g) + One(h = g)
      BY <1>1, <1>5, <2>4, TimesAppend DEF TypeOK, QueueTypes
    <3>2. Total' /\ Served'
      BY <1>2, <1>3 DEF Total, Served
    <3>3. Book(h)'
      <4>1. Numbers(h) /\ Book(h)
        BY <1>1, <1>3, AreNumbers DEF Books
      <4>2. /\ ~IsShared(h) /\ h \notin blocked /\ h \notin knownMissing
            /\ ~(preInflight[h] > 0) /\ Times(pending, h) = 0
        BY <1>1, <2>4, QueuedTimes DEF HasAnySharedState
      <4>3. Times(pending, h)' = 1
        BY <1>1, <3>1, <4>2 DEF One
      <4>4. preInflight[h] = 0 /\ cancel[h] = 0
        BY <4>1, <4>2 DEF Book, Numbers
      <4>5. Shelf(h)' = 0
        BY <1>2, <4>2 DEF Shelf, One, IsShared
      <4>6. UnderWay(h)' = 0
        BY <1>2, <4>1, <4>4 DEF UnderWay, Book
      <4>. QED  BY <1>2, <4>2, <4>3, <4>4, <4>5, <4>6 DEF Book
    <3>4. ASSUME NEW g \in Hashes, g # h PROVE Steady(g)
      <4>1. Times(pending, g)' = Times(pending, g)
        <5>1. Times(pending, g) \in Nat
          BY <1>3, AreNumbers DEF Numbers
        <5>. QED  BY <3>1, <3>4, <5>1 DEF One
      <4>. QED  BY <1>2, <4>1 DEF Steady, UnderWay, IsShared
    <3>5. Books'
      BY <1>1, <1>3, <3>3, <3>4, BooksStep
    <3>. QED  BY <2>1, <2>2, <3>2, <3>5 DEF Preloading
  <2>. QED  BY <2>3, <2>4
<1>. QED  BY <1>2, <1>4, <1>5

\* A hash known missing changes shelves: its store will write it.
LEMMA StoredPreloads ==
  ASSUME TypeOK, Preloading, NEW f \in storing, StoreHash(f)
  PROVE  Preloading'
<1>. DEFINE h == H(f)
<1>1. h \in Hashes /\ Req(f) \in Reqs
  BY FileFacts DEF TypeOK, TurnTypes
<1>2. /\ Alive /\ UNCHANGED <<mode, specQ, specIo, inflight, waiters>>
      /\ SharedDecref(Req(f), h) /\ knownMissing' = knownMissing \ {h}
      /\ blocked' = blocked \/ (blocked' = blocked \cup {h} /\ h \in knownMissing)
  BY DEF StoreHash
<1>. HIDE DEF h
<1>3. Total /\ Books /\ Covered /\ Wanted /\ Served /\ DemandTypes /\ SharedTypes
  BY <1>2 DEF Preloading, TypeOK
<1>4. Covered' /\ Wanted' /\ \A g \in Hashes : IsShared(g)' => IsShared(g)
  BY <1>1, <1>2, <1>3, DecrefDemand
<1>5. CASE blocked' = blocked
  BY <1>2, <1>4, <1>5, Undisturbed DEF Alive
<1>6. CASE blocked' = blocked \cup {h} /\ h \in knownMissing
  <2>1. Total' /\ Served'
    BY <1>2, <1>3 DEF Total, Served
  <2>2. Book(h)'
    <3>1. Numbers(h) /\ Book(h)
      BY <1>1, <1>3, AreNumbers DEF Books
    <3>2. /\ Times(pending, h) = 0 /\ cancel[h] = 0 /\ preInflight[h] = 0 /\ UnderWay(h) = 0
          /\ ~IsShared(h)
      BY <1>1, <1>6, <3>1, BookOfParked
    <3>3. Shelf(h)' = 1
      BY <1>1, <1>2, <1>4, <1>6, <3>2 DEF Shelf, One
    <3>. QED  BY <1>2, <3>2, <3>3 DEF Book, UnderWay
  <2>3. ASSUME NEW g \in Hashes, g # h PROVE Steady(g)
    BY <1>2, <1>4, <1>6, <2>3 DEF Steady, UnderWay
  <2>4. Books'
    BY <1>1, <1>3, <2>2, <2>3, BooksStep
  <2>. QED  BY <1>4, <2>1, <2>4 DEF Preloading
<1>. QED  BY <1>2, <1>5, <1>6

-----------------------------------------------------------------------------
(* Reads that end.                                                          *)

InFlight == Cardinality(preOpens) + Len(preReady) + Cardinality(preReads)

\* One read of h leaves the tables, whichever it was in.
ReadLeaves(h) ==
  /\ IsFiniteSet(preOpens') /\ IsFiniteSet(preReads')
  /\ InFlight' \in Nat /\ InFlight = InFlight' + 1
  /\ \A g \in Hashes : UnderWay(g)' \in Nat /\ UnderWay(g) = UnderWay(g)' + One(h = g)

LEMMA OpenLeaves ==
  ASSUME TypeOK, Total, NEW o \in preOpens, preOpens' = preOpens \ {o},
         UNCHANGED <<preReady, preReads>>
  PROVE  ReadLeaves(o.hash)
<1>0. IsFiniteSet(preOpens)
  BY DEF Total
<1>1. /\ IsFiniteSet(preOpens') /\ Cardinality(preOpens) = Cardinality(preOpens') + 1
      /\ \A g : Entries(preOpens, g) = Entries(preOpens', g) + One(o.hash = g)
  BY <1>0, EntriesTake
<1>2. Cardinality(preOpens') \in Nat /\ Cardinality(preReads) \in Nat /\ Len(preReady) \in Nat
  BY <1>1, FS_CardinalityType DEF Total, TypeOK, PreloadTypes
<1>3. ASSUME NEW g \in Hashes
      PROVE  UnderWay(g)' \in Nat /\ UnderWay(g) = UnderWay(g)' + One(o.hash = g)
  <2>1. Numbers(g) /\ Entries(preOpens', g) \in Nat
    BY <1>1, AreNumbers, EntriesType
  <2>2. Entries(preOpens, g) = Entries(preOpens', g) + One(o.hash = g)
    BY <1>1
  <2>3. One(o.hash = g) \in Nat
    BY DEF One
  <2>. QED  BY <2>1, <2>2, <2>3 DEF UnderWay, Numbers
<1>. QED  BY <1>1, <1>2, <1>3 DEF ReadLeaves, InFlight, Total

LEMMA FdLeaves ==
  ASSUME TypeOK, Total, preReady # <<>>, preReady' = Tail(preReady),
         UNCHANGED <<preOpens, preReads>>
  PROVE  ReadLeaves(Head(preReady)) /\ Head(preReady) \in Hashes
<1>0. preReady \in Seq(Hashes)
  BY DEF TypeOK, PreloadTypes
<1>1. /\ Head(preReady) \in Hashes /\ preReady' \in Seq(Hashes)
      /\ Len(preReady) = Len(preReady') + 1 /\ Len(preReady') \in Nat
  BY <1>0, HeadTailProperties, EmptySeq
<1>2. Cardinality(preOpens) \in Nat /\ Cardinality(preReads) \in Nat
  BY FS_CardinalityType DEF Total
<1>3. ASSUME NEW g \in Hashes
      PROVE  UnderWay(g)' \in Nat /\ UnderWay(g) = UnderWay(g)' + One(Head(preReady) = g)
  <2>1. Numbers(g)
    BY AreNumbers
  <2>2. Times(preReady, g) = Times(preReady', g) + One(Head(preReady) = g)
    BY <1>0, TimesTail
  <2>3. Times(preReady', g) \in Nat
    BY <1>1, TimesType
  <2>4. One(Head(preReady) = g) \in Nat
    BY DEF One
  <2>5. /\ UnderWay(g)' = Entries(preOpens, g) + Times(preReady', g) + Entries(preReads, g)
        /\ UnderWay(g) = Entries(preOpens, g) + Times(preReady, g) + Entries(preReads, g)
        /\ Entries(preOpens, g) \in Nat /\ Entries(preReads, g) \in Nat
    BY <2>1 DEF UnderWay, Numbers
  <2>. QED  BY ONLY <2>2, <2>3, <2>4, <2>5
<1>. QED  BY <1>1, <1>2, <1>3 DEF ReadLeaves, InFlight, Total

LEMMA SharedReadLeaves ==
  ASSUME TypeOK, Total, NEW r \in preReads, preReads' = preReads \ {r},
         UNCHANGED <<preReady, preOpens>>
  PROVE  ReadLeaves(r.hash)
<1>0. IsFiniteSet(preReads)
  BY DEF Total
<1>1. /\ IsFiniteSet(preReads') /\ Cardinality(preReads) = Cardinality(preReads') + 1
      /\ \A g : Entries(preReads, g) = Entries(preReads', g) + One(r.hash = g)
  BY <1>0, EntriesTake
<1>2. Cardinality(preReads') \in Nat /\ Cardinality(preOpens) \in Nat /\ Len(preReady) \in Nat
  BY <1>1, FS_CardinalityType DEF Total, TypeOK, PreloadTypes
<1>3. ASSUME NEW g \in Hashes
      PROVE  UnderWay(g)' \in Nat /\ UnderWay(g) = UnderWay(g)' + One(r.hash = g)
  <2>1. Numbers(g) /\ Entries(preReads', g) \in Nat
    BY <1>1, AreNumbers, EntriesType
  <2>2. Entries(preReads, g) = Entries(preReads', g) + One(r.hash = g)
    BY <1>1
  <2>3. One(r.hash = g) \in Nat
    BY DEF One
  <2>. QED  BY <2>1, <2>2, <2>3 DEF UnderWay, Numbers
<1>. QED  BY <1>1, <1>2, <1>3 DEF ReadLeaves, InFlight, Total

\* What leaves is counted out: it was the one read of its hash, for which
\* nothing is staged or parked.
LEMMA ReadEnds ==
  ASSUME TypeOK, Total, Books, NEW h \in Hashes, ReadLeaves(h), PreInflightRemove(h),
         UNCHANGED mode
  PROVE  /\ Total' /\ preInflight'[h] = 0 /\ UnderWay(h)' = 0
         /\ cancel[h] = Times(pending, h) /\ Times(pending, h) \in Nat
         /\ ~IsShared(h) /\ h \notin blocked /\ h \notin knownMissing
         /\ waiters[h] = {} => Times(pending, h) = 0 /\ cancel[h] = 0
         /\ \A g \in Hashes : g # h =>
              preInflight'[g] = preInflight[g] /\ UnderWay(g)' = UnderWay(g)
<1>1. Numbers(h) /\ Book(h)
  BY AreNumbers DEF Books
<1>2. preInflight[h] > 0
  <2>1. UnderWay(h) = UnderWay(h)' + 1 /\ UnderWay(h)' \in Nat
    BY DEF ReadLeaves, One
  <2>. QED  BY <1>1, <2>1 DEF Book
<1>3. /\ preInflight[h] = 1 /\ UnderWay(h) = 1 /\ cancel[h] = Times(pending, h)
      /\ ~IsShared(h) /\ h \notin blocked /\ h \notin knownMissing
      /\ waiters[h] = {} => Times(pending, h) = 0 /\ cancel[h] = 0
  BY <1>1, <1>2, BookOfRead
<1>4. preInflight' = [preInflight EXCEPT ![h] = 0] /\ preTotal' = preTotal - 1
  BY <1>2, <1>3 DEF PreInflightRemove
<1>5. preInflight'[h] = 0 /\ \A g \in Hashes : g # h => preInflight'[g] = preInflight[g]
  BY <1>4 DEF TypeOK, PreloadTypes
<1>6. UnderWay(h)' = 0 /\ \A g \in Hashes : g # h => UnderWay(g)' = UnderWay(g)
  BY <1>3 DEF ReadLeaves, One
<1>7. Total'
  BY <1>4 DEF Total, ReadLeaves, InFlight
<1>. QED  BY <1>1, <1>3, <1>5, <1>6, <1>7 DEF Numbers

\* The book of a hash whose read has ended: whatever it leaves on a shelf.
LEMMA BookOfEnded ==
  ASSUME NEW h \in Hashes, preInflight'[h] = 0, UnderWay(h)' = 0,
         cancel'[h] = Times(pending, h)', Times(pending, h)' \in Nat,
         Shelf(h)' \in {0, 1}, (h \in blocked' \/ h \in knownMissing') => Times(pending, h)' = 0
  PROVE  Book(h)'
BY DEF Book

\* The waiters of a read that failed are gone with it.
LEMMA ServedEnds ==
  ASSUME TypeOK, Served, NEW h \in Hashes, waiters' = [waiters EXCEPT ![h] = {}],
         \A g \in Hashes : g # h => preInflight'[g] = preInflight[g]
  PROVE  Served' /\ waiters'[h] = {} /\ \A g \in Hashes : g # h => waiters'[g] = waiters[g]
<1>1. waiters'[h] = {} /\ \A g \in Hashes : g # h => waiters'[g] = waiters[g]
  BY DEF TypeOK, PreloadTypes
<1>. QED  BY <1>1 DEF Served

\* A read ends, its waiters are answered, and nothing is kept of it.
LEMMA ReadDropped ==
  ASSUME TypeOK, Preloading, Alive, NEW h \in Hashes, ReadLeaves(h), PreInflightRemove(h),
         waiters' = [waiters EXCEPT ![h] = {}], UNCHANGED <<mode, specQ, parked>>,
         \A g \in Hashes : IsShared(g)' => IsShared(g), Covered', Wanted'
  PROVE  Preloading'
<1>1. Total /\ Books /\ Served
  BY DEF Preloading
<1>2. /\ Total' /\ preInflight'[h] = 0 /\ UnderWay(h)' = 0
      /\ cancel[h] = Times(pending, h) /\ Times(pending, h) \in Nat
      /\ ~IsShared(h) /\ h \notin blocked /\ h \notin knownMissing
      /\ \A g \in Hashes : g # h =>
           preInflight'[g] = preInflight[g] /\ UnderWay(g)' = UnderWay(g)
  BY <1>1, ReadEnds
<1>3. Served' /\ \A g \in Hashes : g # h => waiters'[g] = waiters[g]
  BY <1>1, <1>2, ServedEnds
<1>4. Book(h)'
  <2>1. Shelf(h)' = 0
    BY <1>2 DEF Shelf, One
  <2>. QED  BY <1>2, <2>1, BookOfEnded
<1>5. \A g \in Hashes : g # h => Steady(g)
  BY <1>2, <1>3 DEF Steady
<1>6. Books'
  BY <1>1, <1>4, <1>5, BooksStep
<1>. QED  BY <1>2, <1>3, <1>6 DEF Preloading

-----------------------------------------------------------------------------
(* Completions.                                                             *)

\* Steps that leave queue, reads, demand and objects alone.
LEMMA Untouched ==
  ASSUME TypeOK, Preloading, mode' = mode,
         UNCHANGED <<specQ, specIo, inflight, waiters, demand, sharedCached>>,
         blocked' \subseteq blocked, knownMissing' \subseteq knownMissing
  PROVE  Preloading'
<1>1. DemandTypes /\ (Alive => Covered /\ Wanted)
  BY DEF TypeOK, Preloading
<1>. QED  BY <1>1, DemandKept, Undisturbed DEF IsShared, Alive

LEMMA CudaPreloads ==
  ASSUME TypeOK, Preloading,
         \/ \E b \in batches : BatchDone(b)
         \/ \E w \in settling : Settle(w)
         \/ \E op \in storeOps : OnStoreCopyDone(op) \/ OnStoreCopyFailed(op)
  PROVE  Preloading'
<1>1. ASSUME NEW b \in batches, BatchDone(b) PROVE Preloading'
  BY <1>1, Untouched DEF BatchDone, At
<1>2. ASSUME NEW w \in settling, Settle(w) PROVE Preloading'
  BY <1>2, Untouched DEF Settle
<1>3. ASSUME NEW op \in storeOps, OnStoreCopyDone(op) PROVE Preloading'
  BY <1>3, Untouched DEF OnStoreCopyDone, At
<1>4. ASSUME NEW op \in storeOps, OnStoreCopyFailed(op) PROVE Preloading'
  BY <1>4, Untouched DEF OnStoreCopyFailed, StoreFileFails, StoreInflightDone, At
<1>. QED  BY <1>1, <1>2, <1>3, <1>4

\* The descriptor of a preload joins the ready ones: the same read, further on.
LEMMA OpenedPreloads ==
  ASSUME TypeOK, Preloading, NEW o \in preOpens, OnPreOpenComplete(o)
  PROVE  Preloading'
<1>1. /\ Alive /\ preOpens' = preOpens \ {o} /\ preReady' = Append(preReady, o.hash)
      /\ UNCHANGED <<mode, specQ, parked, preReads, inflight, waiters, demand, sharedCached>>
  BY DEF OnPreOpenComplete, At
<1>2. Total /\ Books /\ Covered /\ Wanted /\ Served /\ DemandTypes
  BY <1>1 DEF Preloading, TypeOK
<1>3. o.hash \in Hashes /\ preReady \in Seq(Hashes)
  BY DEF TypeOK, PreloadTypes, PreOpen
<1>4. /\ IsFiniteSet(preOpens') /\ Cardinality(preOpens) = Cardinality(preOpens') + 1
      /\ \A g : Entries(preOpens, g) = Entries(preOpens', g) + One(o.hash = g)
  <2>1. IsFiniteSet(preOpens)
    BY <1>2 DEF Total
  <2>. QED  BY <1>1, <2>1, EntriesTake
<1>5. Total'
  <2>1. Len(preReady') = Len(preReady) + 1 /\ Len(preReady) \in Nat
    BY <1>1, <1>3, AppendProperties
  <2>2. Cardinality(preOpens') \in Nat /\ Cardinality(preReads) \in Nat
    BY <1>2, <1>4, FS_CardinalityType DEF Total
  <2>. QED  BY <1>1, <1>2, <1>4, <2>1, <2>2 DEF Total
<1>6. ASSUME NEW g \in Hashes PROVE Steady(g)
  <2>1. Times(preReady', g) = Times(preReady, g) + One(o.hash = g)
    BY <1>1, <1>3, TimesAppend
  <2>2. Entries(preOpens, g) = Entries(preOpens', g) + One(o.hash = g)
    BY <1>4
  <2>3. Entries(preOpens', g) \in Nat /\ Times(preReady, g) \in Nat /\ Entries(preReads, g) \in Nat
        /\ One(o.hash = g) \in Nat
    BY <1>2, <1>4, AreNumbers, EntriesType DEF Numbers, One
  <2>4. UnderWay(g)' = UnderWay(g)
    BY <1>1, <2>1, <2>2, <2>3 DEF UnderWay
  <2>. QED  BY <1>1, <2>4 DEF Steady, IsShared
<1>7. Books'
  BY <1>2, <1>6, AreNumbers, SteadyBook DEF Books
<1>8. Served'
  BY <1>1, <1>2 DEF Served
<1>9. Covered' /\ Wanted'
  BY <1>1, <1>2, DemandKept DEF IsShared
<1>. QED  BY <1>5, <1>7, <1>8, <1>9 DEF Preloading

\* A preload finds no file: its waiters fail, or else it is parked or remembered.
LEMMA MissedPreloads ==
  ASSUME TypeOK, Preloading, NEW o \in preOpens, OnPreOpenMiss(o)
  PROVE  Preloading'
<1>. DEFINE h == o.hash
<1>0. h \in Hashes
  BY DEF TypeOK, PreloadTypes, PreOpen
<1>1. /\ Alive /\ preOpens' = preOpens \ {o} /\ PreInflightRemove(h)
      /\ waiters' = [waiters EXCEPT ![h] = {}]
      /\ UNCHANGED <<mode, specQ, preReady, preReads, demand, sharedCached>>
      /\ \/ UNCHANGED parked
         \/ waiters[h] = {} /\ blocked' = blocked \cup {h} /\ UNCHANGED knownMissing
         \/ waiters[h] = {} /\ Remember(h) /\ UNCHANGED blocked
  BY DEF OnPreOpenMiss, At
<1>2. Total /\ Books /\ Covered /\ Wanted /\ Served /\ DemandTypes
  BY <1>1 DEF Preloading, TypeOK
<1>3. ReadLeaves(h)
  BY <1>1, <1>2, OpenLeaves
<1>4. Covered' /\ Wanted'
  BY <1>1, <1>2, DemandKept DEF IsShared
<1>. HIDE DEF h
<1>5. CASE UNCHANGED parked
  BY <1>0, <1>1, <1>3, <1>4, <1>5, ReadDropped DEF IsShared
<1>6. CASE \/ waiters[h] = {} /\ blocked' = blocked \cup {h} /\ UNCHANGED knownMissing
           \/ waiters[h] = {} /\ Remember(h) /\ UNCHANGED blocked
  <2>1. /\ Total' /\ preInflight'[h] = 0 /\ UnderWay(h)' = 0
        /\ Times(pending, h) = 0 /\ cancel[h] = 0
        /\ ~IsShared(h) /\ h \notin blocked /\ h \notin knownMissing
        /\ \A g \in Hashes : g # h =>
             preInflight'[g] = preInflight[g] /\ UnderWay(g)' = UnderWay(g)
    BY <1>0, <1>1, <1>2, <1>3, <1>6, ReadEnds
  <2>2. Served' /\ \A g \in Hashes : g # h => waiters'[g] = waiters[g]
    BY <1>0, <1>1, <1>2, <2>1, ServedEnds
  <2>3. /\ \A g \in Hashes : g # h => /\ g \in blocked' => g \in blocked
                                      /\ g \in knownMissing' => g \in knownMissing
        /\ h \in blocked' <=> h \notin knownMissing'
    BY <1>6, <2>1 DEF Remember
  <2>4. Book(h)'
    <3>1. Shelf(h)' = 1
      BY <1>1, <2>1, <2>3 DEF Shelf, One, IsShared
    <3>. QED  BY <1>0, <1>1, <2>1, <3>1, BookOfEnded
  <2>5. \A g \in Hashes : g # h => Steady(g)
    BY <1>1, <2>1, <2>2, <2>3 DEF Steady, IsShared
  <2>6. Books'
    BY <1>0, <1>2, <2>4, <2>5, BooksStep
  <2>. QED  BY <1>4, <2>1, <2>2, <2>6 DEF Preloading
<1>. QED  BY <1>1, <1>5, <1>6

LEMMA SharedReadPreloads ==
  ASSUME TypeOK, Provenance, Preloading, NEW r \in preReads, OnSharedReadComplete(r)
  PROVE  Preloading'
<1>. DEFINE h == r.hash
            s == r.slot
            qs == {Req(f) : f \in waiters[h]}
            keep == mode = "run" /\ RefAfter(qs, h) > 0
<1>0. h \in Hashes /\ s \in Slots /\ qs \in SUBSET Reqs
  BY FileFacts DEF TypeOK, PreloadTypes, PreRead
<1>1. /\ Alive /\ preReads' = preReads \ {r} /\ PreInflightRemove(h)
      /\ waiters' = [waiters EXCEPT ![h] = {}] /\ Claim(qs, h)
      /\ sharedCached' = IF keep THEN [sharedCached EXCEPT ![h] = s] ELSE sharedCached
      /\ UNCHANGED <<mode, specQ, parked, preOpens, preReady>>
  BY DEF OnSharedReadComplete, At
<1>2. Total /\ Books /\ Covered /\ Wanted /\ Served /\ DemandTypes /\ SharedTypes
  BY <1>1 DEF Preloading, TypeOK
<1>3. ReadLeaves(h)
  BY <1>1, <1>2, SharedReadLeaves
<1>4. keep => refcount'[h] > 0
  BY <1>0, <1>1, <1>2 DEF Claim, DemandTypes
<1>. HIDE DEF h, s, qs, keep
<1>5. /\ Total' /\ preInflight'[h] = 0 /\ UnderWay(h)' = 0
      /\ cancel[h] = Times(pending, h) /\ Times(pending, h) \in Nat
      /\ ~IsShared(h) /\ h \notin blocked /\ h \notin knownMissing
      /\ \A g \in Hashes : g # h =>
           preInflight'[g] = preInflight[g] /\ UnderWay(g)' = UnderWay(g)
  BY <1>0, <1>1, <1>2, <1>3, ReadEnds
<1>6. Served' /\ \A g \in Hashes : g # h => waiters'[g] = waiters[g]
  BY <1>0, <1>1, <1>2, <1>5, ServedEnds
<1>7. \A g \in Hashes : g # h => IsShared(g)' = IsShared(g) /\ refcount'[g] = refcount[g]
  BY <1>0, <1>1, <1>2 DEF IsShared, SharedTypes, Claim, DemandTypes
<1>8. IsShared(h)' => keep
  BY <1>1, <1>5 DEF IsShared
<1>9. Covered' /\ Wanted'
  BY <1>0, <1>1, <1>2, <1>4, <1>7, <1>8, ClaimCovered DEF Wanted
<1>10. Book(h)'
  <2>1. Shelf(h)' \in {0, 1}
    BY <1>1, <1>5 DEF Shelf, One
  <2>. QED  BY <1>0, <1>1, <1>5, <2>1, BookOfEnded
<1>11. \A g \in Hashes : g # h => Steady(g)
  BY <1>1, <1>5, <1>6, <1>7 DEF Steady
<1>12. Books'
  BY <1>0, <1>2, <1>10, <1>11, BooksStep
<1>. QED  BY <1>5, <1>6, <1>9, <1>12 DEF Preloading

\* A store is done: the last of its hash ends the parking of preloads on it.
LEMMA WrittenPreloads ==
  ASSUME TypeOK, Preloading, NEW op \in storeOps, OnWriteComplete(op)
  PROVE  Preloading'
<1>. DEFINE h == H(op.file)
<1>0. h \in Hashes
  BY FileFacts DEF TypeOK, TransferTypes, StoreOp
<1>1. /\ Alive /\ StoreInflightDone(h) /\ WakeBlocked(h)
      /\ UNCHANGED <<mode, cancel, knownMissing, specIo, inflight, waiters, sharedCached>>
  BY DEF OnWriteComplete, At
<1>. HIDE DEF h
<1>2. Total /\ Books /\ Covered /\ Wanted /\ Served /\ DemandTypes
  BY <1>1 DEF Preloading, TypeOK
<1>3. Total' /\ Served'
  BY <1>1, <1>2 DEF Total, Served
<1>4. CASE LastStore(h) /\ h \in blocked /\ mode = "run"
  <2>1. /\ Times(pending, h) = 0 /\ cancel[h] = 0 /\ preInflight[h] = 0 /\ UnderWay(h) = 0
        /\ ~IsShared(h) /\ h \notin knownMissing
    BY <1>0, <1>2, <1>4, AreNumbers, BookOfParked DEF Books
  <2>2. blocked' = blocked \ {h}
    BY <1>1, <1>4 DEF StoreInflightDone
  <2>3. Shelf(h)' = 0 /\ UnderWay(h)' = 0
    BY <1>1, <2>1, <2>2 DEF Shelf, One, IsShared, UnderWay
  <2>4. CASE CacheOn
    <3>1. Purge(h) /\ pending' = pending
      BY <1>1, <1>4, <2>4 DEF WakeBlocked
    <3>2. Covered'
      BY <1>0, <1>2, <3>1, PurgeCovered
    <3>3. Wanted'
      <4>1. \A g \in Hashes : g # h => refcount'[g] = refcount[g]
        BY <3>1, <1>2 DEF Purge, DemandTypes
      <4>. QED  BY <1>1, <1>2, <2>1, <4>1 DEF Wanted, IsShared
    <3>. QED  BY <1>1, <2>2, <3>1, <3>2, <3>3, Undisturbed DEF IsShared, Alive
  <2>5. CASE ~CacheOn
    <3>1. pending' = Append(pending, h) /\ UNCHANGED demand
      BY <1>1, <1>4, <2>5 DEF WakeBlocked
    <3>2. Covered' /\ Wanted'
      BY <1>1, <1>2, <3>1, DemandKept DEF IsShared
    <3>3. \A g \in Hashes : Times(pending, g)' = Times(pending, g) + One(h = g)
      BY <1>0, <3>1, TimesAppend DEF TypeOK, QueueTypes
    <3>4. Book(h)'
      <4>1. Times(pending, h)' = 1
        BY <1>0, <2>1, <3>3 DEF One
      <4>. QED  BY <1>1, <2>1, <2>2, <2>3, <4>1 DEF Book
    <3>5. ASSUME NEW g \in Hashes, g # h PROVE Steady(g)
      <4>1. Times(pending, g)' = Times(pending, g)
        <5>1. Times(pending, g) \in Nat
          BY <1>2, AreNumbers DEF Numbers
        <5>. QED  BY <3>3, <3>5, <5>1 DEF One
      <4>. QED  BY <1>1, <2>2, <4>1 DEF Steady, UnderWay, IsShared
    <3>6. Books'
      BY <1>0, <1>2, <3>4, <3>5, BooksStep
    <3>. QED  BY <1>3, <3>2, <3>6 DEF Preloading
  <2>. QED  BY <2>4, <2>5
<1>5. CASE ~(LastStore(h) /\ h \in blocked /\ mode = "run")
  <2>1. UNCHANGED <<demand, pending>> /\ blocked' \subseteq blocked
    BY <1>1, <1>5 DEF WakeBlocked, StoreInflightDone
  <2>. QED  BY <1>1, <2>1, Untouched
<1>. QED  BY <1>4, <1>5

LEMMA PollPreloads ==
  ASSUME TypeOK, Provenance, Preloading,
         \/ \E op \in storeOps : OnWriteComplete(op) \/ OnWriteFails(op)
         \/ \E o \in opens : OnOpenComplete(o) \/ OnOpenMiss(o)
         \/ \E o \in preOpens : OnPreOpenComplete(o) \/ OnPreOpenMiss(o)
         \/ \E r \in reads : OnReadComplete(r) \/ OnReadFails(r)
         \/ \E r \in preReads : OnSharedReadComplete(r) \/ OnSharedReadFails(r)
  PROVE  Preloading'
<1>1. ASSUME NEW op \in storeOps, OnWriteFails(op) PROVE Preloading'
  BY <1>1, Untouched DEF OnWriteFails, StoreFileFails, StoreInflightDone, At
<1>2. ASSUME NEW o \in opens, OnOpenComplete(o) \/ OnOpenMiss(o) PROVE Preloading'
  BY <1>2, Untouched DEF OnOpenComplete, OnOpenMiss, At
<1>3. ASSUME NEW r \in reads, OnReadComplete(r) \/ OnReadFails(r) PROVE Preloading'
  BY <1>3, Untouched DEF OnReadComplete, OnReadFails, At
<1>4. ASSUME NEW r \in preReads, OnSharedReadFails(r) PROVE Preloading'
  <2>1. /\ Alive /\ preReads' = preReads \ {r} /\ PreInflightRemove(r.hash)
        /\ waiters' = [waiters EXCEPT ![r.hash] = {}]
        /\ UNCHANGED <<mode, specQ, parked, preOpens, preReady, demand, sharedCached>>
    BY <1>4 DEF OnSharedReadFails, At
  <2>2. Total /\ Covered /\ Wanted /\ DemandTypes /\ r.hash \in Hashes
    BY <2>1 DEF Preloading, TypeOK, PreloadTypes, PreRead
  <2>3. Covered' /\ Wanted'
    BY <2>1, <2>2, DemandKept DEF IsShared
  <2>. QED  BY <2>1, <2>2, <2>3, SharedReadLeaves, ReadDropped DEF IsShared
<1>. QED  BY <1>1, <1>2, <1>3, <1>4, OpenedPreloads, MissedPreloads, SharedReadPreloads,
             WrittenPreloads

-----------------------------------------------------------------------------
(* Scheduling.                                                              *)

\* A slot is reserved, maybe at the cost of an idle preload.
LEMMA Reserved ==
  ASSUME TypeOK, Preloading, Alive, NEW s, NEW back, ReserveForeground(s, back),
         UNCHANGED <<mode, specQ, specIo, inflight, waiters>>,
         blocked' \subseteq blocked, knownMissing' \subseteq knownMissing
  PROVE  Preloading'
<1>1. Covered /\ Wanted /\ DemandTypes /\ SharedTypes
  BY DEF Preloading, TypeOK
<1>2. Covered' /\ Wanted' /\ \A h \in Hashes : IsShared(h)' => IsShared(h)
  BY <1>1, ReserveDemand
<1>. QED  BY <1>2, Undisturbed

LEMMA ReadyPreloads ==
  ASSUME TypeOK, Preloading, NEW f \in readyLoad, NEW s \in Slots,
         SubmitRead(f, s) \/ SubmitReadRefused(f, s)
  PROVE  Preloading'
BY Reserved DEF SubmitRead, SubmitReadRefused, At

LEMMA StoreSchedulePreloads ==
  ASSUME TypeOK, Preloading, NEW k \in 1..Len(order), NEW s \in Slots,
         ScheduleStoreCopy(k, s) \/ ScheduleStoreCopyFails(k, s)
  PROVE  Preloading'
<1>1. CASE ScheduleStoreCopy(k, s)
  BY <1>1, Reserved DEF ScheduleStoreCopy, StoreAt, At
<1>2. CASE ScheduleStoreCopyFails(k, s)
  BY <1>2, Reserved DEF ScheduleStoreCopyFails, StoreInflightDone, StoreAt, At
<1>. QED  BY <1>1, <1>2

\* The open of a preload is submitted: the one read of a hash that had none.
OpenPut(h) ==
  /\ preOpens' = preOpens \cup {[hash |-> h, had |-> h \in stored]}
  /\ PreInflightAdd(h)

LEMMA OpenStarts ==
  ASSUME TypeOK, Total, Books, NEW h \in Hashes, preInflight[h] = 0, OpenPut(h),
         UNCHANGED <<mode, preReady, preReads>>
  PROVE  /\ Total' /\ preInflight'[h] = 1 /\ UnderWay(h)' = 1
         /\ \A g \in Hashes : g # h =>
              preInflight'[g] = preInflight[g] /\ UnderWay(g)' = UnderWay(g)
<1>. DEFINE x == [hash |-> h, had |-> h \in stored]
<1>1. Numbers(h) /\ UnderWay(h) = 0 /\ IsFiniteSet(preOpens)
  BY AreNumbers DEF Books, Book, Total
<1>2. Entries(preOpens, h) = 0 /\ x.hash = h /\ preOpens' = preOpens \cup {x}
  BY <1>1 DEF Numbers, UnderWay, OpenPut
<1>3. x \notin preOpens
  BY <1>1, <1>2, EntriesType
<1>. HIDE DEF x
<1>4. /\ IsFiniteSet(preOpens') /\ Cardinality(preOpens') = Cardinality(preOpens) + 1
      /\ \A g : Entries(preOpens', g) = Entries(preOpens, g) + One(h = g)
  <2>1. /\ IsFiniteSet(preOpens') /\ Cardinality(preOpens') = Cardinality(preOpens) + 1
        /\ \A g : Entries(preOpens', g) = Entries(preOpens, g) + One(x.hash = g)
    <3>1. IsFiniteSet(preOpens) /\ preOpens' = preOpens \cup {x}
      BY <1>1, <1>2
    <3>. QED  BY ONLY <1>3, <3>1, EntriesPut
  <2>2. x.hash = h
    BY <1>2
  <2>. QED  BY ONLY <2>1, <2>2
<1>5. preInflight' = [preInflight EXCEPT ![h] = @ + 1] /\ preTotal' = preTotal + 1
  BY DEF OpenPut, PreInflightAdd
<1>6. preInflight'[h] = 1 /\ \A g \in Hashes : g # h => preInflight'[g] = preInflight[g]
  BY <1>5 DEF TypeOK, PreloadTypes
<1>7. Total'
  <2>1. Cardinality(preOpens) \in Nat /\ Cardinality(preReads) \in Nat /\ Len(preReady) \in Nat
    BY FS_CardinalityType DEF Total, TypeOK, PreloadTypes
  <2>. QED  BY <1>4, <1>5, <2>1 DEF Total
<1>8. ASSUME NEW g \in Hashes PROVE UnderWay(g)' = UnderWay(g) + One(h = g)
  <2>1. Entries(preOpens', g) = Entries(preOpens, g) + One(h = g)
    BY <1>4
  <2>2. Numbers(g) /\ One(h = g) \in Nat
    BY AreNumbers DEF One
  <2>3. /\ UnderWay(g)' = Entries(preOpens', g) + Times(preReady, g) + Entries(preReads, g)
        /\ UnderWay(g) = Entries(preOpens, g) + Times(preReady, g) + Entries(preReads, g)
        /\ Entries(preOpens, g) \in Nat /\ Times(preReady, g) \in Nat
        /\ Entries(preReads, g) \in Nat
    BY <2>2 DEF UnderWay, Numbers
  <2>. QED  BY ONLY <2>1, <2>2, <2>3
<1>9. UnderWay(h)' = 1
  BY <1>1, <1>8 DEF One
<1>10. \A g \in Hashes : g # h => UnderWay(g)' = UnderWay(g)
  BY <1>8, AreNumbers DEF One, Numbers
<1>. QED  BY <1>6, <1>7, <1>9, <1>10

\* A load parks on the read under way.
LEMMA ParkedPreloads ==
  ASSUME TypeOK, Preloading, NEW k \in 1..Len(order), SchedulePreloadInflight(k)
  PROVE  Preloading'
<1>. DEFINE f == NextFile(order[k])
            h == H(f)
<1>1. /\ Alive /\ preInflight[h] > 0 /\ waiters' = [waiters EXCEPT ![h] = @ \cup {f}]
      /\ UNCHANGED <<mode, specQ, parked, specIo, inflight, demand, sharedCached>>
  BY DEF SchedulePreloadInflight, LoadAt, At
<1>2. Total /\ Books /\ Covered /\ Wanted /\ Served /\ DemandTypes
  BY <1>1 DEF Preloading, TypeOK
<1>. HIDE DEF f, h
<1>3. \A g \in Hashes : /\ waiters[g] \subseteq waiters'[g]
                        /\ g # h => waiters'[g] = waiters[g]
  BY <1>1 DEF TypeOK, PreloadTypes
<1>4. \A g \in Hashes : Steady(g)
  BY <1>1, <1>3 DEF Steady, UnderWay, IsShared
<1>5. Books'
  BY <1>2, <1>4, AreNumbers, SteadyBook DEF Books
<1>6. Total' /\ Served'
  BY <1>1, <1>2, <1>3 DEF Total, Served
<1>7. Covered' /\ Wanted'
  BY <1>1, <1>2, DemandKept DEF IsShared
<1>. QED  BY <1>5, <1>6, <1>7 DEF Preloading

\* A queued hash is read for the load that parks on it; its entry is cancelled.
LEMMA PromotedPreloads ==
  ASSUME TypeOK, Preloading, NEW k \in 1..Len(order), PromotePendingToSharedRead(k)
  PROVE  Preloading'
<1>0. PICK f \in Files, h \in Hashes : f = NextFile(order[k]) /\ h = H(f)
  BY TurnFile DEF PromotePendingToSharedRead
<1>1. /\ Alive /\ ~IsShared(h) /\ preInflight[h] = 0 /\ Queued(h)
      /\ CancelOnePending(h) /\ SubmitOpenPreload(h)
      /\ waiters' = [waiters EXCEPT ![h] = @ \cup {f}]
      /\ UNCHANGED <<mode, pending, parked, preReady, preReads, demand, sharedCached>>
  BY <1>0 DEF PromotePendingToSharedRead, LoadAt, NoCopyAt, At
<1>2. Total /\ Books /\ Covered /\ Wanted /\ Served /\ DemandTypes
  BY <1>1 DEF Preloading, TypeOK
<1>3. Numbers(h) /\ Book(h) /\ Times(pending, h) # 0
  BY <1>0, <1>1, <1>2, AreNumbers, QueuedTimes DEF Books
<1>4. h \notin blocked /\ h \notin knownMissing
  BY <1>3 DEF Book
<1>5. Shelf(h) = 0 /\ Shelf(h)' = 0
  BY <1>1, <1>4 DEF Shelf, One, IsShared
<1>6. /\ waiters'[h] # {}
      /\ \A g \in Hashes : waiters[g] \subseteq waiters'[g] /\ (g # h => waiters'[g] = waiters[g])
  BY <1>0, <1>1 DEF TypeOK, PreloadTypes
<1>7. /\ cancel'[h] = Times(pending, h) /\ Times(pending, h) \in Nat
      /\ \A g \in Hashes : g # h => cancel'[g] = cancel[g]
  <2>1. cancel[h] \in Nat /\ Times(pending, h) \in Nat /\ cancel[h] <= Times(pending, h)
        /\ Times(pending, h) - cancel[h] <= 1
    BY <1>1, <1>3, <1>5 DEF Book, Numbers
  <2>2. cancel' = IF Times(pending, h) > cancel[h] THEN [cancel EXCEPT ![h] = @ + 1] ELSE cancel
    BY <1>1 DEF CancelOnePending, Times
  <2>3. cancel \in [Hashes -> Int]
    BY DEF TypeOK, QueueTypes
  <2>4. CASE Times(pending, h) > cancel[h]
    BY <1>0, <2>1, <2>2, <2>3, <2>4
  <2>5. CASE ~(Times(pending, h) > cancel[h])
    BY <1>0, <2>1, <2>2, <2>3, <2>5
  <2>. QED  BY <2>4, <2>5
<1>8. Covered' /\ Wanted'
  BY <1>1, <1>2, DemandKept DEF IsShared
<1>9. /\ Total' /\ Served' /\ Book(h)'
      /\ \A g \in Hashes : g # h =>
           preInflight'[g] = preInflight[g] /\ UnderWay(g)' = UnderWay(g)
  <2>1. CASE OpenPut(h)
    <3>1. /\ Total' /\ preInflight'[h] = 1 /\ UnderWay(h)' = 1
          /\ \A g \in Hashes : g # h =>
               preInflight'[g] = preInflight[g] /\ UnderWay(g)' = UnderWay(g)
      BY <1>0, <1>1, <1>2, <2>1, OpenStarts
    <3>2. Served'
      BY <1>2, <1>6, <3>1 DEF Served
    <3>3. Book(h)'
      BY <1>1, <1>4, <1>5, <1>6, <1>7, <3>1 DEF Book
    <3>. QED  BY <3>1, <3>2, <3>3
  <2>2. CASE "submit" \in Faults /\ UNCHANGED <<preOpens, openInflight, inflight>>
    <3>1. Total' /\ Served'
      BY <1>1, <1>2, <2>2 DEF Total, Served
    <3>2. UnderWay(h)' = UnderWay(h) /\ UnderWay(h) = 0 /\ preInflight'[h] = 0
      BY <1>1, <1>3, <2>2 DEF UnderWay, Book
    <3>3. Book(h)'
      BY <1>1, <1>4, <1>5, <1>7, <3>2 DEF Book
    <3>. QED  BY <1>1, <2>2, <3>1, <3>3 DEF UnderWay
  <2>. QED  BY <1>1, <2>1, <2>2 DEF SubmitOpenPreload, OpenPut
<1>10. \A g \in Hashes : g # h => Steady(g)
  BY <1>1, <1>6, <1>7, <1>9 DEF Steady, IsShared
<1>11. Books'
  BY <1>0, <1>2, <1>9, <1>10, BooksStep
<1>. QED  BY <1>8, <1>9, <1>11 DEF Preloading

LEMMA LoadSchedulePreloads ==
  ASSUME TypeOK, Preloading, NEW k \in 1..Len(order),
         \/ ScheduleCacheHit(k) \/ SharedClaimFromCache(k) \/ SharedClaimFails(k)
         \/ SchedulePreloadInflight(k) \/ PromotePendingToSharedRead(k)
         \/ SubmitOpenRead(k)
  PROVE  Preloading'
<1>. DEFINE f == NextFile(order[k])
            h == H(f)
            q == Req(f)
<1>1. CASE ScheduleCacheHit(k)
  BY <1>1, Untouched DEF ScheduleCacheHit, LoadAt, At
<1>2. CASE SharedClaimFromCache(k) \/ SharedClaimFails(k) \/ SubmitOpenRead(k)
  <2>0. h \in Hashes /\ q \in Reqs
    BY <1>2, TurnFile DEF SharedClaimFromCache, SharedClaimFails, SubmitOpenRead
  <2>1. /\ Alive /\ UNCHANGED <<mode, specQ, specIo, inflight, waiters, parked>>
        /\ \/ /\ Claim({q}, h)
              /\ IF EndsDemand(q, h) /\ IsShared(h)
                   THEN sharedCached' = [sharedCached EXCEPT ![h] = NoSlot]
                   ELSE UNCHANGED sharedCached
           \/ SharedDecref(q, h)
    BY <1>2 DEF SharedClaimFromCache, SharedClaimFails, SubmitOpenRead, NoCopyAt, LoadAt, At
  <2>2. Covered /\ Wanted /\ DemandTypes /\ SharedTypes
    BY <2>1 DEF Preloading, TypeOK
  <2>. HIDE DEF f, h, q
  <2>3. Covered' /\ Wanted' /\ \A g \in Hashes : IsShared(g)' => IsShared(g)
    BY <2>0, <2>1, <2>2, DecrefDemand, ClaimCovered, ClaimWanted
  <2>. QED  BY <2>1, <2>3, Undisturbed
<1>. QED  BY <1>1, <1>2, ParkedPreloads, PromotedPreloads

-----------------------------------------------------------------------------
(* Speculative reads.                                                       *)

\* The head of the ready descriptors gets its slot: the same read, further on.
LEMMA SubmittedPreloads ==
  ASSUME TypeOK, Preloading, NEW s \in Slots, SubmitPreloadRead(s)
  PROVE  Preloading'
<1>0. preReady \in Seq(Hashes) /\ preReady # <<>>
  BY DEF SubmitPreloadRead, ReadHead, TypeOK, PreloadTypes
<1>. PICK h \in Hashes : h = Head(preReady)
  BY <1>0, HeadTailProperties
<1>. DEFINE x == [hash |-> h, slot |-> s]
<1>1. /\ Alive /\ ReserveForeground(s, {})
      /\ preReady' = Tail(preReady) /\ preReads' = preReads \cup {x}
      /\ UNCHANGED <<mode, specQ, parked, preOpens, inflight, waiters>>
  BY DEF SubmitPreloadRead, ReadHead, ReservePreload, At
<1>2. Total /\ Books /\ Covered /\ Wanted /\ Served /\ DemandTypes /\ SharedTypes
  BY <1>1 DEF Preloading, TypeOK
<1>3. Covered' /\ Wanted' /\ \A g \in Hashes : IsShared(g)' => IsShared(g)
  BY <1>1, <1>2, ReserveDemand
<1>4. \A g \in Hashes : Times(preReady, g) = Times(preReady', g) + One(h = g)
  BY <1>0, <1>1, TimesTail
<1>5. \A g \in Hashes : Times(preReady', g) \in Nat
  <2>1. preReady' \in Seq(Hashes)
    BY <1>0, <1>1, HeadTailProperties
  <2>. QED  BY <2>1, TimesType
<1>6. x.hash = h /\ x \notin preReads /\ IsFiniteSet(preReads)
  <2>1. Numbers(h) /\ Book(h) /\ Shelf(h) \in Nat
    BY <1>2, AreNumbers, Shelves DEF Books
  <2>2. Times(preReady, h) > 0
    BY <1>4, <1>5 DEF One
  <2>3. Entries(preReads, h) = 0
    BY <2>1, <2>2 DEF Book, Numbers, UnderWay
  <2>4. IsFiniteSet(preReads)
    BY <1>2 DEF Total
  <2>. QED  BY <2>3, <2>4, EntriesType
<1>12. preReads' = preReads \cup {x}
  BY <1>1
<1>. HIDE DEF x
<1>7. /\ IsFiniteSet(preReads') /\ Cardinality(preReads') = Cardinality(preReads) + 1
      /\ \A g : Entries(preReads', g) = Entries(preReads, g) + One(x.hash = g)
  BY ONLY <1>6, <1>12, EntriesPut
<1>8. Total'
  <2>1. Len(preReady) = Len(preReady') + 1 /\ Len(preReady') \in Nat
    BY <1>0, <1>1, HeadTailProperties, EmptySeq
  <2>2. Cardinality(preOpens) \in Nat /\ Cardinality(preReads) \in Nat
    BY <1>2, FS_CardinalityType DEF Total
  <2>3. /\ IsFiniteSet(preOpens)
        /\ mode = "run" =>
             preTotal = Cardinality(preOpens) + Len(preReady) + Cardinality(preReads)
        /\ UNCHANGED <<mode, preTotal, preOpens>>
    BY <1>1, <1>2 DEF Total
  <2>. QED  BY <1>7, <2>1, <2>2, <2>3 DEF Total
<1>9. ASSUME NEW g \in Hashes PROVE Steady(g)
  <2>1. Entries(preReads', g) = Entries(preReads, g) + One(h = g)
    BY <1>6, <1>7
  <2>2. Times(preReady, g) = Times(preReady', g) + One(h = g) /\ Times(preReady', g) \in Nat
    BY <1>4, <1>5
  <2>3. Entries(preOpens, g) \in Nat /\ Entries(preReads, g) \in Nat /\ One(h = g) \in Nat
    BY <1>2, AreNumbers DEF Numbers, One
  <2>4. /\ UnderWay(g)' = Entries(preOpens, g) + Times(preReady', g) + Entries(preReads', g)
        /\ UnderWay(g) = Entries(preOpens, g) + Times(preReady, g) + Entries(preReads, g)
    BY <1>1 DEF UnderWay
  <2>5. UnderWay(g)' = UnderWay(g)
    BY ONLY <2>1, <2>2, <2>3, <2>4
  <2>. QED  BY <1>1, <1>3, <2>5 DEF Steady
<1>10. Books'
  BY <1>2, <1>9, AreNumbers, SteadyBook DEF Books
<1>11. Served'
  BY <1>1, <1>2 DEF Served
<1>. QED  BY <1>3, <1>8, <1>10, <1>11 DEF Preloading

LEMMA RefusedPreloads ==
  ASSUME TypeOK, Preloading, NEW s \in Slots, SubmitPreloadReadRefused(s)
  PROVE  Preloading'
<1>0. preReady \in Seq(Hashes) /\ preReady # <<>>
  BY DEF SubmitPreloadReadRefused, ReadHead, TypeOK, PreloadTypes
<1>. PICK h \in Hashes : h = Head(preReady)
  BY <1>0, HeadTailProperties
<1>1. /\ Alive /\ ReserveForeground(s, {s}) /\ preReady' = Tail(preReady)
      /\ PreInflightRemove(h) /\ waiters' = [waiters EXCEPT ![h] = {}]
      /\ UNCHANGED <<mode, specQ, parked, preOpens, preReads>>
  BY DEF SubmitPreloadReadRefused, ReadHead, ReservePreload, At
<1>2. Total /\ Covered /\ Wanted /\ DemandTypes /\ SharedTypes
  BY <1>1 DEF Preloading, TypeOK
<1>3. ReadLeaves(h)
  BY <1>0, <1>1, <1>2, FdLeaves
<1>4. Covered' /\ Wanted' /\ \A g \in Hashes : IsShared(g)' => IsShared(g)
  BY <1>1, <1>2, ReserveDemand
<1>. QED  BY <1>1, <1>3, <1>4, ReadDropped

\* A descriptor given up for a load: its hash is queued again.
LEMMA YieldedPreloads ==
  ASSUME TypeOK, Preloading, YieldOpenFd
  PROVE  Preloading'
<1>0. preReady \in Seq(Hashes) /\ preReady # <<>>
  BY DEF YieldOpenFd, TypeOK, PreloadTypes
<1>. PICK h \in Hashes : h = Head(preReady)
  BY <1>0, HeadTailProperties
<1>1. /\ Alive /\ waiters[h] = {} /\ preReady' = Tail(preReady)
      /\ PreInflightRemove(h) /\ pending' = Append(pending, h)
      /\ UNCHANGED <<mode, cancel, parked, preOpens, preReads, waiters, demand, sharedCached>>
  BY DEF YieldOpenFd, HeadWaited, At
<1>2. Total /\ Books /\ Covered /\ Wanted /\ Served /\ DemandTypes
  BY <1>1 DEF Preloading, TypeOK
<1>3. ReadLeaves(h)
  BY <1>0, <1>1, <1>2, FdLeaves
<1>4. /\ Total' /\ preInflight'[h] = 0 /\ UnderWay(h)' = 0
      /\ Times(pending, h) = 0 /\ cancel[h] = 0
      /\ ~IsShared(h) /\ h \notin blocked /\ h \notin knownMissing
      /\ \A g \in Hashes : g # h =>
           preInflight'[g] = preInflight[g] /\ UnderWay(g)' = UnderWay(g)
  BY <1>1, <1>2, <1>3, ReadEnds
<1>5. \A g \in Hashes : Times(pending, g)' = Times(pending, g) + One(h = g)
  BY <1>1, TimesAppend DEF TypeOK, QueueTypes
<1>6. Book(h)'
  <2>1. Times(pending, h)' = 1
    BY <1>4, <1>5 DEF One
  <2>2. Shelf(h)' = 0
    BY <1>1, <1>4 DEF Shelf, One, IsShared
  <2>. QED  BY <1>1, <1>4, <2>1, <2>2 DEF Book
<1>7. ASSUME NEW g \in Hashes, g # h PROVE Steady(g)
  <2>1. Times(pending, g)' = Times(pending, g)
    BY <1>2, <1>5, <1>7, AreNumbers DEF One, Numbers
  <2>. QED  BY <1>1, <1>4, <1>7, <2>1 DEF Steady, IsShared
<1>8. Books'
  BY <1>2, <1>6, <1>7, BooksStep
<1>9. Served'
  BY <1>1, <1>2, <1>4 DEF Served
<1>10. Covered' /\ Wanted'
  BY <1>1, <1>2, DemandKept DEF IsShared
<1>. QED  BY <1>4, <1>8, <1>9, <1>10 DEF Preloading

\* The head of the queue is taken out.
LEMMA HeadLeaves ==
  ASSUME TypeOK, Total, pending # <<>>, pending' = Tail(pending)
  PROVE  /\ Head(pending) \in Hashes
         /\ \A g \in Hashes : /\ Times(pending, g) = Times(pending, g)' + One(Head(pending) = g)
                              /\ Times(pending, g)' \in Nat
<1>1. pending \in Seq(Hashes)
  BY DEF TypeOK, QueueTypes
<1>2. Head(pending) \in Hashes /\ pending' \in Seq(Hashes)
  BY <1>1, HeadTailProperties
<1>. QED  BY <1>1, <1>2, TimesTail, TimesType

LEMMA CancelledPreloads ==
  ASSUME TypeOK, Preloading, DropCancelled
  PROVE  Preloading'
<1>0. /\ Alive /\ pending # <<>> /\ pending' = Tail(pending)
      /\ UNCHANGED <<mode, parked, specIo, inflight, waiters, demand, sharedCached>>
  BY DEF DropCancelled, HeadCancelled, At
<1>1. Total /\ Books /\ Covered /\ Wanted /\ Served /\ DemandTypes
  BY <1>0 DEF Preloading, TypeOK
<1>2. PICK h \in Hashes :
        /\ h = Head(pending) /\ cancel' = [cancel EXCEPT ![h] = @ - 1] /\ cancel[h] > 0
        /\ \A g \in Hashes : /\ Times(pending, g) = Times(pending, g)' + One(h = g)
                             /\ Times(pending, g)' \in Nat
  BY <1>0, <1>1, HeadLeaves DEF DropCancelled, HeadCancelled
<1>3. cancel'[h] = cancel[h] - 1 /\ \A g \in Hashes : g # h => cancel'[g] = cancel[g]
  BY <1>2 DEF TypeOK, QueueTypes
<1>4. Book(h)'
  <2>1. Numbers(h) /\ Book(h) /\ Shelf(h) \in Nat
    BY <1>1, AreNumbers, Shelves DEF Books
  <2>2. Times(pending, h) = Times(pending, h)' + 1 /\ Times(pending, h)' \in Nat
    BY <1>2 DEF One
  <2>3. Shelf(h)' = Shelf(h) /\ UnderWay(h)' = UnderWay(h)
    BY <1>0 DEF Shelf, IsShared, UnderWay
  <2>4. /\ h \notin blocked /\ h \notin knownMissing
        /\ ~(preInflight[h] > 0 /\ waiters[h] = {})
    BY <2>1, <2>2 DEF Book
  <2>5. preInflight[h] = UnderWay(h) /\ cancel[h] <= Times(pending, h)
        /\ Times(pending, h) - cancel[h] + preInflight[h] + Shelf(h) <= 1
    BY <2>1 DEF Book
  <2>6. preInflight[h] \in Nat /\ cancel[h] \in Int /\ cancel[h] > 0
    BY <1>2, <2>1 DEF Numbers
  <2>7. /\ cancel'[h] \in Nat /\ cancel'[h] <= Times(pending, h)'
        /\ Times(pending, h)' - cancel'[h] + preInflight[h] + Shelf(h)' <= 1
    BY <1>3, <2>1, <2>2, <2>3, <2>5, <2>6
  <2>. QED  BY <1>0, <2>3, <2>4, <2>5, <2>7 DEF Book
<1>5. ASSUME NEW g \in Hashes, g # h PROVE Steady(g)
  <2>1. Times(pending, g)' = Times(pending, g)
    BY <1>2, <1>5 DEF One
  <2>. QED  BY <1>0, <1>3, <1>5, <2>1 DEF Steady, UnderWay, IsShared
<1>6. Books'
  BY <1>1, <1>4, <1>5, BooksStep
<1>7. Total' /\ Served'
  BY <1>0, <1>1 DEF Total, Served
<1>8. Covered' /\ Wanted'
  BY <1>0, <1>1, DemandKept DEF IsShared
<1>. QED  BY <1>6, <1>7, <1>8 DEF Preloading

\* The head of the queue is opened, or waits for a store of it.
LEMMA TakenPreloads ==
  ASSUME TypeOK, Preloading, DeferOnWrite \/ OpenSpeculative
  PROVE  Preloading'
<1>0. /\ Alive /\ pending # <<>> /\ pending' = Tail(pending) /\ ~HeadCancelled
      /\ UNCHANGED <<mode, cancel, knownMissing, preReady, preReads, waiters, demand, sharedCached>>
  BY DEF DeferOnWrite, OpenSpeculative, CanSpeculate, At
<1>1. Total /\ Books /\ Covered /\ Wanted /\ Served /\ DemandTypes
  BY <1>0 DEF Preloading, TypeOK
<1>2. PICK h \in Hashes :
        /\ h = Head(pending) /\ ~(cancel[h] > 0)
        /\ \A g \in Hashes : /\ Times(pending, g) = Times(pending, g)' + One(h = g)
                             /\ Times(pending, g)' \in Nat
  BY <1>0, <1>1, HeadLeaves DEF HeadCancelled
<1>3. Times(pending, h) = Times(pending, h)' + 1
  BY <1>2 DEF One
<1>4. /\ Times(pending, h) = 1 /\ cancel[h] = 0 /\ preInflight[h] = 0 /\ UnderWay(h) = 0
      /\ ~IsShared(h) /\ h \notin blocked /\ h \notin knownMissing
  <2>1. Numbers(h) /\ Book(h)
    BY <1>1, AreNumbers DEF Books
  <2>2. Times(pending, h) > 0
    BY <1>2, <1>3
  <2>. QED  BY <1>2, <2>1, <2>2, BookOfQueued
<1>5. Times(pending, h)' = 0
  BY <1>2, <1>3, <1>4
<1>6. \A g \in Hashes : g # h => Times(pending, g)' = Times(pending, g)
  BY <1>2 DEF One
<1>7. Covered' /\ Wanted'
  BY <1>0, <1>1, DemandKept DEF IsShared
<1>8. CASE blocked' = blocked \cup {h} /\ UNCHANGED <<preOpens, inflight>>
  <2>1. Total' /\ Served'
    BY <1>0, <1>1, <1>8 DEF Total, Served
  <2>2. Shelf(h)' = 1 /\ UnderWay(h)' = 0
    BY <1>0, <1>4, <1>8 DEF Shelf, One, IsShared, UnderWay
  <2>3. Book(h)'
    BY <1>0, <1>4, <1>5, <1>8, <2>2 DEF Book
  <2>4. \A g \in Hashes : g # h => Steady(g)
    BY <1>0, <1>6, <1>8 DEF Steady, UnderWay, IsShared
  <2>5. Books'
    BY <1>1, <2>3, <2>4, BooksStep
  <2>. QED  BY <1>7, <2>1, <2>5 DEF Preloading
<1>9. CASE UNCHANGED <<blocked, preOpens, inflight>>
  <2>1. Total' /\ Served'
    BY <1>0, <1>1, <1>9 DEF Total, Served
  <2>2. Shelf(h)' = 0 /\ UnderWay(h)' = 0
    BY <1>0, <1>4, <1>9 DEF Shelf, One, IsShared, UnderWay
  <2>3. Book(h)'
    BY <1>0, <1>4, <1>5, <1>9, <2>2 DEF Book
  <2>4. \A g \in Hashes : g # h => Steady(g)
    BY <1>0, <1>6, <1>9 DEF Steady, UnderWay, IsShared
  <2>5. Books'
    BY <1>1, <2>3, <2>4, BooksStep
  <2>. QED  BY <1>7, <2>1, <2>5 DEF Preloading
<1>10. CASE UNCHANGED blocked /\ OpenPut(h)
  <2>1. /\ Total' /\ preInflight'[h] = 1 /\ UnderWay(h)' = 1
        /\ \A g \in Hashes : g # h =>
             preInflight'[g] = preInflight[g] /\ UnderWay(g)' = UnderWay(g)
    BY <1>0, <1>1, <1>4, <1>10, OpenStarts
  <2>2. Served'
    BY <1>0, <1>1, <2>1 DEF Served
  <2>3. Shelf(h)' = 0
    BY <1>0, <1>4, <1>10 DEF Shelf, One, IsShared
  <2>4. Book(h)'
    BY <1>0, <1>4, <1>5, <1>10, <2>1, <2>3 DEF Book
  <2>5. \A g \in Hashes : g # h => Steady(g)
    BY <1>0, <1>6, <1>10, <2>1 DEF Steady, IsShared
  <2>6. Books'
    BY <1>1, <2>4, <2>5, BooksStep
  <2>. QED  BY <1>7, <2>1, <2>2, <2>6 DEF Preloading
<1>. QED  BY <1>2, <1>8, <1>9, <1>10 DEF DeferOnWrite, OpenSpeculative, SubmitOpenPreload, OpenPut

-----------------------------------------------------------------------------
(* The invariant.                                                           *)

LEMMA TurnEndPreloads ==
  ASSUME TypeOK, Preloading, FlushCopyBatch \/ EndTurn \/ Exit \/ FailEverything
  PROVE  Preloading'
<1>1. CASE FlushCopyBatch \/ EndTurn
  BY <1>1, Untouched DEF FlushCopyBatch, EndTurn, At
<1>2. CASE Exit \/ FailEverything
  BY <1>2 DEF Exit, FailEverything, Preloading, Alive
<1>. QED  BY <1>1, <1>2

LEMMA StepPreloads == TypeOK /\ Provenance /\ Preloading /\ [Next]_vars => Preloading'
<1>. SUFFICES ASSUME TypeOK, Provenance, Preloading, [Next]_vars PROVE Preloading'
  OBVIOUS
<1>1. CASE Client
  BY <1>1, ClientPreloads
<1>2. CASE FailEverything
  BY <1>2, TurnEndPreloads
<1>3. CASE Work
  BY <1>3, AskedPreloads, StoredPreloads, CudaPreloads, PollPreloads, ReadyPreloads,
     LoadSchedulePreloads, StoreSchedulePreloads, SubmittedPreloads, RefusedPreloads,
     YieldedPreloads, CancelledPreloads, TakenPreloads, TurnEndPreloads DEF Work
<1>4. CASE UNCHANGED vars
  BY <1>4, Untouched DEF vars
<1>. QED  BY <1>1, <1>2, <1>3, <1>4 DEF Next

LEMMA OnShelf ==
  ASSUME NEW h, NEW S
  PROVE  Cardinality({h} \cap S) = One(h \in S)
<1>1. CASE h \in S
  <2>1. {h} \cap S = {h}
    BY <1>1
  <2>2. Cardinality({h}) = 1
    BY FS_Singleton
  <2>. QED  BY <1>1, <2>1, <2>2 DEF One
<1>2. CASE h \notin S
  <2>1. {h} \cap S = {}
    BY <1>2
  <2>2. Cardinality({}) = 0
    BY FS_EmptySet
  <2>. QED  BY <1>2, <2>1, <2>2 DEF One
<1>. QED  BY <1>1, <1>2

LEMMA BooksBalance ==
  TypeOK /\ Preloading => InflightExact /\ OneSourcePerHash /\ DemandCoversOwners
<1>. SUFFICES ASSUME TypeOK, Preloading, Alive
              PROVE  InflightExact /\ OneSourcePerHash /\ DemandCoversOwners
  BY DEF InflightExact, OneSourcePerHash, DemandCoversOwners
<1>1. Total /\ Books /\ Covered /\ Wanted
  BY DEF Preloading
<1>2. InflightExact
  BY <1>1 DEF InflightExact, Total, Books, Book, UnderWay, ReadsUnderWay, Entries, Times
<1>3. ASSUME NEW h \in Hashes
      PROVE  /\ LiveQueued(h) >= 0
             /\ LiveQueued(h) + preInflight[h]
                  + Cardinality({h} \cap SharedHashes) + Cardinality({h} \cap blocked)
                  + Cardinality({h} \cap knownMissing) <= 1
  <2>1. Numbers(h) /\ Book(h)
    BY <1>1, AreNumbers DEF Books
  <2>2. LiveQueued(h) = Times(pending, h) - cancel[h]
    BY DEF LiveQueued, Times
  <2>3. /\ Cardinality({h} \cap SharedHashes) = One(IsShared(h))
        /\ Cardinality({h} \cap blocked) = One(h \in blocked)
        /\ Cardinality({h} \cap knownMissing) = One(h \in knownMissing)
    <3>1. h \in SharedHashes <=> IsShared(h)
      BY DEF SharedHashes
    <3>. QED  BY <3>1, OnShelf DEF One
  <2>4. One(IsShared(h)) \in Nat /\ One(h \in blocked) \in Nat /\ One(h \in knownMissing) \in Nat
    BY DEF One
  <2>. QED  BY <2>1, <2>2, <2>3, <2>4 DEF Book, Numbers, Shelf
<1>4. DemandCoversOwners
  BY <1>1 DEF DemandCoversOwners, Covered, Wanted, Owners
<1>. QED  BY <1>2, <1>3, <1>4 DEF OneSourcePerHash

\* One read and one slot per hash, however preloads, loads, stores, misses
\* and cancellations of it interleave.
THEOREM OneReadPerHash == Spec => []OneSourcePerHash
<1>. QED  BY InitTypes, StepTypes, InitProv, StepProv, InitPreloads, StepPreloads, BooksBalance,
             PTL DEF Spec

\* The counters the preload budget and the shared reads rely on are exact.
THEOREM CountersAreExact == Spec => []InflightExact
<1>. QED  BY InitTypes, StepTypes, InitProv, StepProv, InitPreloads, StepPreloads, BooksBalance,
             PTL DEF Spec

\* No staged object outlives the demand for it, and no demand is undercounted.
THEOREM RetainedIsWanted == Spec => []DemandCoversOwners
<1>. QED  BY InitTypes, StepTypes, InitProv, StepProv, InitPreloads, StepPreloads, BooksBalance,
             PTL DEF Spec

\* A load parked on a preload is parked on a read that is under way, if the
\* ring refuses no submission.
THEOREM ParkedAreServed ==
  ASSUME "submit" \notin Faults
  PROVE  Spec => []WaitersServed
<1>1. TypeOK /\ Preloading => WaitersServed
  BY DEF WaitersServed, Preloading, Books, Book, Served, UnderWay, ReadsUnderWay, Entries, Times
<1>. QED  BY <1>1, InitTypes, StepTypes, InitProv, StepProv, InitPreloads, StepPreloads,
             PTL DEF Spec

-----------------------------------------------------------------------------
(***************************************************************************)
(* BUDGETS                                                                 *)
(*                                                                         *)
(* Why the reactor never has more opens, descriptors, reads and writes in  *)
(* flight than open_lookahead and iodepth allow: its two counters equal    *)
(* the sizes of the tables they stand for, on every error path, because no *)
(* entry is put where one like it already is.                              *)
(***************************************************************************)

(* The inductive invariant.                                                 *)

Sizes ==
  /\ IsFiniteSet(opens) /\ IsFiniteSet(preOpens) /\ IsFiniteSet(readyLoad)
  /\ IsFiniteSet(reads) /\ IsFiniteSet(preReads) /\ IsFiniteSet(storeOps)

OpensExact == openInflight = Cardinality(opens) + Cardinality(preOpens)
DataExact  == dataInflight = Cardinality(reads) + Cardinality(preReads) + Cardinality(storeOps)
OpensFit   == openInflight + Cardinality(readyLoad) + Len(preReady) <= OpenLookahead
DataFit    == dataInflight <= IoDepth

OpenBudget == OpensExact /\ OpensFit
DataBudget == DataExact /\ DataFit
Budgets    == Alive => Sizes /\ OpenBudget /\ DataBudget

-----------------------------------------------------------------------------
(* Sizes.                                                                   *)

LEMMA OneMore ==
  ASSUME NEW T, IsFiniteSet(T), NEW x, x \notin T, NEW U, U = T \cup {x}
  PROVE  IsFiniteSet(U) /\ Cardinality(U) = Cardinality(T) + 1
BY FS_AddElement

LEMMA OneLess ==
  ASSUME NEW T, IsFiniteSet(T), NEW x \in T, NEW U, U = T \ {x}
  PROVE  IsFiniteSet(U) /\ Cardinality(U) = Cardinality(T) - 1
BY FS_RemoveElement

\* The counters as integers.
Counts ==
  /\ openInflight \in Int /\ dataInflight \in Int /\ Len(preReady) \in Nat
  /\ OpenLookahead \in Nat /\ IoDepth \in Nat
  /\ Cardinality(opens) \in Nat /\ Cardinality(preOpens) \in Nat
  /\ Cardinality(readyLoad) \in Nat /\ Cardinality(reads) \in Nat
  /\ Cardinality(preReads) \in Nat /\ Cardinality(storeOps) \in Nat

LEMMA CountsType ==
  ASSUME TypeOK, Sizes
  PROVE  Counts
BY SizeAssumption, FS_CardinalityType DEF Counts, TypeOK, LoadTypes, PreloadTypes, Sizes

LEMMA OpenBudgetKept ==
  ASSUME OpenBudget, UNCHANGED <<opens, preOpens, readyLoad, preReady, openInflight>>
  PROVE  OpenBudget'
BY DEF OpenBudget, OpensExact, OpensFit

LEMMA DataBudgetKept ==
  ASSUME DataBudget, UNCHANGED <<reads, preReads, storeOps, dataInflight>>
  PROVE  DataBudget'
BY DEF DataBudget, DataExact, DataFit

LEMMA BudgetsKept ==
  ASSUME Budgets, Alive' => Alive,
         UNCHANGED <<opens, preOpens, readyLoad, preReady, openInflight,
                     reads, preReads, storeOps, dataInflight>>
  PROVE  Budgets'
BY OpenBudgetKept, DataBudgetKept DEF Budgets, Sizes

\* No entry of its kind is in the table an entry is put in.
LEMMA Fresh ==
  ASSUME Tables, NEW f
  PROVE  /\ f \notin live => /\ f \notin readyLoad
                             /\ \A o \in opens : o.file # f
                             /\ \A r \in reads : r.file # f
                             /\ \A op \in storeOps : op.file # f
         /\ f \in readyLoad => (\A r \in reads : r.file # f) /\ \A o \in opens : o.file # f
BY DEF Tables, Seated, Opening, Reading, Writing, FilesIn

LEMMA FreshPreload ==
  ASSUME TypeOK, Total, Books, NEW h \in Hashes
  PROVE  /\ preInflight[h] = 0 => \A o \in preOpens : o.hash # h
         /\ preReady # <<>> /\ Head(preReady) = h => \A r \in preReads : r.hash # h
<1>1. Numbers(h) /\ Book(h) /\ Shelf(h) \in Nat /\ IsFiniteSet(preOpens) /\ IsFiniteSet(preReads)
  BY AreNumbers, Shelves DEF Books, Total
<1>2. ASSUME preInflight[h] = 0 PROVE \A o \in preOpens : o.hash # h
  <2>1. Entries(preOpens, h) = 0
    BY <1>1, <1>2 DEF Book, Numbers, UnderWay
  <2>. QED  BY <1>1, <2>1, EntriesType
<1>3. ASSUME preReady # <<>>, Head(preReady) = h PROVE \A r \in preReads : r.hash # h
  <2>1. Times(preReady, h) > 0
    <3>1. preReady \in Seq(Hashes) /\ Tail(preReady) \in Seq(Hashes)
      BY <1>3, HeadTailProperties DEF TypeOK, PreloadTypes
    <3>2. Times(preReady, h) = Times(Tail(preReady), h) + 1 /\ Times(Tail(preReady), h) \in Nat
      BY <1>3, <3>1, TimesTail, TimesType DEF One
    <3>. QED  BY <3>2
  <2>2. Entries(preReads, h) = 0
    BY <1>1, <2>1 DEF Book, Numbers, UnderWay
  <2>. QED  BY <1>1, <2>2, EntriesType
<1>. QED  BY <1>2, <1>3

-----------------------------------------------------------------------------
(* Steps.                                                                   *)

\* An open for a load starts, ends in a descriptor, or ends in nothing.
LEMMA LoadOpenSteps ==
  ASSUME TypeOK, Sizes, OpenBudget, UNCHANGED <<preOpens, preReady>>
  PROVE  /\ \A x : /\ x \notin opens /\ opens' = opens \cup {x} /\ UNCHANGED readyLoad
                   /\ CanOpen /\ openInflight' = openInflight + 1
                   => OpenBudget' /\ IsFiniteSet(opens')
         /\ \A x \in opens : /\ opens' = opens \ {x} /\ openInflight' = openInflight - 1
                             /\ \/ UNCHANGED readyLoad
                                \/ /\ x.file \notin readyLoad
                                   /\ readyLoad' = readyLoad \cup {x.file}
                   => OpenBudget' /\ IsFiniteSet(opens') /\ IsFiniteSet(readyLoad')
         /\ \A f \in readyLoad : readyLoad' = readyLoad \ {f} /\ UNCHANGED <<opens, openInflight>>
                   => OpenBudget' /\ IsFiniteSet(readyLoad')
<1>4. Counts
  BY CountsType
<1>1. ASSUME NEW x, x \notin opens, opens' = opens \cup {x}, UNCHANGED readyLoad, CanOpen,
             openInflight' = openInflight + 1
      PROVE  OpenBudget' /\ IsFiniteSet(opens')
  <2>1. IsFiniteSet(opens') /\ Cardinality(opens') = Cardinality(opens) + 1
    BY <1>1, OneMore DEF Sizes
  <2>8. OpensExact'
    BY <1>1, <2>1, <1>4 DEF Counts, OpenBudget, OpensExact
  <2>9. OpensFit'
    BY <1>1, <2>1, <1>4, SMTT(30) DEF Counts, OpenBudget, OpensFit, CanOpen
  <2>. QED  BY <1>1, <2>1, <1>4, <2>8, <2>9 DEF OpenBudget
<1>2. ASSUME NEW x \in opens, opens' = opens \ {x}, openInflight' = openInflight - 1,
             \/ UNCHANGED readyLoad
             \/ x.file \notin readyLoad /\ readyLoad' = readyLoad \cup {x.file}
      PROVE  OpenBudget' /\ IsFiniteSet(opens') /\ IsFiniteSet(readyLoad')
  <2>1. IsFiniteSet(opens') /\ Cardinality(opens') = Cardinality(opens) - 1
    BY <1>2, OneLess DEF Sizes
  <2>2. /\ IsFiniteSet(readyLoad')
        /\ \/ Cardinality(readyLoad') = Cardinality(readyLoad)
           \/ Cardinality(readyLoad') = Cardinality(readyLoad) + 1
    <3>1. CASE UNCHANGED readyLoad
      BY <3>1 DEF Sizes
    <3>2. CASE x.file \notin readyLoad /\ readyLoad' = readyLoad \cup {x.file}
      BY <3>2, OneMore DEF Sizes
    <3>. QED  BY <1>2, <3>1, <3>2
  <2>8. OpensExact'
    BY <1>2, <2>1, <1>4 DEF Counts, OpenBudget, OpensExact
  <2>9. OpensFit'
    BY <1>2, <2>2, <1>4, SMTT(30) DEF Counts, OpenBudget, OpensFit
  <2>. QED  BY <2>1, <2>2, <2>8, <2>9 DEF OpenBudget
<1>3. ASSUME NEW f \in readyLoad, readyLoad' = readyLoad \ {f}, UNCHANGED <<opens, openInflight>>
      PROVE  OpenBudget' /\ IsFiniteSet(readyLoad')
  <2>1. IsFiniteSet(readyLoad') /\ Cardinality(readyLoad') = Cardinality(readyLoad) - 1
    BY <1>3, OneLess DEF Sizes
  <2>8. OpensExact'
    BY <1>3, <2>1, <1>4 DEF Counts, OpenBudget, OpensExact
  <2>9. OpensFit'
    BY <1>3, <2>1, <1>4, SMTT(30) DEF Counts, OpenBudget, OpensFit
  <2>. QED  BY <1>3, <2>1, <1>4, <2>8, <2>9 DEF OpenBudget
<1>. QED  BY <1>1, <1>2, <1>3 DEF Sizes

\* The same for a preload.
LEMMA PreOpenSteps ==
  ASSUME TypeOK, Sizes, OpenBudget, UNCHANGED <<opens, readyLoad>>
  PROVE  /\ \A x : /\ x \notin preOpens /\ preOpens' = preOpens \cup {x} /\ UNCHANGED preReady
                   /\ CanOpen /\ openInflight' = openInflight + 1
                   => OpenBudget' /\ IsFiniteSet(preOpens')
         /\ \A x \in preOpens : /\ preOpens' = preOpens \ {x} /\ openInflight' = openInflight - 1
                                /\ UNCHANGED preReady \/ preReady' = Append(preReady, x.hash)
                   => OpenBudget' /\ IsFiniteSet(preOpens')
         /\ preReady # <<>> /\ preReady' = Tail(preReady) /\ UNCHANGED <<preOpens, openInflight>>
                   => OpenBudget'
<1>4. Counts
  BY CountsType
<1>0. preReady \in Seq(Hashes)
  BY DEF TypeOK, PreloadTypes
<1>1. ASSUME NEW x, x \notin preOpens, preOpens' = preOpens \cup {x}, UNCHANGED preReady, CanOpen,
             openInflight' = openInflight + 1
      PROVE  OpenBudget' /\ IsFiniteSet(preOpens')
  <2>1. IsFiniteSet(preOpens') /\ Cardinality(preOpens') = Cardinality(preOpens) + 1
    BY <1>1, OneMore DEF Sizes
  <2>8. OpensExact'
    BY <1>1, <2>1, <1>4 DEF Counts, OpenBudget, OpensExact
  <2>9. OpensFit'
    BY <1>1, <2>1, <1>4, SMTT(30) DEF Counts, OpenBudget, OpensFit, CanOpen
  <2>. QED  BY <1>1, <2>1, <1>4, <2>8, <2>9 DEF OpenBudget
<1>2. ASSUME NEW x \in preOpens, preOpens' = preOpens \ {x}, openInflight' = openInflight - 1,
             UNCHANGED preReady \/ preReady' = Append(preReady, x.hash)
      PROVE  OpenBudget' /\ IsFiniteSet(preOpens')
  <2>1. IsFiniteSet(preOpens') /\ Cardinality(preOpens') = Cardinality(preOpens) - 1
    BY <1>2, OneLess DEF Sizes
  <2>2. x.hash \in Hashes
    BY DEF TypeOK, PreloadTypes, PreOpen
  <2>3. Len(preReady') = Len(preReady) \/ Len(preReady') = Len(preReady) + 1
    BY <1>0, <1>2, <2>2, AppendProperties
  <2>8. OpensExact'
    BY <1>2, <2>1, <2>3, <1>4 DEF Counts, OpenBudget, OpensExact
  <2>9. OpensFit'
    BY <1>2, <2>1, <2>3, <1>4, SMTT(30) DEF Counts, OpenBudget, OpensFit
  <2>. QED  BY <1>2, <2>1, <2>3, <1>4, <2>8, <2>9 DEF OpenBudget
<1>3. ASSUME preReady # <<>>, preReady' = Tail(preReady), UNCHANGED <<preOpens, openInflight>>
      PROVE  OpenBudget'
  <2>1. Len(preReady') = Len(preReady) - 1
    BY <1>0, <1>3, HeadTailProperties
  <2>8. OpensExact'
    BY <1>3, <2>1, <1>4 DEF Counts, OpenBudget, OpensExact
  <2>9. OpensFit'
    BY <1>3, <2>1, <1>4, SMTT(30) DEF Counts, OpenBudget, OpensFit
  <2>. QED  BY <1>3, <2>1, <1>4, <2>8, <2>9 DEF OpenBudget
<1>. QED  BY <1>1, <1>2, <1>3

\* A read or write starts where the budget has room, or ends.
LEMMA DataSteps ==
  ASSUME TypeOK, Sizes, DataBudget
  PROVE  /\ \A x : /\ x \notin reads /\ reads' = reads \cup {x} /\ UNCHANGED <<preReads, storeOps>>
                   /\ dataInflight < IoDepth /\ dataInflight' = dataInflight + 1
                   => DataBudget' /\ IsFiniteSet(reads')
         /\ \A x : /\ x \notin preReads /\ preReads' = preReads \cup {x}
                   /\ UNCHANGED <<reads, storeOps>>
                   /\ dataInflight < IoDepth /\ dataInflight' = dataInflight + 1
                   => DataBudget' /\ IsFiniteSet(preReads')
         /\ \A x : /\ x \notin storeOps /\ storeOps' = storeOps \cup {x}
                   /\ UNCHANGED <<reads, preReads>>
                   /\ dataInflight < IoDepth /\ dataInflight' = dataInflight + 1
                   => DataBudget' /\ IsFiniteSet(storeOps')
<1>4. Counts
  BY CountsType
<1>. USE DEF Sizes
<1>1. ASSUME NEW x, x \notin reads, reads' = reads \cup {x}, UNCHANGED <<preReads, storeOps>>,
             dataInflight < IoDepth, dataInflight' = dataInflight + 1
      PROVE  DataBudget' /\ IsFiniteSet(reads')
  <2>1. IsFiniteSet(reads') /\ Cardinality(reads') = Cardinality(reads) + 1
    BY <1>1, OneMore
  <2>2. DataExact'
    BY <1>1, <2>1, <1>4, SMTT(30) DEF Counts, DataBudget, DataExact
  <2>3. DataFit'
    BY <1>1, <1>4 DEF Counts, DataBudget, DataFit
  <2>. QED  BY <2>1, <2>2, <2>3 DEF DataBudget
<1>2. ASSUME NEW x, x \notin preReads, preReads' = preReads \cup {x}, UNCHANGED <<reads, storeOps>>,
             dataInflight < IoDepth, dataInflight' = dataInflight + 1
      PROVE  DataBudget' /\ IsFiniteSet(preReads')
  <2>1. IsFiniteSet(preReads') /\ Cardinality(preReads') = Cardinality(preReads) + 1
    BY <1>2, OneMore
  <2>2. DataExact'
    BY <1>2, <2>1, <1>4, SMTT(30) DEF Counts, DataBudget, DataExact
  <2>3. DataFit'
    BY <1>2, <1>4 DEF Counts, DataBudget, DataFit
  <2>. QED  BY <2>1, <2>2, <2>3 DEF DataBudget
<1>3. ASSUME NEW x, x \notin storeOps, storeOps' = storeOps \cup {x}, UNCHANGED <<reads, preReads>>,
             dataInflight < IoDepth, dataInflight' = dataInflight + 1
      PROVE  DataBudget' /\ IsFiniteSet(storeOps')
  <2>1. IsFiniteSet(storeOps') /\ Cardinality(storeOps') = Cardinality(storeOps) + 1
    BY <1>3, OneMore
  <2>2. DataExact'
    BY <1>3, <2>1, <1>4, SMTT(30) DEF Counts, DataBudget, DataExact
  <2>3. DataFit'
    BY <1>3, <1>4 DEF Counts, DataBudget, DataFit
  <2>. QED  BY <2>1, <2>2, <2>3 DEF DataBudget
<1>. QED  BY <1>1, <1>2, <1>3

LEMMA DataEnds ==
  ASSUME TypeOK, Sizes, DataBudget, dataInflight' = dataInflight - 1
  PROVE  /\ \A x \in reads : reads' = reads \ {x} /\ UNCHANGED <<preReads, storeOps>>
                   => DataBudget' /\ IsFiniteSet(reads')
         /\ \A x \in preReads : preReads' = preReads \ {x} /\ UNCHANGED <<reads, storeOps>>
                   => DataBudget' /\ IsFiniteSet(preReads')
         /\ \A x \in storeOps : storeOps' = storeOps \ {x} /\ UNCHANGED <<reads, preReads>>
                   => DataBudget' /\ IsFiniteSet(storeOps')
<1>4. Counts
  BY CountsType
<1>. USE DEF Sizes
<1>1. ASSUME NEW x \in reads, reads' = reads \ {x}, UNCHANGED <<preReads, storeOps>>
      PROVE  DataBudget' /\ IsFiniteSet(reads')
  <2>1. IsFiniteSet(reads') /\ Cardinality(reads') = Cardinality(reads) - 1
    BY <1>1, OneLess
  <2>2. DataExact'
    BY <1>1, <2>1, <1>4, SMTT(30) DEF Counts, DataBudget, DataExact
  <2>3. DataFit'
    BY <1>1, <1>4 DEF Counts, DataBudget, DataFit
  <2>. QED  BY <2>1, <2>2, <2>3 DEF DataBudget
<1>2. ASSUME NEW x \in preReads, preReads' = preReads \ {x}, UNCHANGED <<reads, storeOps>>
      PROVE  DataBudget' /\ IsFiniteSet(preReads')
  <2>1. IsFiniteSet(preReads') /\ Cardinality(preReads') = Cardinality(preReads) - 1
    BY <1>2, OneLess
  <2>2. DataExact'
    BY <1>2, <2>1, <1>4, SMTT(30) DEF Counts, DataBudget, DataExact
  <2>3. DataFit'
    BY <1>2, <1>4 DEF Counts, DataBudget, DataFit
  <2>. QED  BY <2>1, <2>2, <2>3 DEF DataBudget
<1>3. ASSUME NEW x \in storeOps, storeOps' = storeOps \ {x}, UNCHANGED <<reads, preReads>>
      PROVE  DataBudget' /\ IsFiniteSet(storeOps')
  <2>1. IsFiniteSet(storeOps') /\ Cardinality(storeOps') = Cardinality(storeOps) - 1
    BY <1>3, OneLess
  <2>2. DataExact'
    BY <1>3, <2>1, <1>4, SMTT(30) DEF Counts, DataBudget, DataExact
  <2>3. DataFit'
    BY <1>3, <1>4 DEF Counts, DataBudget, DataFit
  <2>. QED  BY <2>1, <2>2, <2>3 DEF DataBudget
<1>. QED  BY <1>1, <1>2, <1>3

-----------------------------------------------------------------------------
(* The invariant.                                                           *)

\* The facts of the other invariants a step relies on.
Known == TypeOK /\ Budgets /\ Tables /\ Total /\ Books /\ Sizes /\ OpenBudget /\ DataBudget

LEMMA AllKnown == TypeOK /\ Accounts /\ Preloading /\ Budgets /\ Alive => Known
BY DEF Known, Accounts, Preloading, Budgets

LEMMA BudgetsAgain ==
  ASSUME Sizes', OpenBudget', DataBudget'
  PROVE  Budgets'
BY DEF Budgets

LEMMA InitBudgets == Init => Budgets
BY SizeAssumption, FS_EmptySet DEF Init, Budgets, Sizes, OpenBudget, DataBudget, OpensExact,
   OpensFit, DataExact, DataFit

LEMMA CudaBudgets ==
  ASSUME Known,
         \/ \E b \in batches : BatchDone(b)
         \/ \E w \in settling : Settle(w)
         \/ \E op \in storeOps : OnStoreCopyDone(op) \/ OnStoreCopyFailed(op)
  PROVE  Budgets'
<1>. USE DEF Known
<1>1. ASSUME NEW b \in batches, BatchDone(b) PROVE Budgets'
  BY <1>1, BudgetsKept DEF BatchDone, At, Alive
<1>2. ASSUME NEW w \in settling, Settle(w) PROVE Budgets'
  BY <1>2, BudgetsKept DEF Settle, Alive
<1>3. ASSUME NEW op \in storeOps, OnStoreCopyDone(op) PROVE Budgets'
  <2>. DEFINE x == [op EXCEPT !.stage = "write"]
              R == storeOps \ {op}
  <2>1. x.file = op.file
    BY DEF TypeOK, TransferTypes, StoreOp
  <2>2. IsFiniteSet(R) /\ Cardinality(R) = Cardinality(storeOps) - 1
    BY OneLess DEF Sizes
  <2>3. x \notin R
    BY <2>1 DEF Tables, Distinct
  <2>4. storeOps' = R \cup {x}
    BY <1>3 DEF OnStoreCopyDone
  <2>. HIDE DEF R, x
  <2>5. IsFiniteSet(storeOps') /\ Cardinality(storeOps') = Cardinality(R) + 1
    BY <2>2, <2>3, <2>4, OneMore
  <2>6. Cardinality(storeOps') = Cardinality(storeOps)
    BY <2>2, <2>5, CountsType DEF Counts
  <2>7. DataBudget'
    BY <1>3, <2>6 DEF OnStoreCopyDone, DataBudget, DataExact, DataFit
  <2>8. OpenBudget' /\ Sizes'
    BY <1>3, <2>5, OpenBudgetKept DEF OnStoreCopyDone, Sizes
  <2>. QED  BY <2>7, <2>8, BudgetsAgain
<1>4. ASSUME NEW op \in storeOps, OnStoreCopyFailed(op) PROVE Budgets'
  <2>1. DataBudget' /\ IsFiniteSet(storeOps')
    BY <1>4, DataEnds DEF OnStoreCopyFailed, StoreFileFails
  <2>2. OpenBudget' /\ Sizes'
    BY <1>4, <2>1, OpenBudgetKept DEF OnStoreCopyFailed, Sizes
  <2>. QED  BY <2>1, <2>2, BudgetsAgain
<1>. QED  BY <1>1, <1>2, <1>3, <1>4

LEMMA PollBudgets ==
  ASSUME Known,
         \/ \E op \in storeOps : OnWriteComplete(op) \/ OnWriteFails(op)
         \/ \E o \in opens : OnOpenComplete(o) \/ OnOpenMiss(o)
         \/ \E o \in preOpens : OnPreOpenComplete(o) \/ OnPreOpenMiss(o)
         \/ \E r \in reads : OnReadComplete(r) \/ OnReadFails(r)
         \/ \E r \in preReads : OnSharedReadComplete(r) \/ OnSharedReadFails(r)
  PROVE  Budgets'
<1>. USE DEF Known
<1>1. ASSUME NEW op \in storeOps, OnWriteComplete(op) \/ OnWriteFails(op) PROVE Budgets'
  <2>1. DataBudget' /\ IsFiniteSet(storeOps')
    BY <1>1, DataEnds DEF OnWriteComplete, OnWriteFails, StoreFileFails
  <2>2. OpenBudget' /\ Sizes'
    BY <1>1, <2>1, OpenBudgetKept DEF OnWriteComplete, OnWriteFails, Sizes
  <2>. QED  BY <2>1, <2>2, BudgetsAgain
<1>2. ASSUME NEW o \in opens, OnOpenComplete(o) \/ OnOpenMiss(o) PROVE Budgets'
  <2>0. o.file \notin readyLoad
    BY DEF Tables, Seated, Opening, FilesIn
  <2>1. OpenBudget' /\ IsFiniteSet(opens') /\ IsFiniteSet(readyLoad')
    BY <1>2, <2>0, LoadOpenSteps DEF OnOpenComplete, OnOpenMiss
  <2>2. DataBudget' /\ Sizes'
    BY <1>2, <2>1, DataBudgetKept DEF OnOpenComplete, OnOpenMiss, Sizes
  <2>. QED  BY <2>1, <2>2, BudgetsAgain
<1>3. ASSUME NEW o \in preOpens, OnPreOpenComplete(o) \/ OnPreOpenMiss(o) PROVE Budgets'
  <2>1. OpenBudget' /\ IsFiniteSet(preOpens')
    BY <1>3, PreOpenSteps DEF OnPreOpenComplete, OnPreOpenMiss
  <2>2. DataBudget' /\ Sizes'
    BY <1>3, <2>1, DataBudgetKept DEF OnPreOpenComplete, OnPreOpenMiss, Sizes
  <2>. QED  BY <2>1, <2>2, BudgetsAgain
<1>4. ASSUME NEW r \in reads, OnReadComplete(r) \/ OnReadFails(r) PROVE Budgets'
  <2>1. DataBudget' /\ IsFiniteSet(reads')
    BY <1>4, DataEnds DEF OnReadComplete, OnReadFails
  <2>2. OpenBudget' /\ Sizes'
    BY <1>4, <2>1, OpenBudgetKept DEF OnReadComplete, OnReadFails, Sizes
  <2>. QED  BY <2>1, <2>2, BudgetsAgain
<1>5. ASSUME NEW r \in preReads, OnSharedReadComplete(r) \/ OnSharedReadFails(r) PROVE Budgets'
  <2>1. DataBudget' /\ IsFiniteSet(preReads')
    BY <1>5, DataEnds DEF OnSharedReadComplete, OnSharedReadFails
  <2>2. OpenBudget' /\ Sizes'
    BY <1>5, <2>1, OpenBudgetKept DEF OnSharedReadComplete, OnSharedReadFails, Sizes
  <2>. QED  BY <2>1, <2>2, BudgetsAgain
<1>. QED  BY <1>1, <1>2, <1>3, <1>4, <1>5

LEMMA ReadyBudgets ==
  ASSUME Known, NEW f \in readyLoad, NEW s \in Slots, SubmitRead(f, s) \/ SubmitReadRefused(f, s)
  PROVE  Budgets'
<1>. USE DEF Known
<1>1. OpenBudget' /\ IsFiniteSet(readyLoad')
  BY LoadOpenSteps DEF SubmitRead, SubmitReadRefused
<1>2. DataBudget' /\ IsFiniteSet(reads')
  <2>1. CASE SubmitRead(f, s)
    <3>. DEFINE x == [file |-> f, slot |-> s]
    <3>1. x \notin reads
      BY Fresh
    <3>2. /\ reads' = reads \cup {x} /\ UNCHANGED <<preReads, storeOps>>
          /\ dataInflight < IoDepth /\ dataInflight' = dataInflight + 1
      BY <2>1 DEF SubmitRead
    <3>. HIDE DEF x
    <3>. QED  BY <3>1, <3>2, DataSteps
  <2>2. CASE SubmitReadRefused(f, s)
    BY <2>2, DataBudgetKept DEF SubmitReadRefused, Sizes
  <2>. QED  BY <2>1, <2>2
<1>3. Sizes'
  BY <1>1, <1>2 DEF SubmitRead, SubmitReadRefused, Sizes
<1>. QED  BY <1>1, <1>2, <1>3, BudgetsAgain

\* An open of a preload starts, or is refused.
LEMMA PreloadOpens ==
  ASSUME Known, NEW h \in Hashes, SubmitOpenPreload(h), preInflight[h] = 0, CanOpen,
         UNCHANGED <<opens, readyLoad, preReady, reads, preReads, storeOps, dataInflight>>
  PROVE  Budgets'
<1>. USE DEF Known
<1>. DEFINE x == [hash |-> h, had |-> h \in stored]
<1>1. x \notin preOpens
  BY FreshPreload
<1>2. \/ preOpens' = preOpens \cup {x} /\ openInflight' = openInflight + 1
      \/ UNCHANGED <<preOpens, openInflight>>
  BY DEF SubmitOpenPreload
<1>. HIDE DEF x
<1>3. OpenBudget' /\ IsFiniteSet(preOpens')
  <2>1. CASE preOpens' = preOpens \cup {x} /\ openInflight' = openInflight + 1
    BY <1>1, <2>1, PreOpenSteps
  <2>2. CASE UNCHANGED <<preOpens, openInflight>>
    BY <2>2, OpenBudgetKept DEF Sizes
  <2>. QED  BY <1>2, <2>1, <2>2
<1>4. DataBudget' /\ Sizes'
  BY <1>3, DataBudgetKept DEF Sizes
<1>. QED  BY <1>3, <1>4, BudgetsAgain

LEMMA LoadScheduleBudgets ==
  ASSUME Known, Ledger, NEW k \in 1..Len(order),
         \/ ScheduleCacheHit(k) \/ SharedClaimFromCache(k) \/ SharedClaimFails(k)
         \/ SchedulePreloadInflight(k) \/ PromotePendingToSharedRead(k)
         \/ SubmitOpenRead(k)
  PROVE  Budgets'
<1>. USE DEF Known
<1>1. CASE \/ ScheduleCacheHit(k) \/ SharedClaimFromCache(k) \/ SharedClaimFails(k)
           \/ SchedulePreloadInflight(k)
  BY <1>1, BudgetsKept DEF ScheduleCacheHit, SharedClaimFromCache, SharedClaimFails,
     SchedulePreloadInflight, LoadAt, At, Alive
<1>2. CASE PromotePendingToSharedRead(k) \/ SubmitOpenRead(k)
  <2>1. PICK f \in Files, h \in Hashes : f = NextFile(order[k]) /\ h = H(f) /\ f \notin live
    BY <1>2, TurnFile, TurnNew DEF PromotePendingToSharedRead, SubmitOpenRead
  <2>2. preInflight[h] = 0 /\ CanOpen
    BY <1>2, <2>1 DEF PromotePendingToSharedRead, SubmitOpenRead, LoadAt, CanLoad, HasCopy, NoCopyAt,
       Resident, TypeOK, PoolTypes
  <2>3. CASE PromotePendingToSharedRead(k)
    BY <2>1, <2>2, <2>3, PreloadOpens DEF PromotePendingToSharedRead
  <2>4. CASE SubmitOpenRead(k)
    <3>. DEFINE x == [file |-> f, hash |-> h, had |-> h \in stored]
    <3>1. x \notin opens
      BY <2>1, Fresh
    <3>2. /\ UNCHANGED <<preOpens, preReady, readyLoad, reads, preReads, storeOps, dataInflight>>
          /\ \/ opens' = opens \cup {x} /\ openInflight' = openInflight + 1
             \/ UNCHANGED <<opens, openInflight>>
      BY <2>1, <2>4 DEF SubmitOpenRead
    <3>. HIDE DEF x
    <3>3. OpenBudget' /\ IsFiniteSet(opens')
      <4>1. CASE opens' = opens \cup {x} /\ openInflight' = openInflight + 1
        BY <2>2, <3>1, <3>2, <4>1, LoadOpenSteps
      <4>2. CASE UNCHANGED <<opens, openInflight>>
        BY <3>2, <4>2, OpenBudgetKept DEF Sizes
      <4>. QED  BY <3>2, <4>1, <4>2
    <3>4. DataBudget' /\ Sizes'
      BY <3>2, <3>3, DataBudgetKept DEF Sizes
    <3>. QED  BY <3>3, <3>4, BudgetsAgain
  <2>. QED  BY <1>2, <2>3, <2>4
<1>. QED  BY <1>1, <1>2

LEMMA StoreScheduleBudgets ==
  ASSUME Known, Ledger, NEW k \in 1..Len(order), NEW s \in Slots,
         ScheduleStoreCopy(k, s) \/ ScheduleStoreCopyFails(k, s)
  PROVE  Budgets'
<1>. USE DEF Known
<1>1. CASE ScheduleStoreCopyFails(k, s)
  BY <1>1, BudgetsKept DEF ScheduleStoreCopyFails, StoreAt, At, Alive
<1>2. CASE ScheduleStoreCopy(k, s)
  <2>1. PICK f \in Files : f = NextFile(order[k]) /\ f \notin live
    BY <1>2, TurnFile, TurnNew DEF ScheduleStoreCopy
  <2>. DEFINE x == [file |-> f, slot |-> s, stage |-> "copy"]
  <2>2. x \notin storeOps
    BY <2>1, Fresh
  <2>3. /\ storeOps' = storeOps \cup {x} /\ dataInflight < IoDepth
        /\ dataInflight' = dataInflight + 1
        /\ UNCHANGED <<opens, readyLoad, preOpens, preReady, openInflight, reads, preReads>>
    BY <1>2, <2>1 DEF ScheduleStoreCopy, StoreAt, CanStore
  <2>. HIDE DEF x
  <2>4. DataBudget' /\ IsFiniteSet(storeOps')
    BY <2>2, <2>3, DataSteps
  <2>5. OpenBudget' /\ Sizes'
    BY <2>3, <2>4, OpenBudgetKept DEF Sizes
  <2>. QED  BY <2>4, <2>5, BudgetsAgain
<1>. QED  BY <1>1, <1>2

LEMMA SpeculativeBudgets ==
  ASSUME Known,
         \/ \E s \in Slots : SubmitPreloadRead(s) \/ SubmitPreloadReadRefused(s)
         \/ YieldOpenFd \/ DropCancelled \/ DeferOnWrite \/ OpenSpeculative
  PROVE  Budgets'
<1>. USE DEF Known
<1>1. ASSUME NEW s \in Slots, SubmitPreloadRead(s) PROVE Budgets'
  <2>1. preReady \in Seq(Hashes) /\ preReady # <<>> /\ preReady' = Tail(preReady)
    BY <1>1 DEF SubmitPreloadRead, ReadHead, TypeOK, PreloadTypes
  <2>2. PICK h \in Hashes : h = Head(preReady)
    BY <2>1, HeadTailProperties
  <2>. DEFINE x == [hash |-> h, slot |-> s]
  <2>3. x \notin preReads
    BY <2>1, <2>2, FreshPreload
  <2>4. /\ preReads' = preReads \cup {x} /\ dataInflight < IoDepth
        /\ dataInflight' = dataInflight + 1
        /\ UNCHANGED <<opens, readyLoad, preOpens, openInflight, reads, storeOps>>
    BY <1>1, <2>2 DEF SubmitPreloadRead, ReadHead
  <2>. HIDE DEF x
  <2>5. DataBudget' /\ IsFiniteSet(preReads')
    BY <2>3, <2>4, DataSteps
  <2>6. OpenBudget'
    BY <2>1, <2>4, PreOpenSteps
  <2>7. Sizes'
    BY <2>4, <2>5 DEF Sizes
  <2>. QED  BY <2>5, <2>6, <2>7, BudgetsAgain
<1>2. ASSUME NEW s \in Slots, SubmitPreloadReadRefused(s) PROVE Budgets'
  <2>1. OpenBudget'
    BY <1>2, PreOpenSteps DEF SubmitPreloadReadRefused, ReadHead
  <2>2. DataBudget' /\ Sizes'
    BY <1>2, DataBudgetKept DEF SubmitPreloadReadRefused, Sizes
  <2>. QED  BY <2>1, <2>2, BudgetsAgain
<1>3. CASE YieldOpenFd
  <2>1. OpenBudget'
    BY <1>3, PreOpenSteps DEF YieldOpenFd
  <2>2. DataBudget' /\ Sizes'
    BY <1>3, DataBudgetKept DEF YieldOpenFd, Sizes
  <2>. QED  BY <2>1, <2>2, BudgetsAgain
<1>4. CASE DropCancelled \/ DeferOnWrite
  BY <1>4, BudgetsKept DEF DropCancelled, DeferOnWrite, At, Alive
<1>5. CASE OpenSpeculative
  <2>1. pending \in Seq(Hashes) /\ pending # <<>> /\ CanOpen /\ ~HeadCancelled
    BY <1>5 DEF OpenSpeculative, CanSpeculate, TypeOK, QueueTypes
  <2>2. PICK h \in Hashes : h = Head(pending)
    BY <2>1, HeadTailProperties
  <2>3. preInflight[h] = 0
    <3>1. Times(pending, h) > 0
      <4>1. Tail(pending) \in Seq(Hashes)
        BY <2>1, HeadTailProperties
      <4>2. Times(pending, h) = Times(Tail(pending), h) + 1 /\ Times(Tail(pending), h) \in Nat
        BY <2>1, <2>2, <4>1, TimesTail, TimesType DEF One
      <4>. QED  BY <4>2
    <3>2. Numbers(h) /\ Book(h) /\ ~(cancel[h] > 0)
      BY <2>1, <2>2, AreNumbers DEF Books, HeadCancelled
    <3>. QED  BY <3>1, <3>2, BookOfQueued
  <2>. QED  BY <1>5, <2>1, <2>2, <2>3, PreloadOpens DEF OpenSpeculative
<1>. QED  BY <1>1, <1>2, <1>3, <1>4, <1>5

LEMMA WorkIsAlive == Work => Alive
<1>. SUFFICES ASSUME Work PROVE Alive
  OBVIOUS
<1>. USE DEF At
<1>1. ASSUME NEW a, PreloadHash(a) PROVE Alive
  BY <1>1 DEF PreloadHash
<1>2. ASSUME NEW f, StoreHash(f) PROVE Alive
  BY <1>2 DEF StoreHash
<1>3. ASSUME NEW w, BatchDone(w) \/ Settle(w) PROVE Alive
  BY <1>3 DEF BatchDone, Settle
<1>4. ASSUME NEW op, \/ OnStoreCopyDone(op) \/ OnStoreCopyFailed(op)
                     \/ OnWriteComplete(op) \/ OnWriteFails(op)
      PROVE  Alive
  BY <1>4 DEF OnStoreCopyDone, OnStoreCopyFailed, OnWriteComplete, OnWriteFails
<1>5. ASSUME NEW o, \/ OnOpenComplete(o) \/ OnOpenMiss(o)
                    \/ OnPreOpenComplete(o) \/ OnPreOpenMiss(o)
      PROVE  Alive
  BY <1>5 DEF OnOpenComplete, OnOpenMiss, OnPreOpenComplete, OnPreOpenMiss
<1>6. ASSUME NEW r, \/ OnReadComplete(r) \/ OnReadFails(r)
                    \/ OnSharedReadComplete(r) \/ OnSharedReadFails(r)
      PROVE  Alive
  BY <1>6 DEF OnReadComplete, OnReadFails, OnSharedReadComplete, OnSharedReadFails
<1>7. ASSUME NEW f, NEW s, SubmitRead(f, s) \/ SubmitReadRefused(f, s) PROVE Alive
  BY <1>7 DEF SubmitRead, SubmitReadRefused
<1>8. ASSUME NEW k, \/ ScheduleCacheHit(k) \/ SharedClaimFromCache(k) \/ SharedClaimFails(k)
                    \/ SchedulePreloadInflight(k) \/ PromotePendingToSharedRead(k)
                    \/ SubmitOpenRead(k)
      PROVE  Alive
  BY <1>8 DEF ScheduleCacheHit, SharedClaimFromCache, SharedClaimFails, SchedulePreloadInflight,
     PromotePendingToSharedRead, SubmitOpenRead, LoadAt
<1>9. ASSUME NEW k, NEW s, ScheduleStoreCopy(k, s) \/ ScheduleStoreCopyFails(k, s) PROVE Alive
  BY <1>9 DEF ScheduleStoreCopy, ScheduleStoreCopyFails, StoreAt
<1>10. ASSUME NEW s, SubmitPreloadRead(s) \/ SubmitPreloadReadRefused(s) PROVE Alive
  BY <1>10 DEF SubmitPreloadRead, SubmitPreloadReadRefused, ReadHead
<1>11. CASE YieldOpenFd \/ DropCancelled \/ DeferOnWrite \/ OpenSpeculative
  BY <1>11 DEF YieldOpenFd, DropCancelled, DeferOnWrite, OpenSpeculative
<1>12. CASE FlushCopyBatch \/ EndTurn \/ Exit
  BY <1>12 DEF FlushCopyBatch, EndTurn, Exit, Alive
<1>. QED  BY <1>1, <1>2, <1>3, <1>4, <1>5, <1>6, <1>7, <1>8, <1>9, <1>10, <1>11, <1>12 DEF Work

LEMMA StepBudgets ==
  TypeOK /\ Accounts /\ Preloading /\ Budgets /\ [Next]_vars => Budgets'
<1>. SUFFICES ASSUME TypeOK, Accounts, Preloading, Budgets, [Next]_vars PROVE Budgets'
  OBVIOUS
<1>0. Alive => Known /\ Ledger
  BY AllKnown DEF Accounts
<1>1. CASE Client
  BY <1>1, BudgetsKept DEF Client, AskPreload, IntakeLoad, IntakeStore, SubmitClosed, Stop,
     CanIntake, Alive
<1>2. CASE FailEverything \/ Exit
  BY <1>2 DEF FailEverything, Exit, Budgets, Alive
<1>3. CASE FlushCopyBatch \/ EndTurn \/ \E a \in asking : PreloadHash(a)
  BY <1>3, BudgetsKept DEF FlushCopyBatch, EndTurn, PreloadHash, At, Alive
<1>4. CASE \E f \in storing : StoreHash(f)
  BY <1>4, BudgetsKept DEF StoreHash, Alive
<1>5. CASE Work
  <2>1. Alive
    BY <1>5, WorkIsAlive
  <2>. QED  BY <1>0, <1>2, <1>3, <1>4, <1>5, <2>1, CudaBudgets, PollBudgets, ReadyBudgets,
               LoadScheduleBudgets, StoreScheduleBudgets, SpeculativeBudgets DEF Work
<1>6. CASE UNCHANGED vars
  BY <1>6, BudgetsKept DEF vars, Alive
<1>. QED  BY <1>1, <1>2, <1>5, <1>6 DEF Next

\* The opens and descriptors stay within open_lookahead, reads and writes
\* within iodepth, and the counters the scheduler tests are exact.
THEOREM BudgetsHold == Spec => []BudgetsExact
<1>1. Budgets => BudgetsExact
  BY DEF Budgets, BudgetsExact, OpenBudget, OpensExact, OpensFit, DataBudget, DataExact, DataFit
<1>. QED  BY <1>1, InitTypes, StepTypes, InitProv, StepProv, InitFiles, StepFiles, InitPreloads,
             StepPreloads, InitBudgets, StepBudgets, PTL DEF Spec

-----------------------------------------------------------------------------
(* The slots: what holds them.                                              *)

IoHolds ==
  {<<"read", r.file, r.slot>> : r \in reads}
    \cup {<<"preload", r.hash, r.slot>> : r \in preReads}
    \cup {<<"store", op.file, op.slot>> : op \in storeOps}
CopyHolds   == {<<"copy", m.file, m.slot>> : m \in {c \in Copying : c.src = "own"}}
CacheHolds  == {<<"cache", h, cache[h]>> : h \in Resident}
SharedHolds ==
  {<<"shared", h, sharedCached[h]>> : h \in SharedHashes}
    \cup {<<"shared", H(m.file), m.slot>> : m \in {c \in Copying : c.src = "shared"}}

\* A holder whose slot has its block, and that block.
Filled(c) == c[1] \in {"copy", "cache", "shared"}
Block(c)  == IF c[1] = "copy" THEN H(c[2]) ELSE c[2]

\* Holders A share out the slots that are not in F and find their blocks in C.
Sound(A, F, C) ==
  /\ \A c, d \in A : c[3] = d[3] => c = d
  /\ \A c \in A : c[3] \in Slots /\ c[3] \notin F
  /\ \A s \in Slots : s \in F \/ \E c \in A : c[3] = s
  /\ \A c \in A : Filled(c) => C[c[3]] = Block(c)

Sheltered == Sound(Holders, free, content)

\* A cache entry stays while a copy reads it.
Pinned == \A m \in Copying : m.src = "cache" => cache[H(m.file)] = m.slot

Pins(s) == {m \in Copying : m.slot = s /\ m.src \in {"shared", "cache"}}
Exact   == IsFiniteSet(Copying) /\ \A s \in Slots : copies[s] = Cardinality(Pins(s))

Sharing == Alive => Sheltered /\ Pinned /\ Exact

-----------------------------------------------------------------------------
(* Holders come and go.                                                     *)

LEMMA HoldersAre ==
  /\ Holders = IoHolds \cup CopyHolds \cup CacheHolds \cup SharedHolds
  /\ Holders' = IoHolds' \cup CopyHolds' \cup CacheHolds' \cup SharedHolds'
BY DEF Holders, IoHolds, CopyHolds, CacheHolds, SharedHolds

LEMMA Tagged ==
  /\ \A c \in IoHolds : c[1] \in {"read", "preload", "store"}
  /\ \A c \in CopyHolds : c[1] = "copy"
  /\ \A c \in CacheHolds : c[1] = "cache"
  /\ \A c \in SharedHolds : c[1] = "shared"
BY DEF IoHolds, CopyHolds, CacheHolds, SharedHolds

\* Holders in Out give up their slots and at most one new holder takes one: so
\* holders A, free slots F and contents C become B, G and D.
Moves(A, B, F, G, C, D, Out, In) ==
  /\ \A c \in Out : c \in A
  /\ \A c, d \in In : c = d
  /\ \A c : c \in B <=> (c \in A /\ c \notin Out) \/ c \in In
  /\ \A c \in In : c[3] \in Slots /\ (c[3] \in F \/ \E d \in Out : d[3] = c[3])
  /\ \A c \in In : Filled(c) => D[c[3]] = Block(c)
  /\ \A s \in Slots : s \in G <=> (s \in F \/ \E d \in Out : d[3] = s) /\ \A c \in In : c[3] # s
  /\ \A s \in Slots : s \in F \/ (\E d \in Out : d[3] = s) \/ D[s] = C[s]

LEMMA Exchange ==
  ASSUME NEW A, NEW B, NEW F, NEW G, NEW C, NEW D, NEW Out, NEW In,
         Sound(A, F, C), Moves(A, B, F, G, C, D, Out, In)
  PROVE  Sound(B, G, D)
<1>. USE DEF Moves
<1>1. \A c, d \in A : c[3] = d[3] => c = d
  BY DEF Sound
<1>2. \A c \in A : c[3] \in Slots /\ c[3] \notin F
  BY DEF Sound
<1>3. ASSUME NEW c \in A, c \notin Out PROVE \A d \in Out : d[3] # c[3]
  BY <1>1, <1>3
<1>4. ASSUME NEW c \in B, NEW d \in B, c[3] = d[3] PROVE c = d
  BY <1>1, <1>2, <1>3, <1>4
<1>5. ASSUME NEW c \in B PROVE c[3] \in Slots /\ c[3] \notin G
  <2>1. CASE c \in In
    BY <2>1
  <2>2. CASE c \in A /\ c \notin Out
    BY <1>2, <1>3, <2>2
  <2>. QED  BY <1>5, <2>1, <2>2
<1>6. ASSUME NEW s \in Slots, s \notin G PROVE \E c \in B : c[3] = s
  <2>1. CASE \E c \in In : c[3] = s
    BY <2>1
  <2>2. CASE s \notin F /\ \A d \in Out : d[3] # s
    <3>1. PICK c \in A : c[3] = s
      BY <2>2 DEF Sound
    <3>. QED  BY <2>2, <3>1
  <2>. QED  BY <1>6, <2>1, <2>2
<1>7. ASSUME NEW c \in B, Filled(c) PROVE D[c[3]] = Block(c)
  <2>1. CASE c \in In
    BY <1>7, <2>1
  <2>2. CASE c \in A /\ c \notin Out
    <3>1. C[c[3]] = Block(c)
      BY <1>7, <2>2 DEF Sound
    <3>2. D[c[3]] = C[c[3]]
      BY <1>2, <1>3, <2>2
    <3>. QED  BY <3>1, <3>2
  <2>. QED  BY <1>7, <2>1, <2>2
<1>. QED  BY <1>4, <1>5, <1>6, <1>7 DEF Sound

LEMMA ShelterKept ==
  ASSUME Sheltered, Holders' = Holders, UNCHANGED <<free, content>>
  PROVE  Sheltered'
BY DEF Sheltered

\* A read, preload read or store file leaves its table.
LEMMA IoLeaves ==
  ASSUME TypeOK, Tables
  PROVE  /\ \A r \in reads : reads' = reads \ {r} /\ UNCHANGED <<preReads, storeOps>>
                => IoHolds' = IoHolds \ {<<"read", r.file, r.slot>>}
         /\ \A r \in preReads : preReads' = preReads \ {r} /\ UNCHANGED <<reads, storeOps>>
                => IoHolds' = IoHolds \ {<<"preload", r.hash, r.slot>>}
         /\ \A op \in storeOps : storeOps' = storeOps \ {op} /\ UNCHANGED <<reads, preReads>>
                => IoHolds' = IoHolds \ {<<"store", op.file, op.slot>>}
<1>0. /\ \A x, y \in reads : x.file = y.file /\ x.slot = y.slot => x = y
      /\ \A x, y \in preReads : x.hash = y.hash /\ x.slot = y.slot => x = y
      /\ \A x, y \in storeOps : x.file = y.file => x = y
  BY DEF TypeOK, LoadTypes, PreloadTypes, FileRead, PreRead, Tables, Distinct
<1>1. ASSUME NEW r \in reads, reads' = reads \ {r}, UNCHANGED <<preReads, storeOps>>
      PROVE  IoHolds' = IoHolds \ {<<"read", r.file, r.slot>>}
  <2>1. \A c : c \in IoHolds' <=> c \in IoHolds \ {<<"read", r.file, r.slot>>}
    BY <1>0, <1>1 DEF IoHolds
  <2>. QED  BY <2>1
<1>2. ASSUME NEW r \in preReads, preReads' = preReads \ {r}, UNCHANGED <<reads, storeOps>>
      PROVE  IoHolds' = IoHolds \ {<<"preload", r.hash, r.slot>>}
  <2>1. \A c : c \in IoHolds' <=> c \in IoHolds \ {<<"preload", r.hash, r.slot>>}
    BY <1>0, <1>2 DEF IoHolds
  <2>. QED  BY <2>1
<1>3. ASSUME NEW op \in storeOps, storeOps' = storeOps \ {op}, UNCHANGED <<reads, preReads>>
      PROVE  IoHolds' = IoHolds \ {<<"store", op.file, op.slot>>}
  <2>1. \A c : c \in IoHolds' <=> c \in IoHolds \ {<<"store", op.file, op.slot>>}
    BY <1>0, <1>3 DEF IoHolds
  <2>. QED  BY <2>1
<1>. QED  BY <1>1, <1>2, <1>3

\* It joins its table.
LEMMA IoJoins ==
  ASSUME NEW x
  PROVE  /\ reads' = reads \cup {x} /\ UNCHANGED <<preReads, storeOps>>
                => IoHolds' = IoHolds \cup {<<"read", x.file, x.slot>>}
         /\ preReads' = preReads \cup {x} /\ UNCHANGED <<reads, storeOps>>
                => IoHolds' = IoHolds \cup {<<"preload", x.hash, x.slot>>}
         /\ storeOps' = storeOps \cup {x} /\ UNCHANGED <<reads, preReads>>
                => IoHolds' = IoHolds \cup {<<"store", x.file, x.slot>>}
<1>1. ASSUME reads' = reads \cup {x}, UNCHANGED <<preReads, storeOps>>
      PROVE  IoHolds' = IoHolds \cup {<<"read", x.file, x.slot>>}
  <2>1. \A c : c \in IoHolds' <=> c \in IoHolds \cup {<<"read", x.file, x.slot>>}
    BY <1>1 DEF IoHolds
  <2>. QED  BY <2>1
<1>2. ASSUME preReads' = preReads \cup {x}, UNCHANGED <<reads, storeOps>>
      PROVE  IoHolds' = IoHolds \cup {<<"preload", x.hash, x.slot>>}
  <2>1. \A c : c \in IoHolds' <=> c \in IoHolds \cup {<<"preload", x.hash, x.slot>>}
    BY <1>2 DEF IoHolds
  <2>. QED  BY <2>1
<1>3. ASSUME storeOps' = storeOps \cup {x}, UNCHANGED <<reads, preReads>>
      PROVE  IoHolds' = IoHolds \cup {<<"store", x.file, x.slot>>}
  <2>1. \A c : c \in IoHolds' <=> c \in IoHolds \cup {<<"store", x.file, x.slot>>}
    BY <1>3 DEF IoHolds
  <2>. QED  BY <2>1
<1>. QED  BY <1>1, <1>2, <1>3

\* What copies hold, and what they leave alone.
LEMMA CopiesHold ==
  /\ Copying' = Copying => CopyHolds' = CopyHolds
  /\ Copying' = Copying /\ Pinned /\ UNCHANGED cache => Pinned'
  /\ Copying' = Copying /\ UNCHANGED sharedCached => SharedHolds' = SharedHolds
  /\ UNCHANGED cache => CacheHolds' = CacheHolds
  /\ UNCHANGED <<reads, preReads, storeOps>> => IoHolds' = IoHolds
BY DEF CopyHolds, SharedHolds, CacheHolds, IoHolds, Pinned, SharedHashes, IsShared, Resident, H

-----------------------------------------------------------------------------
(* Who counts as reading an object.                                         *)

\* No copy reads a slot that counts none; one that counts some is read.
LEMMA PinsCounted ==
  ASSUME Exact, NEW s \in Slots
  PROVE  /\ IsFiniteSet(Pins(s)) /\ Cardinality(Pins(s)) \in Nat
         /\ copies[s] = 0 <=> Pins(s) = {}
<1>1. Pins(s) \subseteq Copying
  BY DEF Pins
<1>2. IsFiniteSet(Pins(s))
  BY <1>1, FS_Subset DEF Exact
<1>. QED  BY <1>2, FS_CardinalityType, FS_EmptySet DEF Exact

LEMMA PinsKept ==
  ASSUME Exact, IsFiniteSet(Copying'), UNCHANGED copies,
         \A m : m.src \in {"shared", "cache"} => (m \in Copying' <=> m \in Copying)
  PROVE  Exact'
<1>1. ASSUME NEW s \in Slots PROVE Pins(s)' = Pins(s)
  <2>1. \A m : m \in Pins(s)' <=> m \in Pins(s)
    BY DEF Pins
  <2>. QED  BY <2>1
<1>. QED  BY <1>1 DEF Exact

LEMMA PinIn ==
  ASSUME TypeOK, Exact, NEW m, m.slot \in Slots, m.src \in {"shared", "cache"}, m \notin Copying,
         Copying' = Copying \cup {m}, copies' = [copies EXCEPT ![m.slot] = @ + 1]
  PROVE  Exact'
<1>1. IsFiniteSet(Copying')
  BY FS_AddElement DEF Exact
<1>2. ASSUME NEW s \in Slots PROVE copies'[s] = Cardinality(Pins(s)')
  <2>1. CASE s # m.slot
    <3>1. Pins(s)' = Pins(s)
      BY <2>1 DEF Pins
    <3>2. copies'[s] = copies[s]
      BY <2>1 DEF TypeOK, SharedTypes
    <3>. QED  BY <3>1, <3>2 DEF Exact
  <2>2. CASE s = m.slot
    <3>1. Pins(s)' = Pins(s) \cup {m} /\ m \notin Pins(s)
      BY <2>2 DEF Pins
    <3>2. Cardinality(Pins(s)') = Cardinality(Pins(s)) + 1
      BY <3>1, PinsCounted, OneMore
    <3>3. copies'[s] = copies[s] + 1
      BY <2>2 DEF TypeOK, SharedTypes
    <3>. QED  BY <3>2, <3>3 DEF Exact
  <2>. QED  BY <2>1, <2>2
<1>. QED  BY <1>1, <1>2 DEF Exact

LEMMA PinOut ==
  ASSUME TypeOK, Exact, NEW m \in Copying, m.slot \in Slots, m.src \in {"shared", "cache"},
         Copying' = Copying \ {m}, copies' = [copies EXCEPT ![m.slot] = @ - 1]
  PROVE  Exact'
<1>1. IsFiniteSet(Copying')
  BY FS_RemoveElement DEF Exact
<1>2. ASSUME NEW s \in Slots PROVE copies'[s] = Cardinality(Pins(s)')
  <2>1. CASE s # m.slot
    <3>1. Pins(s)' = Pins(s)
      BY <2>1 DEF Pins
    <3>2. copies'[s] = copies[s]
      BY <2>1 DEF TypeOK, SharedTypes
    <3>. QED  BY <3>1, <3>2 DEF Exact
  <2>2. CASE s = m.slot
    <3>1. Pins(s)' = Pins(s) \ {m} /\ m \in Pins(s)
      BY <2>2 DEF Pins
    <3>2. Cardinality(Pins(s)') = Cardinality(Pins(s)) - 1
      BY <3>1, PinsCounted, OneLess
    <3>3. copies'[s] = copies[s] - 1
      BY <2>2 DEF TypeOK, SharedTypes
    <3>. QED  BY <3>2, <3>3 DEF Exact
  <2>. QED  BY <2>1, <2>2
<1>. QED  BY <1>1, <1>2 DEF Exact

\* A copy that reads an object or an entry sits with it: their hash is its own.
LEMMA ReadersOf ==
  ASSUME TypeOK, Sheltered, Pinned, NEW m \in Copying
  PROVE  /\ m.slot \in Slots /\ H(m.file) \in Hashes /\ m \in Member
         /\ m.src = "own" => <<"copy", m.file, m.slot>> \in CopyHolds
         /\ m.src = "shared" => <<"shared", H(m.file), m.slot>> \in SharedHolds
         /\ m.src = "cache" => <<"cache", H(m.file), m.slot>> \in CacheHolds
<1>1. m \in Member
  BY DEF Copying, TypeOK, TurnTypes, TransferTypes
<1>2. m.file \in Files /\ m.slot \in Slots /\ H(m.file) \in Hashes
  BY <1>1, FileFacts DEF Member
<1>3. m.src = "cache" => H(m.file) \in Resident /\ cache[H(m.file)] = m.slot
  BY <1>2, SizeAssumption DEF Pinned, Resident
<1>. QED  BY <1>1, <1>2, <1>3 DEF CopyHolds, SharedHolds, CacheHolds

\* Nothing reads an entry that may be evicted or an object that may be taken.
LEMMA IdleHolders ==
  ASSUME TypeOK, Sheltered, Pinned, Exact
  PROVE  /\ \A v \in Evictable : /\ <<"cache", v, cache[v]>> \in CacheHolds /\ cache[v] \in Slots
                                 /\ \A m \in Copying : m.src = "cache" => H(m.file) # v
         /\ \A v \in IdleShared : /\ <<"shared", v, sharedCached[v]>> \in SharedHolds
                                  /\ sharedCached[v] \in Slots
                                  /\ \A m \in Copying : m.src = "shared" => m.slot # sharedCached[v]
<1>0. /\ \A v \in Evictable : v \in Resident /\ cache[v] \in Slots /\ copies[cache[v]] = 0
      /\ \A v \in IdleShared : v \in SharedHashes /\ sharedCached[v] \in Slots
                               /\ copies[sharedCached[v]] = 0
  BY RetainedSlots DEF Evictable, IdleShared, TypeOK
<1>1. ASSUME NEW v \in Evictable, NEW m \in Copying, m.src = "cache" PROVE H(m.file) # v
  <2>1. m.slot \in Slots /\ cache[H(m.file)] = m.slot /\ m \in Pins(m.slot)
    BY <1>1, ReadersOf DEF Pinned, Pins
  <2>2. copies[m.slot] # 0
    BY <2>1, PinsCounted
  <2>. QED  BY <1>0, <2>1, <2>2
<1>2. ASSUME NEW v \in IdleShared, NEW m \in Copying, m.src = "shared"
      PROVE  m.slot # sharedCached[v]
  <2>1. m.slot \in Slots /\ m \in Pins(m.slot)
    BY <1>2, ReadersOf DEF Pins
  <2>2. copies[m.slot] # 0
    BY <2>1, PinsCounted
  <2>. QED  BY <1>0, <2>2
<1>. QED  BY <1>0, <1>1, <1>2 DEF CacheHolds, SharedHolds

-----------------------------------------------------------------------------
(* Slots given back and reserved.                                           *)

\* Holder c, no cache entry, gives its slot back: to the pool, or to an entry
\* of its block, perhaps in place of another entry.
LEMMA PutCases ==
  ASSUME TypeOK, NEW h \in Hashes, NEW s \in Slots, ReleaseOrCache(h, s)
  PROVE  \/ /\ UNCHANGED cache /\ free' = free \cup {s}
            /\ \A t \in Slots : t # s => content'[t] = content[t]
         \/ /\ cache[h] = NoSlot /\ cache' = [cache EXCEPT ![h] = s]
            /\ UNCHANGED free /\ content'[s] = h
            /\ \A t \in Slots : t # s => content'[t] = content[t]
         \/ \E v \in Evictable :
            /\ cache[h] = NoSlot /\ v # h /\ free' = free \cup {cache[v]}
            /\ cache' = [[cache EXCEPT ![h] = s] EXCEPT ![v] = NoSlot]
            /\ s # cache[v] => content'[s] = h
            /\ \A t \in Slots : t # s /\ t # cache[v] => content'[t] = content[t]
<1>1. PICK o \in Put(h, s) :
        /\ cache' = o.cache /\ free' = free \cup o.freed
        /\ content' = [t \in Slots |-> IF t \in o.freed THEN Junk
                                       ELSE IF t = s THEN h ELSE content[t]]
  BY DEF ReleaseOrCache
<1>2. CASE o = [cache |-> cache, freed |-> {s}]
  BY <1>1, <1>2
<1>3. CASE cache[h] = NoSlot /\ o = [cache |-> [cache EXCEPT ![h] = s], freed |-> {}]
  BY <1>1, <1>3
<1>4. ASSUME cache[h] = NoSlot, NEW v \in Evictable,
             o = [cache |-> [[cache EXCEPT ![h] = s] EXCEPT ![v] = NoSlot], freed |-> {cache[v]}]
      PROVE  /\ v # h /\ free' = free \cup {cache[v]}
             /\ cache' = [[cache EXCEPT ![h] = s] EXCEPT ![v] = NoSlot]
             /\ s # cache[v] => content'[s] = h
             /\ \A t \in Slots : t # s /\ t # cache[v] => content'[t] = content[t]
  <2>1. v # h
    BY <1>4 DEF Evictable, Resident
  <2>. QED  BY <1>1, <1>4, <2>1
<1>5. \/ o = [cache |-> cache, freed |-> {s}]
      \/ cache[h] = NoSlot /\ o = [cache |-> [cache EXCEPT ![h] = s], freed |-> {}]
      \/ \E v \in Evictable :
           cache[h] = NoSlot
           /\ o = [cache |-> [[cache EXCEPT ![h] = s] EXCEPT ![v] = NoSlot], freed |-> {cache[v]}]
  BY <1>1 DEF Put
<1>. QED  BY <1>2, <1>3, <1>4, <1>5

\* What an entry put in and an entry evicted do to the entries.
LEMMA CacheMoves ==
  ASSUME TypeOK, NEW h \in Hashes, NEW s \in Slots
  PROVE  /\ cache[h] = NoSlot /\ cache' = [cache EXCEPT ![h] = s]
              => CacheHolds' = CacheHolds \cup {<<"cache", h, s>>}
         /\ \A v \in Resident : cache' = [cache EXCEPT ![v] = NoSlot]
              => CacheHolds' = CacheHolds \ {<<"cache", v, cache[v]>>}
         /\ \A v \in Resident :
              /\ cache[h] = NoSlot /\ v # h
              /\ cache' = [[cache EXCEPT ![h] = s] EXCEPT ![v] = NoSlot]
              => CacheHolds' = (CacheHolds \ {<<"cache", v, cache[v]>>}) \cup {<<"cache", h, s>>}
<1>0. cache \in [Hashes -> Slots \cup {NoSlot}] /\ s # NoSlot
  BY SizeAssumption DEF TypeOK, PoolTypes
<1>4. \A c : c \in CacheHolds <=> \E g \in Hashes : cache[g] # NoSlot /\ c = <<"cache", g, cache[g]>>
  BY DEF CacheHolds, Resident
<1>5. \A c : c \in CacheHolds' <=> \E g \in Hashes : cache'[g] # NoSlot /\ c = <<"cache", g, cache'[g]>>
  BY DEF CacheHolds, Resident
<1>1. ASSUME cache[h] = NoSlot, cache' = [cache EXCEPT ![h] = s]
      PROVE  CacheHolds' = CacheHolds \cup {<<"cache", h, s>>}
  <2>0. cache'[h] = s /\ \A g \in Hashes : g # h => cache'[g] = cache[g]
    BY <1>0, <1>1
  <2>1. \A c : c \in CacheHolds' <=> c \in CacheHolds \cup {<<"cache", h, s>>}
    BY <1>0, <1>1, <1>4, <1>5, <2>0
  <2>. QED  BY <2>1
<1>2. ASSUME NEW v \in Resident, cache' = [cache EXCEPT ![v] = NoSlot]
      PROVE  CacheHolds' = CacheHolds \ {<<"cache", v, cache[v]>>}
  <2>0. v \in Hashes /\ cache'[v] = NoSlot /\ \A g \in Hashes : g # v => cache'[g] = cache[g]
    BY <1>0, <1>2 DEF Resident
  <2>1. \A c : c \in CacheHolds' <=> c \in CacheHolds \ {<<"cache", v, cache[v]>>}
    BY <1>4, <1>5, <2>0
  <2>. QED  BY <2>1
<1>3. ASSUME NEW v \in Resident, cache[h] = NoSlot, v # h,
             cache' = [[cache EXCEPT ![h] = s] EXCEPT ![v] = NoSlot]
      PROVE  CacheHolds' = (CacheHolds \ {<<"cache", v, cache[v]>>}) \cup {<<"cache", h, s>>}
  <2>0. /\ v \in Hashes /\ cache'[v] = NoSlot /\ cache'[h] = s
        /\ \A g \in Hashes : g # v /\ g # h => cache'[g] = cache[g]
    BY <1>0, <1>3 DEF Resident
  <2>1. \A c : c \in CacheHolds' <=> c \in (CacheHolds \ {<<"cache", v, cache[v]>>})
                                             \cup {<<"cache", h, s>>}
    BY <1>0, <1>3, <1>4, <1>5, <2>0
  <2>. QED  BY <2>1
<1>. QED  BY <1>1, <1>2, <1>3

\* An object is dropped from the table: it keeps its slot while a copy reads it.
LEMMA UncachedObject ==
  ASSUME TypeOK, NEW h \in SharedHashes, sharedCached' = [sharedCached EXCEPT ![h] = NoSlot],
         Copying' = Copying
  PROVE  LET s == sharedCached[h]
         IN /\ (\A m \in Copying : m.src = "shared" => m.slot # s)
                 => SharedHolds' = SharedHolds \ {<<"shared", h, s>>}
            /\ (\E m \in Copying : m.src = "shared" /\ m.slot = s /\ H(m.file) = h)
                 => SharedHolds' = SharedHolds
<1>. DEFINE e == <<"shared", h, sharedCached[h]>>
<1>0. /\ h \in Hashes /\ sharedCached'[h] = NoSlot
      /\ \A g \in Hashes : g # h => sharedCached'[g] = sharedCached[g]
  BY DEF SharedHashes, TypeOK, SharedTypes
<1>1. \A c : c \in SharedHolds <=>
        \/ \E g \in Hashes : sharedCached[g] # NoSlot /\ c = <<"shared", g, sharedCached[g]>>
        \/ \E m \in Copying : m.src = "shared" /\ c = <<"shared", H(m.file), m.slot>>
  BY DEF SharedHolds, SharedHashes, IsShared
<1>2. \A c : c \in SharedHolds' <=>
        \/ \E g \in Hashes : sharedCached'[g] # NoSlot /\ c = <<"shared", g, sharedCached'[g]>>
        \/ \E m \in Copying : m.src = "shared" /\ c = <<"shared", H(m.file), m.slot>>
  BY DEF SharedHolds, SharedHashes, IsShared, H
<1>3. ASSUME \A m \in Copying : m.src = "shared" => m.slot # sharedCached[h]
      PROVE  SharedHolds' = SharedHolds \ {e}
  <2>1. \A c : c \in SharedHolds' <=> c \in SharedHolds \ {e}
    BY <1>0, <1>1, <1>2, <1>3
  <2>. QED  BY <2>1
<1>4. ASSUME NEW m \in Copying, m.src = "shared", m.slot = sharedCached[h], H(m.file) = h
      PROVE  SharedHolds' = SharedHolds
  <2>1. \A c : c \in SharedHolds' <=> c \in SharedHolds
    BY <1>0, <1>1, <1>2, <1>4
  <2>. QED  BY <2>1
<1>. QED  BY <1>3, <1>4

\* A member of a copy is settled.
LEMMA CopyLeaves ==
  ASSUME TypeOK, NEW m \in Copying, m \in Member, Copying' = Copying \ {m}
  PROVE  /\ m.src = "own" => CopyHolds' = CopyHolds \ {<<"copy", m.file, m.slot>>}
         /\ m.src # "own" => CopyHolds' = CopyHolds
<1>1. \A n \in Copying : n.file = m.file /\ n.slot = m.slot /\ n.src = m.src => n = m
  BY DEF Copying, TypeOK, TurnTypes, TransferTypes, Member
<1>2. \A c : c \in CopyHolds <=> \E n \in Copying : n.src = "own" /\ c = <<"copy", n.file, n.slot>>
  BY DEF CopyHolds
<1>3. \A c : c \in CopyHolds' <=>
        \E n \in Copying : n # m /\ n.src = "own" /\ c = <<"copy", n.file, n.slot>>
  BY DEF CopyHolds
<1>6. ASSUME m.src = "own" PROVE CopyHolds' = CopyHolds \ {<<"copy", m.file, m.slot>>}
  <2>1. \A c : c \in CopyHolds' <=> c \in CopyHolds \ {<<"copy", m.file, m.slot>>}
    BY <1>1, <1>2, <1>3, <1>6
  <2>. QED  BY <2>1
<1>7. ASSUME m.src # "own" PROVE CopyHolds' = CopyHolds
  <2>1. \A c : c \in CopyHolds' <=> c \in CopyHolds
    BY <1>2, <1>3, <1>7
  <2>. QED  BY <2>1
<1>. QED  BY <1>6, <1>7

\* The object it read keeps its slot if it is still in the table or read.
StillShared(m) ==
  \/ m.src # "shared"
  \/ sharedCached[H(m.file)] = m.slot /\ IsShared(H(m.file))
  \/ \E n \in Copying : n # m /\ n.src = "shared" /\ n.slot = m.slot /\ H(n.file) = H(m.file)

LastShared(m) ==
  /\ m.src = "shared" /\ sharedCached[H(m.file)] # m.slot
  /\ \A n \in Copying : n # m /\ n.src = "shared" => n.slot # m.slot

LEMMA ShareLeaves ==
  ASSUME NEW m \in Copying, m \in Member, Copying' = Copying \ {m}, UNCHANGED sharedCached
  PROVE  /\ StillShared(m) => SharedHolds' = SharedHolds
         /\ LastShared(m) => SharedHolds' = SharedHolds \ {<<"shared", H(m.file), m.slot>>}
<1>0. H(m.file) \in Hashes
  BY FileFacts DEF Member
<1>4. \A c : c \in SharedHolds <=>
        \/ \E g \in Hashes : sharedCached[g] # NoSlot /\ c = <<"shared", g, sharedCached[g]>>
        \/ \E n \in Copying : n.src = "shared" /\ c = <<"shared", H(n.file), n.slot>>
  BY DEF SharedHolds, SharedHashes, IsShared
<1>5. \A c : c \in SharedHolds' <=>
        \/ \E g \in Hashes : sharedCached[g] # NoSlot /\ c = <<"shared", g, sharedCached[g]>>
        \/ \E n \in Copying : n # m /\ n.src = "shared" /\ c = <<"shared", H(n.file), n.slot>>
  BY DEF SharedHolds, SharedHashes, IsShared, H
<1>8. ASSUME StillShared(m) PROVE SharedHolds' = SharedHolds
  <2>1. \A c : c \in SharedHolds' <=> c \in SharedHolds
    BY <1>0, <1>4, <1>5, <1>8 DEF StillShared, IsShared
  <2>. QED  BY <2>1
<1>9. ASSUME LastShared(m)
      PROVE  SharedHolds' = SharedHolds \ {<<"shared", H(m.file), m.slot>>}
  <2>1. \A c : c \in SharedHolds' <=> c \in SharedHolds \ {<<"shared", H(m.file), m.slot>>}
    BY <1>4, <1>5, <1>9 DEF LastShared
  <2>. QED  BY <2>1
<1>. QED  BY <1>8, <1>9

\* The one reader of a slot.
LEMMA LastReader ==
  ASSUME Exact, NEW s \in Slots, NEW m \in Pins(s)
  PROVE  copies[s] = 1 <=> \A n \in Pins(s) : n = m
<1>1. IsFiniteSet(Pins(s)) /\ copies[s] = Cardinality(Pins(s)) /\ Cardinality(Pins(s)) \in Nat
  BY PinsCounted DEF Exact
<1>. DEFINE P == Pins(s) \ {m}
<1>2. IsFiniteSet(P) /\ Cardinality(P) = Cardinality(Pins(s)) - 1
  BY <1>1, OneLess
<1>3. Cardinality(P) = 0 <=> P = {}
  BY <1>2, FS_EmptySet
<1>. QED  BY <1>1, <1>2, <1>3

\* The step of the invariant, from what moves.
Shift(Out, In) == Moves(Holders, Holders', free, free', content, content', Out, In)

LEMMA ShelterMoves ==
  ASSUME Sheltered, NEW Out, NEW In, Shift(Out, In)
  PROVE  Sheltered'
BY Exchange DEF Sheltered, Shift

Others == IoHolds \cup CopyHolds \cup SharedHolds

LEMMA GiveBack ==
  ASSUME TypeOK, Sheltered, Pinned, Exact, NEW c \in Others, NEW h \in Hashes,
         NEW s, s = c[3], ReleaseOrCache(h, s), Others' = Others \ {c},
         \A m \in Copying' : m.src = "cache" => m \in Copying
  PROVE  Sheltered' /\ Pinned'
<1>1. Holders = Others \cup CacheHolds /\ Holders' = Others' \cup CacheHolds'
  BY HoldersAre DEF Others
<1>2. /\ s \in Slots /\ s \notin free /\ c \in Holders /\ c \notin CacheHolds
      /\ \A d \in CacheHolds : d[3] # s
  <2>1. c[1] # "cache" /\ \A d \in CacheHolds : d[1] = "cache"
    BY Tagged DEF Others
  <2>. QED  BY <1>1, <2>1 DEF Sheltered, Sound
<1>3. \A m \in Copying : m.src = "cache" => H(m.file) \in Hashes /\ m.slot \in Slots
  BY ReadersOf
<1>. DEFINE d == <<"cache", h, s>>
<1>4. d[1] = "cache" /\ d[3] = s /\ Filled(d) /\ Block(d) = h /\ d \notin Others
  <2>1. d[1] = "cache" /\ d[3] = s /\ Filled(d) /\ Block(d) = h
    BY DEF Filled, Block
  <2>2. \A e \in Others : e[1] # "cache"
    BY Tagged DEF Others
  <2>. QED  BY <2>1, <2>2
<1>. HIDE DEF d
<1>5. CASE /\ UNCHANGED cache /\ free' = free \cup {s}
           /\ \A t \in Slots : t # s => content'[t] = content[t]
  <2>1. CacheHolds' = CacheHolds
    BY <1>5, CopiesHold
  <2>2. Shift({c}, {})
    BY <1>1, <1>2, <1>5, <2>1 DEF Shift, Moves
  <2>. QED  BY <1>5, <2>2, ShelterMoves DEF Pinned, H
<1>6. CASE /\ cache[h] = NoSlot /\ cache' = [cache EXCEPT ![h] = s]
           /\ UNCHANGED free /\ content'[s] = h
           /\ \A t \in Slots : t # s => content'[t] = content[t]
  <2>1. CacheHolds' = CacheHolds \cup {d}
    BY <1>2, <1>6, CacheMoves DEF d
  <2>2. Shift({c}, {d})
    BY <1>1, <1>2, <1>4, <1>6, <2>1 DEF Shift, Moves
  <2>3. Pinned'
    BY <1>3, <1>6, SizeAssumption DEF Pinned, H, TypeOK, PoolTypes
  <2>. QED  BY <2>2, <2>3, ShelterMoves
<1>7. ASSUME NEW v \in Evictable, cache[h] = NoSlot, v # h, free' = free \cup {cache[v]},
             cache' = [[cache EXCEPT ![h] = s] EXCEPT ![v] = NoSlot],
             s # cache[v] => content'[s] = h,
             \A t \in Slots : t # s /\ t # cache[v] => content'[t] = content[t]
      PROVE  Sheltered' /\ Pinned'
  <2>. DEFINE e == <<"cache", v, cache[v]>>
  <2>0. v \in Resident /\ e \in CacheHolds /\ e[3] = cache[v] /\ cache[v] \in Slots
    BY IdleHolders DEF Evictable
  <2>1. CacheHolds' = (CacheHolds \ {e}) \cup {d}
    <3>1. /\ cache[h] = NoSlot /\ v # h
          /\ cache' = [[cache EXCEPT ![h] = s] EXCEPT ![v] = NoSlot]
      BY <1>7
    <3>2. s \in Slots /\ v \in Resident
      BY <1>2, <2>0
    <3>3. \A u \in Resident :
            /\ cache[h] = NoSlot /\ u # h
            /\ cache' = [[cache EXCEPT ![h] = s] EXCEPT ![u] = NoSlot]
            => CacheHolds' = (CacheHolds \ {<<"cache", u, cache[u]>>}) \cup {<<"cache", h, s>>}
      BY <3>2, CacheMoves
    <3>. QED  BY <3>1, <3>2, <3>3 DEF d
  <2>. HIDE DEF e
  <2>2. e \in Holders /\ e \notin Others /\ cache[v] # s /\ e # c
    BY <1>1, <1>2, <2>0, Tagged DEF Others
  <2>3. Shift({c, e}, {d})
    <3>1. \A x : x \in Holders' <=> (x \in Holders /\ x \notin {c, e}) \/ x \in {d}
      BY <1>1, <1>2, <2>1, <2>2
    <3>2. \A t \in Slots : t \in free' <=> (t \in free \/ t = c[3] \/ t = e[3]) /\ t # s
      BY <1>2, <1>7, <2>0, <2>2
    <3>3. \A t \in Slots : t = c[3] \/ t = e[3] \/ content'[t] = content[t]
      BY <1>7, <2>0
    <3>4. content'[s] = h
      BY <1>7, <2>2
    <3>. QED  BY <1>2, <1>4, <2>2, <3>1, <3>2, <3>3, <3>4 DEF Shift, Moves
  <2>4. Pinned'
    <3>1. SUFFICES ASSUME NEW m \in Copying', m.src = "cache" PROVE cache'[H(m.file)] = m.slot
      BY DEF Pinned, H
    <3>2. m \in Copying /\ H(m.file) \in Hashes /\ cache[H(m.file)] = m.slot /\ m.slot \in Slots
      BY <1>3, <3>1 DEF Pinned
    <3>3. H(m.file) # v /\ H(m.file) # h
      BY <1>7, <3>1, <3>2, IdleHolders, SizeAssumption
    <3>. QED  BY <1>7, <3>2, <3>3 DEF TypeOK, PoolTypes
  <2>. QED  BY <2>3, <2>4, ShelterMoves
<1>. QED  BY <1>2, <1>5, <1>6, <1>7, PutCases

\* A reserved slot was free, an idle entry's, or an idle object's: who held it
\* is gone.
LEMMA Reserving ==
  ASSUME TypeOK, Sheltered, Pinned, Exact, NEW s, NEW back, ReserveForeground(s, back),
         Copying' = Copying
  PROVE  /\ s \in Slots /\ free' = (free \ {s}) \cup back /\ Pinned'
         /\ \E Out : /\ \A c \in Out : c \in CacheHolds \cup SharedHolds /\ c[3] = s
                     /\ s \in free \/ \E c \in Out : c[3] = s
                     /\ CacheHolds' \cup SharedHolds' = (CacheHolds \cup SharedHolds) \ Out
<1>1. CASE s \in free /\ free' = (free \ {s}) \cup back /\ UNCHANGED <<retained, demand>>
  <2>1. CacheHolds' = CacheHolds /\ SharedHolds' = SharedHolds /\ Pinned'
    BY <1>1, CopiesHold
  <2>2. /\ \A c \in {} : c \in CacheHolds \cup SharedHolds /\ c[3] = s
        /\ CacheHolds' \cup SharedHolds' = (CacheHolds \cup SharedHolds) \ {}
    BY <2>1
  <2>. QED  BY <1>1, <2>1, <2>2 DEF TypeOK, PoolTypes
<1>2. ASSUME free = {}, free' = back, NEW v \in Evictable, s = cache[v],
             cache' = [cache EXCEPT ![v] = NoSlot], UNCHANGED <<sharedCached, demand>>
      PROVE  /\ s \in Slots /\ free' = (free \ {s}) \cup back /\ Pinned'
             /\ \E Out : /\ \A c \in Out : c \in CacheHolds \cup SharedHolds /\ c[3] = s
                         /\ s \in free \/ \E c \in Out : c[3] = s
                         /\ CacheHolds' \cup SharedHolds' = (CacheHolds \cup SharedHolds) \ Out
  <2>. DEFINE e == <<"cache", v, cache[v]>>
  <2>1. v \in Resident /\ v \in Hashes /\ e \in CacheHolds /\ e[3] = s /\ s \in Slots
    BY <1>2, IdleHolders DEF Evictable, Resident
  <2>2. CacheHolds' = CacheHolds \ {e} /\ SharedHolds' = SharedHolds
    BY <1>2, <2>1, CacheMoves, CopiesHold
  <2>3. e \notin SharedHolds
    BY <2>1, Tagged
  <2>4. Pinned'
    BY <1>2, <2>1, ReadersOf, IdleHolders DEF Pinned, H, TypeOK, PoolTypes
  <2>. HIDE DEF e
  <2>5. CacheHolds' \cup SharedHolds' = (CacheHolds \cup SharedHolds) \ {e}
    BY <2>2, <2>3
  <2>. QED  BY <1>2, <2>1, <2>4, <2>5
<1>3. ASSUME free = {}, free' = back, NEW v \in IdleShared, s = sharedCached[v],
             sharedCached' = [sharedCached EXCEPT ![v] = NoSlot], UNCHANGED cache
      PROVE  /\ s \in Slots /\ free' = (free \ {s}) \cup back /\ Pinned'
             /\ \E Out : /\ \A c \in Out : c \in CacheHolds \cup SharedHolds /\ c[3] = s
                         /\ s \in free \/ \E c \in Out : c[3] = s
                         /\ CacheHolds' \cup SharedHolds' = (CacheHolds \cup SharedHolds) \ Out
  <2>. DEFINE e == <<"shared", v, sharedCached[v]>>
  <2>1. v \in SharedHashes /\ e \in SharedHolds /\ e[3] = s /\ s \in Slots
    BY <1>3, IdleHolders DEF IdleShared
  <2>2. CacheHolds' = CacheHolds /\ Pinned'
    BY <1>3, CopiesHold
  <2>3. \A m \in Copying : m.src = "shared" => m.slot # s
    BY <1>3, IdleHolders
  <2>4. SharedHolds' = SharedHolds \ {e}
    BY <1>3, <2>1, <2>3, UncachedObject
  <2>5. e \notin CacheHolds
    BY <2>1, Tagged
  <2>. HIDE DEF e
  <2>6. CacheHolds' \cup SharedHolds' = (CacheHolds \cup SharedHolds) \ {e}
    BY <2>2, <2>4, <2>5
  <2>. QED  BY <1>3, <2>1, <2>2, <2>6
<1>. QED  BY <1>1, <1>2, <1>3 DEF ReserveForeground

LEMMA ReserveInto ==
  ASSUME TypeOK, Sheltered, Pinned, Exact, NEW s, ReserveForeground(s, {}), Copying' = Copying,
         UNCHANGED copies, NEW d, d[3] = s, ~Filled(d), IoHolds' = IoHolds \cup {d},
         content' = Forget({s})
  PROVE  Sheltered' /\ Pinned' /\ Exact'
<1>1. s \in Slots /\ free' = (free \ {s}) \cup {} /\ Pinned'
  BY Reserving
<1>2. PICK Out : /\ \A c \in Out : c \in CacheHolds \cup SharedHolds /\ c[3] = s
                 /\ s \in free \/ \E c \in Out : c[3] = s
                 /\ CacheHolds' \cup SharedHolds' = (CacheHolds \cup SharedHolds) \ Out
  BY Reserving
<1>3. /\ Holders = IoHolds \cup CopyHolds \cup (CacheHolds \cup SharedHolds)
      /\ Holders' = IoHolds' \cup CopyHolds' \cup (CacheHolds' \cup SharedHolds')
      /\ CopyHolds' = CopyHolds
  BY HoldersAre, CopiesHold
<1>4. \A c \in Out : c \in Holders /\ c \notin IoHolds /\ c \notin CopyHolds
  BY <1>2, <1>3, Tagged
<1>5. \A t \in Slots : t # s => content'[t] = content[t]
  BY DEF Forget
<1>6. Shift(Out, {d})
  BY <1>1, <1>2, <1>3, <1>4, <1>5 DEF Shift, Moves
<1>. QED  BY <1>1, <1>6, ShelterMoves, PinsKept DEF Exact

LEMMA ReserveReturned ==
  ASSUME TypeOK, Sheltered, Pinned, Exact, NEW s, ReserveForeground(s, {s}), Copying' = Copying,
         UNCHANGED <<copies, reads, preReads, storeOps>>, content' = Forget({s})
  PROVE  Sheltered' /\ Pinned' /\ Exact'
<1>1. s \in Slots /\ free' = (free \ {s}) \cup {s} /\ Pinned'
  BY Reserving
<1>2. PICK Out : /\ \A c \in Out : c \in CacheHolds \cup SharedHolds /\ c[3] = s
                 /\ s \in free \/ \E c \in Out : c[3] = s
                 /\ CacheHolds' \cup SharedHolds' = (CacheHolds \cup SharedHolds) \ Out
  BY Reserving
<1>3. /\ Holders = IoHolds \cup CopyHolds \cup (CacheHolds \cup SharedHolds)
      /\ Holders' = IoHolds' \cup CopyHolds' \cup (CacheHolds' \cup SharedHolds')
      /\ CopyHolds' = CopyHolds /\ IoHolds' = IoHolds
  BY HoldersAre, CopiesHold
<1>4. \A c \in Out : c \in Holders /\ c \notin IoHolds /\ c \notin CopyHolds
  BY <1>2, <1>3, Tagged
<1>5. \A t \in Slots : t # s => content'[t] = content[t]
  BY DEF Forget
<1>6. Shift(Out, {})
  BY <1>1, <1>2, <1>3, <1>4, <1>5 DEF Shift, Moves
<1>. QED  BY <1>1, <1>6, ShelterMoves, PinsKept DEF Exact

\* A read or write that failed gives its slot back empty.
LEMMA IoFreed ==
  ASSUME TypeOK, Sheltered, Pinned, Exact, NEW c \in IoHolds, IoHolds' = IoHolds \ {c},
         NEW s, s = c[3], Release(s), Copying' = Copying, UNCHANGED <<retained, copies>>
  PROVE  Sheltered' /\ Pinned' /\ Exact'
<1>1. /\ Holders = IoHolds \cup (CopyHolds \cup CacheHolds \cup SharedHolds)
      /\ Holders' = IoHolds' \cup (CopyHolds \cup CacheHolds \cup SharedHolds)
      /\ Pinned'
  BY HoldersAre, CopiesHold
<1>2. c \notin CopyHolds \cup CacheHolds \cup SharedHolds
  BY Tagged
<1>3. /\ s \in Slots /\ free' = free \cup {s}
      /\ \A t \in Slots : t # s => content'[t] = content[t]
  BY <1>1 DEF Release, Forget, Sheltered, Sound
<1>4. Shift({c}, {})
  BY <1>1, <1>2, <1>3 DEF Shift, Moves
<1>. QED  BY <1>1, <1>4, ShelterMoves, PinsKept DEF Exact

\* A slot passes from one holder to the next with the block in it.
LEMMA IoHandsOver ==
  ASSUME TypeOK, Sheltered, NEW c \in IoHolds, IoHolds' = IoHolds \ {c},
         NEW d, d[3] = c[3], d[1] \in {"copy", "shared"},
         CopyHolds' \cup SharedHolds' = CopyHolds \cup SharedHolds \cup {d},
         UNCHANGED <<cache, free>>, content' = [content EXCEPT ![c[3]] = Block(d)]
  PROVE  Sheltered'
<1>1. /\ Holders = IoHolds \cup CacheHolds \cup (CopyHolds \cup SharedHolds)
      /\ Holders' = IoHolds' \cup CacheHolds \cup (CopyHolds' \cup SharedHolds')
  BY HoldersAre, CopiesHold
<1>2. c \notin CacheHolds \cup (CopyHolds \cup SharedHolds) /\ d # c /\ Filled(d)
  BY Tagged DEF Filled
<1>3. /\ c[3] \in Slots /\ c[3] \notin free /\ content'[c[3]] = Block(d)
      /\ \A t \in Slots : t # c[3] => content'[t] = content[t]
  BY <1>1 DEF Sheltered, Sound, TypeOK, PoolTypes
<1>4. Shift({c}, {d})
  BY <1>1, <1>2, <1>3 DEF Shift, Moves
<1>. QED  BY <1>4, ShelterMoves

LEMMA SharingKept ==
  ASSUME Sharing, Alive' => Alive, Copying' = Copying,
         UNCHANGED <<reads, preReads, storeOps, retained, pool, copies>>
  PROVE  Sharing'
<1>. SUFFICES ASSUME Alive, Alive' PROVE Sheltered' /\ Pinned' /\ Exact'
  BY DEF Sharing
<1>1. Sheltered /\ Pinned /\ Exact
  BY DEF Sharing
<1>2. Holders' = Holders
  BY CopiesHold, HoldersAre
<1>. QED  BY <1>1, <1>2, ShelterKept, CopiesHold, PinsKept DEF Exact

-----------------------------------------------------------------------------
(* One lemma for each group of steps. *)

Settled == TypeOK /\ Tables /\ Total /\ Books /\ Sheltered /\ Pinned /\ Exact

LEMMA SharingAgain ==
  ASSUME Sheltered', Pinned', Exact'
  PROVE  Sharing'
BY DEF Sharing

LEMMA InitSharing == Init => Sharing
<1>. SUFFICES ASSUME Init PROVE Sheltered /\ Pinned /\ Exact
  BY DEF Sharing
<1>1. Copying = {}
  BY DEF Init, Copying
<1>2. Holders = {}
  BY <1>1 DEF Init, Holders, Resident, SharedHashes, IsShared
<1>3. Sheltered
  BY <1>2 DEF Init, Sheltered, Sound
<1>4. ASSUME NEW s \in Slots PROVE copies[s] = Cardinality(Pins(s))
  <2>1. Pins(s) = {} /\ copies[s] = 0
    BY <1>1 DEF Init, Pins
  <2>. QED  BY <2>1, FS_EmptySet
<1>. QED  BY <1>1, <1>3, <1>4, FS_EmptySet DEF Pinned, Exact

LEMMA SettleSharing ==
  ASSUME Settled, NEW w \in settling, Settle(w)
  PROVE  Sharing'
<1>. USE DEF Settled
<1>0. PICK m : m = w[1]
  OBVIOUS
<1>1. m \in Copying /\ Copying' = Copying \ {m}
  BY <1>0, SettleTakes DEF Tables
<1>2. /\ m \in Member /\ m.slot \in Slots /\ H(m.file) \in Hashes
      /\ m.src = "own" => <<"copy", m.file, m.slot>> \in CopyHolds
      /\ m.src = "shared" => <<"shared", H(m.file), m.slot>> \in SharedHolds
  BY <1>1, ReadersOf
<1>3. UNCHANGED <<sharedCached, reads, preReads, storeOps>> /\ IoHolds' = IoHolds
  BY CopiesHold DEF Settle
<1>. DEFINE h == H(m.file)
            s == m.slot
            gone == m.src = "shared" /\ sharedCached[h] # s /\ copies[s] = 1
<1>4. /\ copies' = IF m.src \in {"shared", "cache"} THEN [copies EXCEPT ![s] = @ - 1] ELSE copies
      /\ (m.src = "own" \/ gone) => ReleaseOrCache(h, s)
      /\ ~(m.src = "own" \/ gone) => UNCHANGED <<cache, pool>>
  BY <1>0 DEF Settle
<1>5. Exact'
  <2>1. CASE m.src \in {"shared", "cache"}
    BY <1>1, <1>2, <1>4, <2>1, PinOut
  <2>2. CASE m.src \notin {"shared", "cache"}
    <3>1. IsFiniteSet(Copying')
      BY <1>1, FS_RemoveElement DEF Exact
    <3>. QED  BY <1>1, <1>4, <2>2, <3>1, PinsKept
  <2>. QED  BY <2>1, <2>2
<1>6. CASE m.src = "own"
  <2>. DEFINE c == <<"copy", m.file, s>>
  <2>1. CopyHolds' = CopyHolds \ {c} /\ SharedHolds' = SharedHolds
    BY <1>1, <1>2, <1>3, <1>6, CopyLeaves, ShareLeaves DEF StillShared
  <2>2. c[1] = "copy" /\ c[3] = s /\ c \in CopyHolds
    BY <1>2, <1>6
  <2>. HIDE DEF c
  <2>3. c \in Others /\ Others' = Others \ {c}
    BY <1>3, <2>1, <2>2, Tagged DEF Others
  <2>4. Sheltered' /\ Pinned'
    BY <1>1, <1>2, <1>4, <1>6, <2>2, <2>3, GiveBack
  <2>. QED  BY <1>5, <2>4, SharingAgain
<1>7. CASE gone
  <2>. DEFINE c == <<"shared", h, s>>
  <2>1. \A n \in Copying : n # m /\ n.src = "shared" => n.slot # s
    <3>1. m \in Pins(s)
      BY <1>1, <1>7 DEF Pins
    <3>2. \A n \in Pins(s) : n = m
      BY <1>2, <1>7, <3>1, LastReader
    <3>. QED  BY <3>2 DEF Pins
  <2>2. SharedHolds' = SharedHolds \ {c} /\ CopyHolds' = CopyHolds
    BY <1>1, <1>2, <1>3, <1>7, <2>1, CopyLeaves, ShareLeaves DEF LastShared
  <2>3. c[1] = "shared" /\ c[3] = s /\ c \in SharedHolds
    BY <1>2, <1>7
  <2>. HIDE DEF c
  <2>4. c \in Others /\ Others' = Others \ {c}
    BY <1>3, <2>2, <2>3, Tagged DEF Others
  <2>5. Sheltered' /\ Pinned'
    BY <1>1, <1>2, <1>4, <1>7, <2>3, <2>4, GiveBack
  <2>. QED  BY <1>5, <2>5, SharingAgain
<1>8. CASE m.src # "own" /\ ~gone
  <2>1. UNCHANGED <<cache, pool>>
    BY <1>4, <1>8
  <2>2. StillShared(m)
    <3>1. CASE m.src # "shared" \/ sharedCached[h] = s
      BY <1>2, <3>1, SizeAssumption DEF StillShared, IsShared
    <3>2. CASE m.src = "shared" /\ copies[s] # 1
      <4>1. m \in Pins(s)
        BY <1>1, <3>2 DEF Pins
      <4>2. PICK n \in Pins(s) : n # m
        BY <1>2, <3>2, <4>1, LastReader
      <4>3. n \in Copying /\ n.slot = s /\ n.src \in {"shared", "cache"}
        BY <4>2 DEF Pins
      <4>. DEFINE d == <<"shared", H(n.file), s>>
                  e == <<"cache", H(n.file), s>>
                  c == <<"shared", h, s>>
      <4>4. c \in SharedHolds /\ (n.src = "shared" => d \in SharedHolds)
            /\ (n.src = "cache" => e \in CacheHolds)
        BY <1>2, <3>2, <4>3, ReadersOf
      <4>5. /\ c \in Holders /\ (n.src = "shared" => d \in Holders)
            /\ (n.src = "cache" => e \in Holders)
        BY <4>4, HoldersAre
      <4>6. n.src = "shared" /\ H(n.file) = h
        BY <4>3, <4>5 DEF Sheltered, Sound
      <4>. QED  BY <4>2, <4>3, <4>6 DEF StillShared
    <3>. QED  BY <1>8, <3>1, <3>2
  <2>3. Holders' = Holders
    BY <1>1, <1>2, <1>3, <1>8, <2>1, <2>2, CopyLeaves, ShareLeaves, CopiesHold, HoldersAre
  <2>4. Pinned'
    BY <1>1, <2>1 DEF Pinned, H
  <2>. QED  BY <1>5, <2>1, <2>3, <2>4, ShelterKept, SharingAgain
<1>. QED  BY <1>6, <1>7, <1>8

LEMMA StoreFreed ==
  ASSUME Settled, NEW op \in storeOps, storeOps' = storeOps \ {op}, UNCHANGED <<reads, preReads>>,
         Release(op.slot), Copying' = Copying, UNCHANGED <<retained, copies>>
  PROVE  Sharing'
<1>. USE DEF Settled
<1>. DEFINE c == <<"store", op.file, op.slot>>
<1>1. c \in IoHolds /\ c[3] = op.slot /\ IoHolds' = IoHolds \ {c}
  BY IoLeaves DEF IoHolds
<1>. HIDE DEF c
<1>. QED  BY <1>1, IoFreed, SharingAgain

LEMMA CudaSharing ==
  ASSUME Settled,
         \/ \E b \in batches : BatchDone(b)
         \/ \E w \in settling : Settle(w)
         \/ \E op \in storeOps : OnStoreCopyDone(op) \/ OnStoreCopyFailed(op)
  PROVE  Sharing'
<1>. USE DEF Settled
<1>1. ASSUME NEW b \in batches, BatchDone(b) PROVE Sharing'
  <2>1. Copying' = Copying /\ UNCHANGED <<mode, reads, preReads, storeOps, retained, pool, copies>>
    BY <1>1, BatchMoves DEF BatchDone, At
  <2>. QED  BY <2>1, SharingKept DEF Sharing, Alive
<1>2. ASSUME NEW w \in settling, Settle(w) PROVE Sharing'
  BY <1>2, SettleSharing
<1>3. ASSUME NEW op \in storeOps, OnStoreCopyDone(op) PROVE Sharing'
  <2>1. Copying' = Copying /\ UNCHANGED <<reads, preReads, retained, free, copies>>
    BY <1>3, CopyingKept DEF OnStoreCopyDone
  <2>2. IoHolds' = IoHolds
    <3>. DEFINE x == [op EXCEPT !.stage = "write"]
    <3>1. x.file = op.file /\ x.slot = op.slot
      BY DEF TypeOK, TransferTypes, StoreOp
    <3>2. storeOps' = (storeOps \ {op}) \cup {x}
      BY <1>3 DEF OnStoreCopyDone
    <3>. HIDE DEF x
    <3>3. \A y \in storeOps : y.file = op.file => y = op
      BY DEF Tables, Distinct
    <3>4. \A c : c \in IoHolds' <=> c \in IoHolds
      BY <2>1, <3>1, <3>2, <3>3 DEF IoHolds
    <3>. QED  BY <3>4
  <2>. DEFINE c == <<"store", op.file, op.slot>>
  <2>3. c \in IoHolds /\ c[3] = op.slot /\ ~Filled(c)
    BY DEF IoHolds, Filled
  <2>. HIDE DEF c
  <2>4. Holders' = Holders /\ c \in Holders /\ Pinned'
    BY <2>1, <2>2, <2>3, CopiesHold, HoldersAre
  <2>5. \A t \in Slots : t # op.slot => content'[t] = content[t]
    BY <1>3 DEF OnStoreCopyDone, TypeOK, PoolTypes
  <2>6. Sheltered'
    BY <2>1, <2>3, <2>4, <2>5 DEF Sheltered, Sound
  <2>. QED  BY <2>1, <2>4, <2>6, PinsKept, SharingAgain DEF Exact
<1>4. ASSUME NEW op \in storeOps, OnStoreCopyFailed(op) PROVE Sharing'
  <2>1. /\ Copying' = Copying /\ UNCHANGED <<retained, copies>> /\ Release(op.slot)
        /\ storeOps' = storeOps \ {op} /\ UNCHANGED <<reads, preReads>>
    BY <1>4, CopyingKept DEF OnStoreCopyFailed, StoreFileFails
  <2>. QED  BY <2>1, StoreFreed
<1>. QED  BY <1>1, <1>2, <1>3, <1>4

LEMMA PollSharing ==
  ASSUME Settled,
         \/ \E op \in storeOps : OnWriteComplete(op) \/ OnWriteFails(op)
         \/ \E o \in opens : OnOpenComplete(o) \/ OnOpenMiss(o)
         \/ \E o \in preOpens : OnPreOpenComplete(o) \/ OnPreOpenMiss(o)
         \/ \E r \in reads : OnReadComplete(r) \/ OnReadFails(r)
         \/ \E r \in preReads : OnSharedReadFails(r)
  PROVE  Sharing'
<1>. USE DEF Settled
<1>1. ASSUME NEW op \in storeOps, OnWriteComplete(op) PROVE Sharing'
  <2>1. /\ Copying' = Copying /\ UNCHANGED <<reads, preReads, sharedCached, copies>>
        /\ storeOps' = storeOps \ {op} /\ ReleaseOrCache(H(op.file), op.slot)
    BY <1>1, CopyingKept DEF OnWriteComplete
  <2>. DEFINE c == <<"store", op.file, op.slot>>
  <2>2. IoHolds' = IoHolds \ {c}
    BY <2>1, IoLeaves
  <2>3. c \in IoHolds /\ c[3] = op.slot /\ H(op.file) \in Hashes
    BY FileFacts DEF IoHolds, TypeOK, TransferTypes, StoreOp
  <2>. HIDE DEF c
  <2>4. c \in Others /\ Others' = Others \ {c}
    BY <2>1, <2>2, <2>3, CopiesHold, Tagged DEF Others
  <2>5. Sheltered' /\ Pinned'
    BY <2>1, <2>3, <2>4, GiveBack
  <2>. QED  BY <2>1, <2>5, PinsKept, SharingAgain DEF Exact
<1>2. ASSUME NEW op \in storeOps, OnWriteFails(op) PROVE Sharing'
  <2>1. /\ Copying' = Copying /\ UNCHANGED <<retained, copies>> /\ Release(op.slot)
        /\ storeOps' = storeOps \ {op} /\ UNCHANGED <<reads, preReads>>
    BY <1>2, CopyingKept DEF OnWriteFails, StoreFileFails
  <2>. QED  BY <2>1, StoreFreed
<1>3. ASSUME NEW o, \/ OnOpenComplete(o) \/ OnOpenMiss(o)
                    \/ OnPreOpenComplete(o) \/ OnPreOpenMiss(o)
      PROVE  Sharing'
  <2>1. /\ Copying' = Copying
        /\ UNCHANGED <<mode, reads, preReads, storeOps, retained, pool, copies>>
    BY <1>3, CopyingKept DEF OnOpenComplete, OnOpenMiss, OnPreOpenComplete, OnPreOpenMiss, At
  <2>. QED  BY <2>1, SharingKept DEF Sharing, Alive
<1>4. ASSUME NEW r \in reads, OnReadComplete(r) PROVE Sharing'
  <2>. DEFINE c == <<"read", r.file, r.slot>>
              d == <<"copy", r.file, r.slot>>
              m == [file |-> r.file, slot |-> r.slot, src |-> "own"]
  <2>1. /\ reads' = reads \ {r} /\ UNCHANGED <<preReads, storeOps, retained, free, copies>>
        /\ content' = [content EXCEPT ![r.slot] = H(r.file)]
        /\ Copying' = Copying \cup {m}
    BY <1>4 DEF OnReadComplete, Copying
  <2>2. m.src = "own" /\ m.file = r.file /\ m.slot = r.slot
    OBVIOUS
  <2>. HIDE DEF m
  <2>3. c \in IoHolds /\ IoHolds' = IoHolds \ {c}
    BY <2>1, IoLeaves DEF IoHolds
  <2>4. CopyHolds' = CopyHolds \cup {d} /\ SharedHolds' = SharedHolds
    <3>1. \A e : e \in CopyHolds' <=> e \in CopyHolds \cup {d}
      BY <2>1, <2>2 DEF CopyHolds
    <3>2. \A e : e \in SharedHolds' <=> e \in SharedHolds
      BY <2>1, <2>2 DEF SharedHolds, SharedHashes, IsShared, H
    <3>. QED  BY <3>1, <3>2
  <2>5. c[3] = r.slot /\ d[3] = r.slot /\ d[1] = "copy" /\ Block(d) = H(r.file)
    BY DEF Block
  <2>6. Pinned'
    BY <2>1, <2>2 DEF Pinned, H
  <2>7. Exact'
    BY <2>1, <2>2, FS_AddElement, PinsKept DEF Exact
  <2>. HIDE DEF c, d
  <2>8. CopyHolds' \cup SharedHolds' = CopyHolds \cup SharedHolds \cup {d}
    BY <2>4
  <2>9. Sheltered'
    BY <2>1, <2>3, <2>5, <2>8, IoHandsOver
  <2>. QED  BY <2>6, <2>7, <2>9, SharingAgain
<1>5. ASSUME NEW r \in reads, OnReadFails(r) PROVE Sharing'
  <2>. DEFINE c == <<"read", r.file, r.slot>>
  <2>1. /\ Copying' = Copying /\ UNCHANGED <<retained, copies>> /\ Release(r.slot)
        /\ reads' = reads \ {r} /\ UNCHANGED <<preReads, storeOps>>
    BY <1>5, CopyingKept DEF OnReadFails
  <2>2. c \in IoHolds /\ c[3] = r.slot /\ IoHolds' = IoHolds \ {c}
    BY <2>1, IoLeaves DEF IoHolds
  <2>. HIDE DEF c
  <2>. QED  BY <2>1, <2>2, IoFreed, SharingAgain
<1>6. ASSUME NEW r \in preReads, OnSharedReadFails(r) PROVE Sharing'
  <2>. DEFINE c == <<"preload", r.hash, r.slot>>
  <2>1. /\ Copying' = Copying /\ UNCHANGED <<retained, copies>> /\ Release(r.slot)
        /\ preReads' = preReads \ {r} /\ UNCHANGED <<reads, storeOps>>
    BY <1>6, CopyingKept DEF OnSharedReadFails
  <2>2. c \in IoHolds /\ c[3] = r.slot /\ IoHolds' = IoHolds \ {c}
    BY <2>1, IoLeaves DEF IoHolds
  <2>. HIDE DEF c
  <2>. QED  BY <2>1, <2>2, IoFreed, SharingAgain
<1>. QED  BY <1>1, <1>2, <1>3, <1>4, <1>5, <1>6


\* The loads parked on a read get one copy each.
CopyFor(good, s) == {[file |-> f, slot |-> s, src |-> "shared"] : f \in good}

LEMMA OneCopyEach ==
  ASSUME NEW good \in SUBSET Files, NEW s, NEW new, new = CopyFor(good, s)
  PROVE  /\ IsFiniteSet(new) /\ Cardinality(new) = Cardinality(good)
         /\ \A m \in new : m.file \in good /\ m.slot = s /\ m.src = "shared"
         /\ new # {} <=> good # {}
<1>. USE DEF CopyFor
<1>. DEFINE g == [f \in good |-> [file |-> f, slot |-> s, src |-> "shared"]]
<1>1. \A m \in new : m.file \in good /\ m.slot = s /\ m.src = "shared" /\ m = g[m.file]
  OBVIOUS
<1>2. \A f \in good : g[f] \in new /\ g[f].file = f
  OBVIOUS
<1>3. g \in [good -> new]
  BY <1>2
<1>4. IsFiniteSet(good)
  BY FinitenessAssumption, FS_Subset
<1>. HIDE DEF g
<1>5. g \in Bijection(good, new)
  <2>1. \A a, b \in good : g[a] = g[b] => a = b
    BY <1>2
  <2>2. \A m \in new : \E f \in good : g[f] = m
    BY <1>1
  <2>. QED  BY <1>3, <2>1, <2>2, Fun_IsBij
<1>6. ExistsBijection(good, new)
  BY <1>5 DEF ExistsBijection
<1>7. IsFiniteSet(new) /\ Cardinality(new) = Cardinality(good)
  BY <1>4, <1>6, FS_Bijection
<1>8. new # {} <=> good # {}
  BY <1>1, <1>2
<1>. QED  BY <1>1, <1>7, <1>8

LEMMA SharedReadSharing ==
  ASSUME Settled, ParkedProv, NEW r \in preReads, OnSharedReadComplete(r)
  PROVE  Sharing'
<1>. USE DEF Settled
<1>1. PICK h \in Hashes, s \in Slots : h = r.hash /\ s = r.slot
  BY DEF TypeOK, PreloadTypes, PreRead
<1>2. PICK good, new :
        /\ good \in SUBSET waiters[h]
        /\ new = CopyFor(good, s)
        /\ preReads' = preReads \ {r} /\ UNCHANGED <<reads, storeOps, settling, batches>>
        /\ copyReady' = copyReady \cup new
        /\ copies' = [copies EXCEPT ![s] = Cardinality(good)]
        /\ \/ good = {} /\ UNCHANGED sharedCached /\ ReleaseOrCache(h, s)
           \/ /\ \/ good # {} /\ UNCHANGED sharedCached
                 \/ sharedCached' = [sharedCached EXCEPT ![h] = s]
              /\ content' = [content EXCEPT ![s] = h] /\ UNCHANGED <<cache, free>>
  <2>. DEFINE keep == mode = "run" /\ RefAfter({Req(f) : f \in waiters[r.hash]}, r.hash) > 0
  <2>1. PICK bad \in SUBSET waiters[r.hash] :
        /\ preReads' = preReads \ {r} /\ UNCHANGED <<reads, storeOps, settling, batches>>
        /\ copyReady' = copyReady \cup CopyFor(waiters[r.hash] \ bad, r.slot)
        /\ copies' = [copies EXCEPT ![r.slot] = Cardinality(waiters[r.hash] \ bad)]
        /\ sharedCached' = IF keep THEN [sharedCached EXCEPT ![r.hash] = r.slot] ELSE sharedCached
        /\ IF ~keep /\ waiters[r.hash] \ bad = {} THEN ReleaseOrCache(r.hash, r.slot)
           ELSE content' = [content EXCEPT ![r.slot] = r.hash] /\ UNCHANGED <<cache, free>>
    BY DEF OnSharedReadComplete, CopyFor
  <2>2. PICK good : good = waiters[r.hash] \ bad
    OBVIOUS
  <2>3. PICK new : new = CopyFor(good, r.slot)
    OBVIOUS
  <2>4. good \in SUBSET waiters[h]
    BY <1>1, <2>2
  <2>. HIDE DEF keep
  <2>5. /\ preReads' = preReads \ {r} /\ UNCHANGED <<reads, storeOps, settling, batches>>
        /\ copyReady' = copyReady \cup new
        /\ copies' = [copies EXCEPT ![s] = Cardinality(good)]
    BY <1>1, <2>1, <2>2, <2>3
  <2>6. \/ good = {} /\ UNCHANGED sharedCached /\ ReleaseOrCache(h, s)
        \/ /\ \/ good # {} /\ UNCHANGED sharedCached
              \/ sharedCached' = [sharedCached EXCEPT ![h] = s]
           /\ content' = [content EXCEPT ![s] = h] /\ UNCHANGED <<cache, free>>
    BY <1>1, <2>1, <2>2
  <2>7. new = CopyFor(good, s)
    BY <1>1, <2>3
  <2>. QED  BY <2>4, <2>5, <2>6, <2>7
<1>. DEFINE c == <<"preload", h, s>>
            d == <<"shared", h, s>>
<1>3. c \in IoHolds /\ c[3] = s /\ IoHolds' = IoHolds \ {c} /\ c \in Holders
  BY <1>1, <1>2, IoLeaves, HoldersAre DEF IoHolds
<1>4. d[3] = s /\ d[1] = "shared" /\ Block(d) = h
  BY DEF Block
<1>5. ~IsShared(h)
  <2>1. Entries(preReads, h) # 0
    BY <1>1, EntriesType DEF Total
  <2>2. Numbers(h) /\ Book(h)
    BY AreNumbers DEF Books
  <2>3. preInflight[h] > 0
    BY <2>1, <2>2 DEF Book, Numbers, UnderWay
  <2>. QED  BY <2>2, <2>3, BookOfRead
<1>6. Pins(s) = {}
  <2>1. SUFFICES ASSUME NEW m \in Pins(s) PROVE FALSE
    OBVIOUS
  <2>. DEFINE a == <<"shared", H(m.file), s>>
              b == <<"cache", H(m.file), s>>
  <2>2. m \in Copying /\ m.slot = s /\ (m.src = "shared" \/ m.src = "cache")
    BY <2>1 DEF Pins
  <2>3. a \in SharedHolds \/ b \in CacheHolds
    BY <2>2, ReadersOf
  <2>4. a[3] = s /\ b[3] = s /\ a # c /\ b # c
    OBVIOUS
  <2>. HIDE DEF a, b, c
  <2>. QED  BY <1>3, <2>3, <2>4, HoldersAre DEF Sheltered, Sound
<1>7. /\ IsFiniteSet(new) /\ Cardinality(new) = Cardinality(good)
      /\ \A m \in new : m.file \in good /\ m.slot = s /\ m.src = "shared" /\ H(m.file) = h
      /\ new # {} <=> good # {}
  <2>1. good \in SUBSET Files /\ \A f \in good : H(f) = h
    BY <1>2 DEF TypeOK, PreloadTypes, ParkedProv
  <2>2. /\ IsFiniteSet(new) /\ Cardinality(new) = Cardinality(good)
        /\ \A m \in new : m.file \in good /\ m.slot = s /\ m.src = "shared"
        /\ new # {} <=> good # {}
    <3>1. good \in SUBSET Files /\ new = CopyFor(good, s)
      BY <1>2, <2>1
    <3>. QED  BY ONLY <3>1, OneCopyEach
  <2>. QED  BY <2>1, <2>2
<1>8. Copying' = Copying \cup new
  BY <1>2 DEF Copying
<1>. HIDE DEF c, d
<1>9. Exact'
  <2>1. IsFiniteSet(Copying')
    BY <1>7, <1>8, FS_Union DEF Exact
  <2>2. ASSUME NEW t \in Slots PROVE copies'[t] = Cardinality(Pins(t)')
    <3>1. CASE t # s
      <4>1. Pins(t)' = Pins(t)
        BY <1>7, <1>8, <3>1 DEF Pins
      <4>2. copies'[t] = copies[t]
        BY <1>2, <3>1 DEF TypeOK, SharedTypes
      <4>. QED  BY <4>1, <4>2 DEF Exact
    <3>2. CASE t = s
      <4>1. Pins(s)' = new
        BY <1>6, <1>7, <1>8 DEF Pins
      <4>2. copies'[s] = Cardinality(good)
        BY <1>2 DEF TypeOK, SharedTypes
      <4>. QED  BY <1>7, <3>2, <4>1, <4>2
    <3>. QED  BY <3>1, <3>2
  <2>. QED  BY <2>1, <2>2 DEF Exact
<1>10. CopyHolds' = CopyHolds
  <2>1. \A e : e \in CopyHolds' <=> e \in CopyHolds
    BY <1>7, <1>8 DEF CopyHolds
  <2>. QED  BY <2>1
<1>11. \A e : e \in SharedHolds <=>
        \/ \E g \in Hashes : sharedCached[g] # NoSlot /\ e = <<"shared", g, sharedCached[g]>>
        \/ \E m \in Copying : m.src = "shared" /\ e = <<"shared", H(m.file), m.slot>>
  BY DEF SharedHolds, SharedHashes, IsShared
<1>12. \A e : e \in SharedHolds' <=>
        \/ \E g \in Hashes : sharedCached'[g] # NoSlot /\ e = <<"shared", g, sharedCached'[g]>>
        \/ \E m \in Copying' : m.src = "shared" /\ e = <<"shared", H(m.file), m.slot>>
  BY DEF SharedHolds, SharedHashes, IsShared, H
<1>13. CASE good = {} /\ UNCHANGED sharedCached /\ ReleaseOrCache(h, s)
  <2>1. Copying' = Copying /\ UNCHANGED sharedCached /\ ReleaseOrCache(h, s)
    BY <1>7, <1>8, <1>13
  <2>2. SharedHolds' = SharedHolds
    BY <2>1, CopiesHold
  <2>3. c \in Others /\ Others' = Others \ {c}
    BY <1>3, <1>10, <2>2, Tagged DEF Others
  <2>4. Sheltered' /\ Pinned'
    BY <1>3, <2>1, <2>3, GiveBack
  <2>. QED  BY <1>9, <2>4, SharingAgain
<1>14. CASE /\ \/ good # {} /\ UNCHANGED sharedCached
               \/ sharedCached' = [sharedCached EXCEPT ![h] = s]
            /\ content' = [content EXCEPT ![s] = h] /\ UNCHANGED <<cache, free>>
  <2>1. content' = [content EXCEPT ![s] = h] /\ UNCHANGED <<cache, free>>
    BY <1>14
  <2>2. SharedHolds' = SharedHolds \cup {d}
    <3>0. s # NoSlot /\ sharedCached[h] = NoSlot
      BY <1>5, SizeAssumption DEF IsShared
    <3>1. \A g \in Hashes : g # h => sharedCached'[g] = sharedCached[g]
      BY <1>14 DEF TypeOK, SharedTypes
    <3>2. /\ sharedCached'[h] = s \/ sharedCached'[h] = NoSlot
          /\ sharedCached'[h] = s \/ good # {}
      BY <1>14, <3>0 DEF TypeOK, SharedTypes
    <3>3. \A e : e \in SharedHolds' => e \in SharedHolds \cup {d}
      BY <1>7, <1>8, <1>11, <1>12, <3>0, <3>1, <3>2 DEF d
    <3>4. d \in SharedHolds'
      <4>1. CASE sharedCached'[h] = s
        BY <1>12, <3>0, <3>2, <4>1 DEF d
      <4>2. CASE good # {}
        <5>1. PICK m \in new : TRUE
          BY <1>7, <4>2
        <5>. QED  BY <1>7, <1>8, <1>12, <5>1 DEF d
      <4>. QED  BY <3>2, <4>1, <4>2
    <3>5. \A e : e \in SharedHolds => e \in SharedHolds'
      BY <1>8, <1>11, <1>12, <3>0, <3>1
    <3>. QED  BY <3>3, <3>4, <3>5
  <2>3. CopyHolds' \cup SharedHolds' = CopyHolds \cup SharedHolds \cup {d}
    BY <1>10, <2>2
  <2>4. content' = [content EXCEPT ![c[3]] = Block(d)] /\ d[3] = c[3] /\ d[1] \in {"copy", "shared"}
    BY <1>3, <1>4, <2>1
  <2>5. Sheltered'
    BY <1>3, <2>1, <2>3, <2>4, IoHandsOver
  <2>6. Pinned'
    BY <1>7, <1>8, <2>1 DEF Pinned, H
  <2>. QED  BY <1>9, <2>5, <2>6, SharingAgain
<1>. QED  BY <1>2, <1>13, <1>14

LEMMA ReadySharing ==
  ASSUME Settled, NEW f \in readyLoad, NEW s \in Slots, SubmitRead(f, s) \/ SubmitReadRefused(f, s)
  PROVE  Sharing'
<1>. USE DEF Settled
<1>1. CASE SubmitRead(f, s)
  <2>. DEFINE x == [file |-> f, slot |-> s]
              d == <<"read", f, s>>
  <2>1. /\ ReserveForeground(s, {}) /\ Copying' = Copying /\ content' = Forget({s})
        /\ reads' = reads \cup {x} /\ UNCHANGED <<preReads, storeOps, copies>>
    BY <1>1, CopyingKept DEF SubmitRead
  <2>2. x.file = f /\ x.slot = s /\ d[3] = s /\ ~Filled(d)
    BY DEF Filled
  <2>. HIDE DEF x
  <2>3. IoHolds' = IoHolds \cup {d}
    BY <2>1, <2>2, IoJoins
  <2>. HIDE DEF d
  <2>. QED  BY <2>1, <2>2, <2>3, ReserveInto, SharingAgain
<1>2. CASE SubmitReadRefused(f, s)
  <2>1. /\ ReserveForeground(s, {s}) /\ Copying' = Copying /\ content' = Forget({s})
        /\ UNCHANGED <<copies, reads, preReads, storeOps>>
    BY <1>2, CopyingKept DEF SubmitReadRefused
  <2>. QED  BY <2>1, ReserveReturned, SharingAgain
<1>. QED  BY <1>1, <1>2

\* Copies that read the slot of an object read that object.
LEMMA SharedWith ==
  ASSUME TypeOK, Sheltered, Pinned, NEW h, NEW s \in Slots, <<"shared", h, s>> \in SharedHolds,
         NEW m \in Pins(s)
  PROVE  m \in Copying /\ m.slot = s /\ m.src = "shared" /\ H(m.file) = h
<1>. DEFINE c == <<"shared", h, s>>
            d == <<"shared", H(m.file), s>>
            e == <<"cache", H(m.file), s>>
<1>1. m \in Copying /\ m.slot = s /\ (m.src = "shared" \/ m.src = "cache")
  BY DEF Pins
<1>2. (m.src = "shared" => d \in SharedHolds) /\ (m.src = "cache" => e \in CacheHolds)
  BY <1>1, ReadersOf
<1>3. c \in Holders /\ (d \in SharedHolds => d \in Holders) /\ (e \in CacheHolds => e \in Holders)
  BY HoldersAre
<1>. QED  BY <1>1, <1>2, <1>3 DEF Sheltered, Sound

LEMMA SettledKept ==
  ASSUME Settled, Holders' = Holders, Copying' = Copying, UNCHANGED <<cache, pool, copies>>
  PROVE  Sharing'
<1>. USE DEF Settled
<1>. QED  BY ShelterKept, CopiesHold, PinsKept, SharingAgain DEF Exact

\* The last claim on an object uncaches it and, if nothing reads it, hands its
\* slot on.
LEMMA DecrefSharing ==
  ASSUME Settled, NEW q, NEW h \in Hashes, SharedDecref(q, h), Copying' = Copying,
         UNCHANGED <<copies, reads, preReads, storeOps>>
  PROVE  Sharing'
<1>. USE DEF Settled
<1>1. CASE UNCHANGED <<retained, pool>>
  <2>1. Holders' = Holders
    BY <1>1, CopiesHold, HoldersAre
  <2>. QED  BY <1>1, <2>1, SettledKept
<1>2. CASE ~(UNCHANGED <<retained, pool>>)
  <2>1. PICK s \in Slots :
          /\ s = sharedCached[h] /\ h \in SharedHashes
          /\ sharedCached' = [sharedCached EXCEPT ![h] = NoSlot]
          /\ IF copies[s] = 0 THEN ReleaseOrCache(h, s) ELSE UNCHANGED <<cache, pool>>
    BY <1>2 DEF SharedDecref, SharedHashes, IsShared, TypeOK, SharedTypes
  <2>. DEFINE c == <<"shared", h, s>>
  <2>2. c \in SharedHolds /\ c[3] = s /\ CopyHolds' = CopyHolds /\ IoHolds' = IoHolds
    BY <2>1, CopiesHold DEF SharedHolds
  <2>3. CASE copies[s] = 0
    <3>1. \A m \in Copying : m.src = "shared" => m.slot # s
      BY <2>3, PinsCounted DEF Pins
    <3>2. SharedHolds' = SharedHolds \ {c}
      BY <2>1, <3>1, UncachedObject
    <3>. HIDE DEF c
    <3>3. c \in Others /\ Others' = Others \ {c}
      <4>1. c \notin IoHolds /\ c \notin CopyHolds
        BY <2>2, Tagged
      <4>. QED  BY <2>2, <3>2, <4>1 DEF Others
    <3>4. Sheltered' /\ Pinned'
      BY <2>1, <2>2, <2>3, <3>3, GiveBack
    <3>. QED  BY <3>4, PinsKept, SharingAgain DEF Exact
  <2>4. CASE copies[s] # 0
    <3>1. PICK m \in Pins(s) : TRUE
      BY <2>4, PinsCounted
    <3>2. m \in Copying /\ m.slot = s /\ m.src = "shared" /\ H(m.file) = h
      BY <2>2, <3>1, SharedWith
    <3>3. SharedHolds' = SharedHolds
      BY <2>1, <3>2, UncachedObject
    <3>4. UNCHANGED <<cache, pool>>
      BY <2>1, <2>4
    <3>5. Holders' = Holders
      BY <2>2, <3>3, <3>4, CopiesHold, HoldersAre
    <3>. QED  BY <3>4, <3>5, SettledKept
  <2>. QED  BY <2>3, <2>4
<1>. QED  BY <1>1, <1>2

\* A copy of a retained block is queued: it is counted, and keeps the slot.
LEMMA CopyJoins ==
  ASSUME Settled, NEW m, m.slot \in Slots, m.src \in {"shared", "cache"}, m \notin Copying,
         Copying' = Copying \cup {m}, copies' = [copies EXCEPT ![m.slot] = @ + 1],
         m.src = "cache" => cache[H(m.file)] = m.slot,
         SharedHolds' = SharedHolds, UNCHANGED <<reads, preReads, storeOps, pool, cache>>
  PROVE  Sharing'
<1>. USE DEF Settled
<1>1. Exact'
  BY PinIn
<1>2. CopyHolds' = CopyHolds
  <2>1. \A e : e \in CopyHolds' <=> e \in CopyHolds
    BY DEF CopyHolds
  <2>. QED  BY <2>1
<1>3. Holders' = Holders
  BY <1>2, CopiesHold, HoldersAre
<1>4. Pinned'
  BY DEF Pinned, H
<1>. QED  BY <1>1, <1>3, <1>4, ShelterKept, SharingAgain

LEMMA LoadScheduleSharing ==
  ASSUME Settled, Sharing, Ledger, NEW k \in 1..Len(order),
         \/ ScheduleCacheHit(k) \/ SharedClaimFromCache(k) \/ SharedClaimFails(k)
         \/ SchedulePreloadInflight(k) \/ PromotePendingToSharedRead(k)
         \/ SubmitOpenRead(k)
  PROVE  Sharing'
<1>. USE DEF Settled
<1>0. PICK f \in Files, h \in Hashes :
        f = NextFile(order[k]) /\ h = H(f) /\ \A n \in Copying : n.file # f
  <2>1. LoadAt(k)
    BY DEF ScheduleCacheHit, SharedClaimFromCache, SharedClaimFails, SchedulePreloadInflight,
           PromotePendingToSharedRead, SubmitOpenRead
  <2>2. NextFile(order[k]) \in Files /\ NextFile(order[k]) \notin live
        /\ H(NextFile(order[k])) \in Hashes
    BY <2>1, TurnNew, TurnFile
  <2>3. NextFile(order[k]) \notin Copied
    BY <2>2 DEF Tables, Seated
  <2>. QED  BY <2>2, <2>3 DEF Copied, FilesIn
<1>1. CASE ScheduleCacheHit(k)
  <2>0. UNCHANGED <<reads, preReads, storeOps, retained, pool, settling, batches>>
    BY <1>1 DEF ScheduleCacheHit
  <2>1. PICK s \in Slots : s = cache[h]
    BY <1>0, <1>1 DEF ScheduleCacheHit, Resident, TypeOK, PoolTypes
  <2>. DEFINE m == [file |-> f, slot |-> s, src |-> "cache"]
  <2>2. CASE copies' = [copies EXCEPT ![s] = @ + 1] /\ copyReady' = copyReady \cup {m}
    <3>1. Copying' = Copying \cup {m} /\ UNCHANGED sharedCached
      BY <2>0, <2>2 DEF Copying
    <3>2. m.file = f /\ m.slot = s /\ m.src = "cache"
      OBVIOUS
    <3>. HIDE DEF m
    <3>3. SharedHolds' = SharedHolds
      <4>1. \A e : e \in SharedHolds' <=> e \in SharedHolds
        BY <3>1, <3>2 DEF SharedHolds, SharedHashes, IsShared, H
      <4>. QED  BY <4>1
    <3>. QED  BY <1>0, <2>0, <2>1, <2>2, <3>1, <3>2, <3>3, CopyJoins
  <2>3. CASE UNCHANGED <<copies, copyReady>>
    <3>1. Copying' = Copying
      BY <2>0, <2>3, CopyingKept
    <3>2. Holders' = Holders
      BY <2>0, <3>1, CopiesHold, HoldersAre
    <3>. QED  BY <2>0, <2>3, <3>1, <3>2, SettledKept
  <2>. QED  BY <1>0, <1>1, <2>1, <2>2, <2>3 DEF ScheduleCacheHit
<1>2. CASE SharedClaimFromCache(k)
  <2>1. PICK s \in Slots : s = sharedCached[h] /\ s # NoSlot
    BY <1>0, <1>2 DEF SharedClaimFromCache, IsShared, TypeOK, SharedTypes
  <2>. DEFINE m == [file |-> f, slot |-> s, src |-> "shared"]
  <2>2. /\ copies' = [copies EXCEPT ![s] = @ + 1] /\ copyReady' = copyReady \cup {m}
        /\ sharedCached' = [sharedCached EXCEPT ![h] = NoSlot] \/ UNCHANGED sharedCached
        /\ UNCHANGED <<reads, preReads, storeOps, pool, cache, settling, batches>>
    BY <1>0, <1>2, <2>1 DEF SharedClaimFromCache
  <2>3. Copying' = Copying \cup {m} /\ m.file = f /\ m.slot = s /\ m.src = "shared"
    BY <2>2 DEF Copying
  <2>. HIDE DEF m
  <2>4. SharedHolds' = SharedHolds
    <3>1. \A e : e \in SharedHolds <=>
            \/ \E g \in Hashes : sharedCached[g] # NoSlot /\ e = <<"shared", g, sharedCached[g]>>
            \/ \E n \in Copying : n.src = "shared" /\ e = <<"shared", H(n.file), n.slot>>
      BY DEF SharedHolds, SharedHashes, IsShared
    <3>2. \A e : e \in SharedHolds' <=>
            \/ \E g \in Hashes : sharedCached'[g] # NoSlot /\ e = <<"shared", g, sharedCached'[g]>>
            \/ \E n \in Copying' : n.src = "shared" /\ e = <<"shared", H(n.file), n.slot>>
      BY DEF SharedHolds, SharedHashes, IsShared, H
    <3>3. /\ \A g \in Hashes : g # h => sharedCached'[g] = sharedCached[g]
          /\ sharedCached'[h] = s \/ sharedCached'[h] = NoSlot
      BY <2>1, <2>2 DEF TypeOK, SharedTypes
    <3>4. \A e : e \in SharedHolds' <=> e \in SharedHolds
      BY <1>0, <2>1, <2>3, <3>1, <3>2, <3>3
    <3>. QED  BY <3>4
  <2>. QED  BY <1>0, <2>1, <2>2, <2>3, <2>4, CopyJoins
<1>3. CASE SharedClaimFails(k)
  <2>1. /\ SharedDecref(Req(f), h) /\ Copying' = Copying
        /\ UNCHANGED <<copies, reads, preReads, storeOps>>
    BY <1>0, <1>3, CopyingKept DEF SharedClaimFails
  <2>. QED  BY <2>1, DecrefSharing
<1>4. CASE \/ SchedulePreloadInflight(k) \/ PromotePendingToSharedRead(k) \/ SubmitOpenRead(k)
  <2>1. /\ Copying' = Copying
        /\ UNCHANGED <<mode, reads, preReads, storeOps, retained, pool, copies>>
    BY <1>4, CopyingKept DEF SchedulePreloadInflight, PromotePendingToSharedRead, SubmitOpenRead,
       LoadAt, At
  <2>. QED  BY <2>1, SharingKept DEF Alive
<1>. QED  BY <1>1, <1>2, <1>3, <1>4

LEMMA StoreScheduleSharing ==
  ASSUME Settled, NEW k \in 1..Len(order), NEW s \in Slots,
         ScheduleStoreCopy(k, s) \/ ScheduleStoreCopyFails(k, s)
  PROVE  Sharing'
<1>. USE DEF Settled
<1>1. CASE ScheduleStoreCopy(k, s)
  <2>1. PICK f : f = NextFile(order[k])
    OBVIOUS
  <2>. DEFINE x == [file |-> f, slot |-> s, stage |-> "copy"]
              d == <<"store", f, s>>
  <2>2. /\ ReserveForeground(s, {}) /\ Copying' = Copying /\ content' = Forget({s})
        /\ storeOps' = storeOps \cup {x} /\ UNCHANGED <<reads, preReads, copies>>
    BY <1>1, <2>1, CopyingKept DEF ScheduleStoreCopy
  <2>3. x.file = f /\ x.slot = s /\ d[3] = s /\ ~Filled(d)
    BY DEF Filled
  <2>. HIDE DEF x
  <2>4. IoHolds' = IoHolds \cup {d}
    BY <2>2, <2>3, IoJoins
  <2>. HIDE DEF d
  <2>. QED  BY <2>2, <2>3, <2>4, ReserveInto, SharingAgain
<1>2. CASE ScheduleStoreCopyFails(k, s)
  <2>1. /\ ReserveForeground(s, {s}) /\ Copying' = Copying /\ content' = Forget({s})
        /\ UNCHANGED <<copies, reads, preReads, storeOps>>
    BY <1>2, CopyingKept DEF ScheduleStoreCopyFails
  <2>. QED  BY <2>1, ReserveReturned, SharingAgain
<1>. QED  BY <1>1, <1>2

LEMMA SpeculativeSharing ==
  ASSUME Settled, Sharing,
         \/ \E s \in Slots : SubmitPreloadRead(s) \/ SubmitPreloadReadRefused(s)
         \/ YieldOpenFd \/ DropCancelled \/ DeferOnWrite \/ OpenSpeculative
  PROVE  Sharing'
<1>. USE DEF Settled
<1>1. ASSUME NEW s \in Slots, SubmitPreloadRead(s) PROVE Sharing'
  <2>1. PICK h : h = Head(preReady)
    OBVIOUS
  <2>. DEFINE x == [hash |-> h, slot |-> s]
              d == <<"preload", h, s>>
  <2>2. /\ ReserveForeground(s, {}) /\ Copying' = Copying /\ content' = Forget({s})
        /\ preReads' = preReads \cup {x} /\ UNCHANGED <<reads, storeOps, copies>>
    BY <1>1, <2>1, CopyingKept DEF SubmitPreloadRead, ReadHead, ReservePreload
  <2>3. x.hash = h /\ x.slot = s /\ d[3] = s /\ ~Filled(d)
    BY DEF Filled
  <2>. HIDE DEF x
  <2>4. IoHolds' = IoHolds \cup {d}
    BY <2>2, <2>3, IoJoins
  <2>. HIDE DEF d
  <2>. QED  BY <2>2, <2>3, <2>4, ReserveInto, SharingAgain
<1>2. ASSUME NEW s \in Slots, SubmitPreloadReadRefused(s) PROVE Sharing'
  <2>1. /\ ReserveForeground(s, {s}) /\ Copying' = Copying /\ content' = Forget({s})
        /\ UNCHANGED <<copies, reads, preReads, storeOps>>
    BY <1>2, CopyingKept DEF SubmitPreloadReadRefused, ReadHead, ReservePreload
  <2>. QED  BY <2>1, ReserveReturned, SharingAgain
<1>3. CASE YieldOpenFd \/ DropCancelled \/ DeferOnWrite \/ OpenSpeculative
  <2>1. /\ Copying' = Copying
        /\ UNCHANGED <<mode, reads, preReads, storeOps, retained, pool, copies>>
    BY <1>3, CopyingKept DEF YieldOpenFd, DropCancelled, DeferOnWrite, OpenSpeculative, At
  <2>. QED  BY <2>1, SharingKept DEF Alive
<1>. QED  BY <1>1, <1>2, <1>3

-----------------------------------------------------------------------------
(* STOP: everything retained goes back, and the copies that read it lose    *)
(* their claim.                                                             *)

LEMMA Detaching ==
  ASSUME NEW m \in Member
  PROVE  /\ Detach(m).file = m.file /\ Detach(m).slot = m.slot
         /\ IF m.src \in {"shared", "cache"} /\ m.slot \in Dropped
              THEN Detach(m).src = "detached" ELSE Detach(m) = m
BY DEF Detach, Member

LEMMA StopCopies ==
  ASSUME Settled, Stop
  PROVE  /\ IsFiniteSet(Copying')
         /\ \A m : m.src = "own" => (m \in Copying' <=> m \in Copying)
         /\ \A m : m.src = "shared" => (m \in Copying' <=> m \in Copying /\ m.slot \notin Dropped)
         /\ \A m \in Copying' : m.src # "cache"
<1>. USE DEF Settled
<1>1. \A m \in Copying : m \in Member
  BY ReadersOf
<1>2. ASSUME NEW m \in Copying, m.src = "cache" PROVE m.slot \in Dropped
  <2>1. cache[H(m.file)] = m.slot /\ m.slot \in Slots /\ H(m.file) \in Hashes
    BY <1>2, ReadersOf DEF Pinned
  <2>. QED  BY <2>1, SizeAssumption DEF Dropped, Resident
<1>3. IsFiniteSet(Copying')
  <2>. DEFINE g == [m \in Copying |-> Detach(m)]
  <2>1. g \in [Copying -> Copying']
    BY StopDetaches
  <2>2. \A n \in Copying' : \E m \in Copying : g[m] = n
    BY StopDetaches
  <2>. HIDE DEF g
  <2>3. g \in Surjection(Copying, Copying')
    BY <2>1, <2>2 DEF Surjection
  <2>. QED  BY <2>3, FS_Surjection DEF Exact
<1>4. ASSUME NEW m, m \in Copying', m.src # "detached"
      PROVE  m \in Copying /\ m.src # "cache" /\ (m.src = "shared" => m.slot \notin Dropped)
  <2>1. PICK n \in Copying : m = Detach(n)
    BY <1>4, StopDetaches
  <2>2. n \in Member
    BY <1>1
  <2>. QED  BY <1>2, <1>4, <2>1, <2>2, Detaching
<1>5. ASSUME NEW m, m \in Copying, m.src = "own" \/ (m.src = "shared" /\ m.slot \notin Dropped)
      PROVE  m \in Copying'
  <2>1. m \in Member /\ Detach(m) \in Copying'
    BY <1>1, <1>5, StopDetaches
  <2>2. Detach(m) = m
    BY <1>5, <2>1, Detaching
  <2>. QED  BY <2>1, <2>2
<1>. QED  BY <1>3, <1>4, <1>5

LEMMA StopSharing ==
  ASSUME Settled, Stop
  PROVE  Sharing'
<1>. USE DEF Settled
<1>1. /\ free' = free \cup Dropped /\ content' = Forget(Dropped)
      /\ copies' = [s \in Slots |-> IF s \in Dropped THEN 0 ELSE copies[s]]
      /\ \A h \in Hashes : sharedCached'[h] = NoSlot /\ cache'[h] = NoSlot
      /\ UNCHANGED <<reads, preReads, storeOps>>
  BY DEF Stop
<1>2. /\ CacheHolds' = {} /\ IoHolds' = IoHolds
      /\ \A c : c \in SharedHolds' <=>
           \E m \in Copying' : m.src = "shared" /\ c = <<"shared", H(m.file), m.slot>>
  BY <1>1, CopiesHold DEF CacheHolds, Resident, SharedHolds, SharedHashes, IsShared, H
<1>3. CopyHolds' = CopyHolds
  <2>1. \A c : c \in CopyHolds' <=> c \in CopyHolds
    BY StopCopies DEF CopyHolds
  <2>. QED  BY <2>1
<1>4. \A s : s \in Dropped <=> \E c \in CacheHolds \cup SharedHolds :
        c[3] = s /\ (c[1] = "cache" \/ \E h \in SharedHashes : c = <<"shared", h, sharedCached[h]>>)
  <2>1. ASSUME NEW s \in Dropped
        PROVE  \E c \in CacheHolds \cup SharedHolds :
                 c[3] = s /\ (c[1] = "cache" \/ \E h \in SharedHashes : c = <<"shared", h, sharedCached[h]>>)
    <3>1. CASE \E h \in Resident : s = cache[h]
      <4>1. PICK h \in Resident : s = cache[h]
        BY <3>1
      <4>. DEFINE c == <<"cache", h, cache[h]>>
      <4>2. c \in CacheHolds /\ c[3] = s /\ c[1] = "cache"
        BY <4>1 DEF CacheHolds
      <4>. HIDE DEF c
      <4>. QED  BY <4>2
    <3>2. CASE \E h \in SharedHashes : s = sharedCached[h]
      <4>1. PICK h \in SharedHashes : s = sharedCached[h]
        BY <3>2
      <4>. DEFINE c == <<"shared", h, sharedCached[h]>>
      <4>2. c \in SharedHolds /\ c[3] = s
        BY <4>1 DEF SharedHolds
      <4>. QED  BY <4>2
    <3>. QED  BY <2>1, <3>1, <3>2 DEF Dropped
  <2>2. ASSUME NEW c \in CacheHolds \cup SharedHolds,
               c[1] = "cache" \/ \E h \in SharedHashes : c = <<"shared", h, sharedCached[h]>>
        PROVE  c[3] \in Dropped
    <3>1. c[1] = "cache" => c \in CacheHolds
      BY Tagged
    <3>. QED  BY <2>2, <3>1 DEF CacheHolds, Dropped
  <2>. QED  BY <2>1, <2>2
<1>5. \A c \in CacheHolds : c[3] \in Dropped
  BY <1>4, Tagged
<1>6. /\ Holders = IoHolds \cup CopyHolds \cup CacheHolds \cup SharedHolds
      /\ Holders' = IoHolds \cup CopyHolds \cup SharedHolds'
  BY <1>2, <1>3, HoldersAre
<1>7. \A c \in IoHolds \cup CopyHolds : c[3] \notin Dropped
  <2>1. SUFFICES ASSUME NEW c \in IoHolds \cup CopyHolds, c[3] \in Dropped PROVE FALSE
    OBVIOUS
  <2>2. PICK d \in CacheHolds \cup SharedHolds : d[3] = c[3]
    BY <1>4, <2>1
  <2>3. c # d
    BY <2>1, <2>2, Tagged
  <2>. QED  BY <1>6, <2>2, <2>3 DEF Sheltered, Sound
<1>8. \A c : c \in SharedHolds' <=> c \in SharedHolds /\ c[3] \notin Dropped
  <2>1. ASSUME NEW c \in SharedHolds' PROVE c \in SharedHolds /\ c[3] \notin Dropped
    <3>1. PICK m \in Copying' : m.src = "shared" /\ c = <<"shared", H(m.file), m.slot>>
      BY <1>2
    <3>2. m \in Copying /\ m.slot \notin Dropped
      BY <3>1, StopCopies
    <3>. QED  BY <3>1, <3>2, ReadersOf
  <2>2. ASSUME NEW c \in SharedHolds, c[3] \notin Dropped PROVE c \in SharedHolds'
    <3>1. PICK m \in Copying : m.src = "shared" /\ c = <<"shared", H(m.file), m.slot>>
      <4>1. \/ \E h \in SharedHashes : c = <<"shared", h, sharedCached[h]>>
            \/ \E m \in Copying : m.src = "shared" /\ c = <<"shared", H(m.file), m.slot>>
        BY DEF SharedHolds
      <4>. QED  BY <1>4, <2>2, <4>1
    <3>2. m \in Copying'
      BY <2>2, <3>1, StopCopies
    <3>. QED  BY <1>2, <3>1, <3>2
  <2>. QED  BY <2>1, <2>2
<1>9. Sheltered'
  <2>. DEFINE Out == {c \in Holders : c[3] \in Dropped}
  <2>1. \A c : c \in Holders' <=> c \in Holders /\ c \notin Out
    BY <1>5, <1>6, <1>7, <1>8
  <2>2. \A s : s \in Dropped <=> \E c \in Out : c[3] = s
    BY <1>4, <1>6
  <2>3. \A c \in Out : c \in Holders
    OBVIOUS
  <2>4. \A s \in Slots : s \in Dropped \/ content'[s] = content[s]
    BY <1>1 DEF Forget
  <2>. HIDE DEF Out
  <2>5. Shift(Out, {})
    BY <1>1, <2>1, <2>2, <2>3, <2>4 DEF Shift, Moves
  <2>. QED  BY <2>5, ShelterMoves
<1>10. Pinned'
  BY StopCopies DEF Pinned
<1>11. Exact'
  <2>1. ASSUME NEW s \in Slots PROVE copies'[s] = Cardinality(Pins(s)')
    <3>1. CASE s \in Dropped
      <4>1. Pins(s)' = {}
        BY <3>1, StopCopies DEF Pins
      <4>. QED  BY <1>1, <3>1, <4>1, FS_EmptySet
    <3>2. CASE s \notin Dropped
      <4>1. ASSUME NEW m, m \in Copying, m.slot = s PROVE m.src # "cache"
        <5>1. m.src = "cache" => <<"cache", H(m.file), m.slot>> \in CacheHolds
          BY <4>1, ReadersOf
        <5>. QED  BY <1>5, <3>2, <4>1, <5>1
      <4>2. \A m : m \in Pins(s)' <=> m \in Pins(s)
        BY <3>2, <4>1, StopCopies DEF Pins
      <4>3. Pins(s)' = Pins(s)
        BY <4>2
      <4>. QED  BY <1>1, <3>2, <4>3 DEF Exact
    <3>. QED  BY <3>1, <3>2
  <2>. QED  BY <2>1, StopCopies DEF Exact
<1>. QED  BY <1>9, <1>10, <1>11, SharingAgain

-----------------------------------------------------------------------------
(* The invariant is kept.                                                   *)

LEMMA TurnEndSharing ==
  ASSUME Sharing, FlushCopyBatch \/ EndTurn \/ (\E a \in asking : PreloadHash(a))
  PROVE  Sharing'
<1>1. CASE FlushCopyBatch
  BY <1>1, FlushMoves, SharingKept DEF FlushCopyBatch, At, Alive
<1>2. CASE EndTurn \/ \E a \in asking : PreloadHash(a)
  BY <1>2, CopyingKept, SharingKept DEF EndTurn, PreloadHash, Alive
<1>. QED  BY <1>1, <1>2

LEMMA StoreHashSharing ==
  ASSUME Settled, NEW f \in storing, StoreHash(f)
  PROVE  Sharing'
<1>1. H(f) \in Hashes
  BY FileFacts DEF Settled, TypeOK, TurnTypes
<1>2. /\ SharedDecref(Req(f), H(f)) /\ Copying' = Copying
      /\ UNCHANGED <<copies, reads, preReads, storeOps>>
  BY CopyingKept DEF StoreHash
<1>. QED  BY <1>1, <1>2, DecrefSharing

LEMMA ClientSharing ==
  ASSUME Sharing, Alive => Settled, Client
  PROVE  Sharing'
<1>1. CASE Stop
  BY <1>1, StopSharing DEF Stop, CanIntake, Alive
<1>2. CASE \/ \E p \in Preloads : AskPreload(p)
           \/ \E j \in Jobs : IntakeLoad(j) \/ IntakeStore(j) \/ SubmitClosed(j)
  <2>1. /\ Copying' = Copying
        /\ UNCHANGED <<mode, reads, preReads, storeOps, retained, pool, copies>>
    BY <1>2, CopyingKept DEF AskPreload, IntakeLoad, IntakeStore, SubmitClosed
  <2>. QED  BY <2>1, SharingKept DEF Alive
<1>. QED  BY <1>1, <1>2 DEF Client

LEMMA StepSharing ==
  TypeOK /\ Provenance /\ Accounts /\ Preloading /\ Sharing /\ [Next]_vars => Sharing'
<1>. SUFFICES ASSUME TypeOK, Provenance, Accounts, Preloading, Sharing, [Next]_vars
              PROVE  Sharing'
  OBVIOUS
<1>0. (Alive => Settled) /\ Ledger /\ ParkedProv
  BY DEF Settled, Accounts, Preloading, Sharing, Provenance
<1>1. CASE Client
  BY <1>0, <1>1, ClientSharing
<1>2. CASE FailEverything \/ Exit
  BY <1>2 DEF FailEverything, Exit, Sharing, Alive
<1>3. CASE Work
  <2>1. Settled
    BY <1>0, <1>3, WorkIsAlive
  <2>2. CASE FlushCopyBatch \/ EndTurn \/ (\E a \in asking : PreloadHash(a))
    BY <2>2, TurnEndSharing
  <2>3. CASE \E f \in storing : StoreHash(f)
    BY <2>1, <2>3, StoreHashSharing
  <2>4. CASE \E r \in preReads : OnSharedReadComplete(r)
    BY <1>0, <2>1, <2>4, SharedReadSharing
  <2>. QED  BY <1>0, <1>2, <1>3, <2>1, <2>2, <2>3, <2>4, CudaSharing, PollSharing, ReadySharing,
               LoadScheduleSharing, StoreScheduleSharing, SpeculativeSharing DEF Work
<1>4. CASE UNCHANGED vars
  BY <1>4, CopyingKept, SharingKept DEF vars, Alive
<1>. QED  BY <1>1, <1>2, <1>3, <1>4 DEF Next

LEMMA SharingMeans ==
  ASSUME TypeOK, Sharing
  PROVE  SlotsPartition /\ CopyCountsExact /\ CopiesReadTheirBlock
<1>. SUFFICES ASSUME Alive PROVE SlotsPartition /\ CopyCountsExact /\ CopiesReadTheirBlock
  BY DEF SlotsPartition, CopyCountsExact, CopiesReadTheirBlock
<1>1. Sheltered /\ Pinned /\ Exact
  BY DEF Sharing
<1>2. ASSUME NEW s \in Slots
      PROVE  Cardinality({c \in Holders : c[3] = s}) = IF s \in free THEN 0 ELSE 1
  <2>. DEFINE P == {c \in Holders : c[3] = s}
  <2>1. CASE s \in free
    <3>1. P = {}
      BY <1>1, <2>1 DEF Sheltered, Sound
    <3>. HIDE DEF P
    <3>2. Cardinality(P) = 0
      BY <3>1, FS_EmptySet
    <3>. QED  BY <2>1, <3>2 DEF P
  <2>2. CASE s \notin free
    <3>1. PICK c \in Holders : c[3] = s
      BY <1>1, <2>2 DEF Sheltered, Sound
    <3>2. P = {c}
      BY <1>1, <3>1 DEF Sheltered, Sound
    <3>. HIDE DEF P
    <3>3. Cardinality(P) = 1
      BY <3>2, FS_Singleton
    <3>. QED  BY <2>2, <3>3 DEF P
  <2>. QED  BY <2>1, <2>2
<1>3. ASSUME NEW c \in Holders, Filled(c) PROVE content[c[3]] = Block(c)
  BY <1>1, <1>3 DEF Sheltered, Sound
<1>4. \A c : c \in CopyHolds \cup CacheHolds \cup SharedHolds => c \in Holders /\ Filled(c)
  BY HoldersAre, Tagged DEF Filled
<1>5. ASSUME NEW m \in Copying, m.src # "detached" PROVE content[m.slot] = H(m.file)
  <2>1. m.src \in {"own", "shared", "cache"}
    BY <1>1, <1>5, ReadersOf DEF Member, Sources
  <2>2. CASE m.src = "own"
    <3>. DEFINE c == <<"copy", m.file, m.slot>>
    <3>1. c \in CopyHolds /\ c[3] = m.slot /\ Block(c) = H(m.file)
      BY <1>1, <2>2, ReadersOf DEF Block
    <3>. HIDE DEF c
    <3>. QED  BY <1>3, <1>4, <3>1
  <2>3. CASE m.src = "shared"
    <3>. DEFINE c == <<"shared", H(m.file), m.slot>>
    <3>1. c \in SharedHolds /\ c[3] = m.slot /\ Block(c) = H(m.file)
      BY <1>1, <2>3, ReadersOf DEF Block
    <3>. HIDE DEF c
    <3>. QED  BY <1>3, <1>4, <3>1
  <2>4. CASE m.src = "cache"
    <3>. DEFINE c == <<"cache", H(m.file), m.slot>>
    <3>1. c \in CacheHolds /\ c[3] = m.slot /\ Block(c) = H(m.file)
      BY <1>1, <2>4, ReadersOf DEF Block
    <3>. HIDE DEF c
    <3>. QED  BY <1>3, <1>4, <3>1
  <2>. QED  BY <2>1, <2>2, <2>3, <2>4
<1>6. ASSUME NEW h \in Hashes, IsShared(h) PROVE content[sharedCached[h]] = h
  <2>. DEFINE c == <<"shared", h, sharedCached[h]>>
  <2>1. c \in SharedHolds /\ c[3] = sharedCached[h] /\ Block(c) = h
    BY <1>6 DEF SharedHolds, SharedHashes, Block
  <2>. HIDE DEF c
  <2>. QED  BY <1>3, <1>4, <2>1
<1>7. ASSUME NEW h \in Resident PROVE content[cache[h]] = h
  <2>. DEFINE c == <<"cache", h, cache[h]>>
  <2>1. c \in CacheHolds /\ c[3] = cache[h] /\ Block(c) = h
    BY DEF CacheHolds, Block
  <2>. HIDE DEF c
  <2>. QED  BY <1>3, <1>4, <2>1
<1>8. CopyCountsExact
  BY <1>1 DEF Exact, Pins, CopyCountsExact
<1>. QED  BY <1>2, <1>5, <1>6, <1>7, <1>8 DEF SlotsPartition, CopiesReadTheirBlock

LEMMA SlotsSafe == Spec => [](SlotsPartition /\ CopyCountsExact /\ CopiesReadTheirBlock)
<1>1. TypeOK /\ Sharing => SlotsPartition /\ CopyCountsExact /\ CopiesReadTheirBlock
  BY SharingMeans
<1>. QED  BY <1>1, InitTypes, StepTypes, InitProv, StepProv, InitFiles, StepFiles, InitPreloads,
             StepPreloads, InitSharing, StepSharing, PTL DEF Spec

\* Every staging slot is free or held by exactly one read, store, copy, cache
\* entry or preload object: none leaks and none is handed out twice, whatever
\* fails, whoever evicts it and however STOP interrupts it.
THEOREM SlotsHeldOnce == Spec => []SlotsPartition
BY SlotsSafe, PTL

\* copies_inflight of a retained slot is the number of copies that read it, so
\* eviction and the last claim never take a slot a copy still reads.
THEOREM ReadersAreCounted == Spec => []CopyCountsExact
BY SlotsSafe, PTL

\* A load copy, queued or running, and a retained entry find in their slot the
\* block they are for: no read or store is issued into a slot in use, except
\* that copies STOP has detached are not vouched for.
THEOREM BytesStayPut == Spec => []CopiesReadTheirBlock
BY SlotsSafe, PTL
=============================================================================
