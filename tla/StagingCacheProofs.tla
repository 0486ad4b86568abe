------------------------- MODULE StagingCacheProofs -------------------------
(***************************************************************************)
(* What is proved about the staging cache, for any number of hashes, slots *)
(* and copies, any capacity and both policies: the policy's lists and the  *)
(* table of slots tell the same story and no slot is lost, each list is in *)
(* the order of last use, what is used once stays apart from what is used  *)
(* again, and either policy implements SlotRetention, the cache that       *)
(* Reactor is checked and proved with.                                     *)
(***************************************************************************)
EXTENDS StagingCache, OrderedKeysProofs, FunctionTheorems, WellFoundedInduction

-----------------------------------------------------------------------------
(* Lists of hashes, each hash once.                                        *)

\* Every pair of l is in the order of m.
OrderedBy(l, m) ==
  /\ Range(l) \subseteq Range(m)
  /\ \A g, h \in Hashes : Before(l, g, h) => Before(m, g, h)

\* What is left of the ghosts after popitem(last=False) has had its way.
LEMMA TrimFacts ==
  ASSUME NEW q, IsList(q, Hashes), capacity \in Nat
  PROVE  /\ IsList(Trim(q), Hashes)
         /\ Range(Trim(q)) \subseteq Range(q)
         /\ Len(Trim(q)) <= ArcSize
<1> DEFINE m == Larger(0, Len(q) - ArcSize) + 1
           r == SubSeq(q, m, Len(q))
<1>1. /\ Len(q) \in Nat /\ DOMAIN q = 1..Len(q)
      /\ \A i \in 1..Len(q) : q[i] \in Hashes
      /\ \A i, k \in 1..Len(q) : q[i] = q[k] => i = k
      /\ \A g : g \in Range(q) <=> \E i \in 1..Len(q) : q[i] = g
  BY ListFacts
<1>2. ArcSize \in Nat
  BY DEF ArcSize, Larger
<1>3. m \in Nat \ {0} /\ m <= Len(q) + 1 /\ Len(q) - m + 1 <= ArcSize
  BY <1>1, <1>2 DEF Larger
<1> HIDE DEF m
<1>4. /\ r \in Seq(Hashes)
      /\ Len(r) = IF m <= Len(q) THEN Len(q) - m + 1 ELSE 0
      /\ \A i \in 1..(Len(q) - m + 1) : r[i] = q[m + i - 1]
  <2>1. \A i \in m..Len(q) : q[i] \in Hashes
    BY <1>1, <1>3
  <2>2. m \in Int /\ Len(q) \in Int
    BY <1>1, <1>3
  <2> QED
    BY <2>1, <2>2, SubSeqProperties
<1>5. Trim(q) = r
  BY DEF Trim, r, m
<1> HIDE DEF r
<1>6. Len(r) = Len(q) - m + 1
  BY <1>1, <1>3, <1>4
<1>7. DOMAIN r = 1..(Len(q) - m + 1)
  BY <1>4, <1>6, LenProperties
<1>8. \A i \in 1..(Len(q) - m + 1) : (m + i) - 1 \in 1..Len(q) /\ r[i] = q[(m + i) - 1]
  BY <1>1, <1>3, <1>4
<1>9. IsInjective(r)
  <2> SUFFICES ASSUME NEW i \in DOMAIN r, NEW k \in DOMAIN r, r[i] = r[k] PROVE i = k
    BY DEF IsInjective
  <2>1. (m + i) - 1 = (m + k) - 1
    BY <1>1, <1>7, <1>8
  <2> QED
    BY <1>1, <1>3, <1>7, <2>1
<1>10. Range(r) \subseteq Range(q)
  BY <1>1, <1>7, <1>8 DEF Range
<1> QED
  BY <1>2, <1>3, <1>4, <1>5, <1>6, <1>9, <1>10 DEF IsList

\* A list stays in the order of last use when a key of it goes, when a key
\* it does not hold is used, and when a key comes to its end on being used.
LEMMA OrderedDrop ==
  ASSUME NEW l, NEW m, IsList(l, Hashes), OrderedBy(l, m), NEW h
  PROVE  OrderedBy(Drop(l, h), m)
BY DropFacts DEF OrderedBy

LEMMA OrderedUse ==
  ASSUME NEW l, NEW m, IsList(l, Hashes), IsList(m, Hashes), OrderedBy(l, m), NEW h \in Hashes, h \notin Range(l)
  PROVE  OrderedBy(l, ToEnd(m, h)) /\ OrderedBy(Append(l, h), ToEnd(m, h))
<1> DEFINE d == Drop(m, h)
           e == Append(d, h)
<1>1. /\ IsList(d, Hashes) /\ Range(d) = Range(m) \ {h}
      /\ \A x, y : Before(d, x, y) <=> Before(m, x, y) /\ x # h /\ y # h
  BY DropFacts
<1>2. h \notin Range(d)
  BY <1>1
<1> HIDE DEF d
<1>3. /\ Range(e) = Range(d) \cup {h}
      /\ \A x, y : Before(e, x, y) <=> Before(d, x, y) \/ (x \in Range(d) /\ y = h)
  BY <1>1, <1>2, AppendFacts
<1>4. /\ Range(Append(l, h)) = Range(l) \cup {h}
      /\ \A x, y : Before(Append(l, h), x, y) <=> Before(l, x, y) \/ (x \in Range(l) /\ y = h)
  BY AppendFacts
<1>5. ToEnd(m, h) = e
  BY DEF ToEnd, d, e
<1> HIDE DEF e
<1>6. Range(l) \subseteq Range(m) /\ \A x, y \in Hashes : Before(l, x, y) => Before(m, x, y)
  BY DEF OrderedBy
<1>7. \A x, y : Before(l, x, y) => x \in Range(l) /\ y \in Range(l)
  BY DEF Before, Range
<1>8. \A x, y \in Hashes : Before(l, x, y) => Before(e, x, y)
  BY <1>1, <1>3, <1>6, <1>7
<1>9. OrderedBy(l, e)
  BY <1>1, <1>3, <1>6, <1>8 DEF OrderedBy
<1>10. ASSUME NEW x \in Hashes, NEW y \in Hashes, Before(Append(l, h), x, y)
       PROVE  Before(e, x, y)
  <2>1. CASE Before(l, x, y)
    BY <1>8, <2>1
  <2>2. CASE x \in Range(l) /\ y = h
    BY <1>1, <1>3, <1>6, <2>2
  <2> QED
    BY <1>4, <1>10, <2>1, <2>2
<1>11. OrderedBy(Append(l, h), e)
  BY <1>1, <1>3, <1>4, <1>6, <1>10 DEF OrderedBy
<1> QED
  BY <1>5, <1>9, <1>11

-----------------------------------------------------------------------------
(* The policies.                                                           *)

\* What the policies do to their record, field by field.
Rec(t1, t2, b1, b2, p) == [t1 |-> t1, t2 |-> t2, b1 |-> b1, b2 |-> b2, p |-> p]
Pol(S, P) == [t1 : S, t2 : S, b1 : S, b2 : S, p : P]

LEMMA SetT1 ==
  ASSUME NEW S, NEW P, NEW q \in Pol(S, P), NEW x \in S
  PROVE  [q EXCEPT !.t1 = x] = Rec(x, q.t2, q.b1, q.b2, q.p)
BY DEF Pol, Rec

LEMMA SetT2 ==
  ASSUME NEW S, NEW P, NEW q \in Pol(S, P), NEW x \in S
  PROVE  [q EXCEPT !.t2 = x] = Rec(q.t1, x, q.b1, q.b2, q.p)
BY DEF Pol, Rec

LEMMA SetGhosts ==
  ASSUME NEW S, NEW P, NEW q \in Pol(S, P), NEW x \in S, NEW y \in S
  PROVE  [q EXCEPT !.b1 = x, !.b2 = y] = Rec(q.t1, q.t2, x, y, q.p)
<1> DEFINE r == [q EXCEPT !.b1 = x]
<1>1. r = Rec(q.t1, q.t2, x, q.b2, q.p) /\ r \in Pol(S, P)
  BY DEF Pol, Rec
<1>2. [q EXCEPT !.b1 = x, !.b2 = y] = [r EXCEPT !.b2 = y]
  OBVIOUS
<1> HIDE DEF r
<1>3. [r EXCEPT !.b2 = y] = Rec(r.t1, r.t2, r.b1, y, r.p)
  BY <1>1 DEF Pol, Rec
<1> QED
  BY <1>1, <1>2, <1>3 DEF Rec

LEMMA SetFirst ==
  ASSUME NEW S, NEW P, NEW q \in Pol(S, P), NEW x \in S, NEW y \in S
  PROVE  [q EXCEPT !.t1 = x, !.b1 = y] = Rec(x, q.t2, y, q.b2, q.p)
<1> DEFINE r == [q EXCEPT !.t1 = x]
<1>1. r = Rec(x, q.t2, q.b1, q.b2, q.p) /\ r \in Pol(S, P)
  BY DEF Pol, Rec
<1>2. [q EXCEPT !.t1 = x, !.b1 = y] = [r EXCEPT !.b1 = y]
  OBVIOUS
<1> HIDE DEF r
<1>3. [r EXCEPT !.b1 = y] = Rec(r.t1, r.t2, y, r.b2, r.p)
  BY <1>1 DEF Pol, Rec
<1> QED
  BY <1>1, <1>2, <1>3 DEF Rec

LEMMA SetSecond ==
  ASSUME NEW S, NEW P, NEW q \in Pol(S, P), NEW x \in S, NEW y \in S
  PROVE  [q EXCEPT !.t2 = x, !.b2 = y] = Rec(q.t1, x, q.b1, y, q.p)
<1> DEFINE r == [q EXCEPT !.t2 = x]
<1>1. r = Rec(q.t1, x, q.b1, q.b2, q.p) /\ r \in Pol(S, P)
  BY DEF Pol, Rec
<1>2. [q EXCEPT !.t2 = x, !.b2 = y] = [r EXCEPT !.b2 = y]
  OBVIOUS
<1> HIDE DEF r
<1>3. [r EXCEPT !.b2 = y] = Rec(r.t1, r.t2, r.b1, y, r.p)
  BY <1>1 DEF Pol, Rec
<1> QED
  BY <1>1, <1>2, <1>3 DEF Rec

LEMMA SetP ==
  ASSUME NEW S, NEW P, NEW q \in Pol(S, P), NEW x \in P
  PROVE  [q EXCEPT !.p = x] = Rec(q.t1, q.t2, q.b1, q.b2, x)
BY DEF Pol, Rec

LEMMA SetB1 ==
  ASSUME NEW S, NEW P, NEW q \in Pol(S, P), NEW x \in S
  PROVE  [q EXCEPT !.b1 = x] = Rec(q.t1, q.t2, x, q.b2, q.p)
BY DEF Pol, Rec

LEMMA SetB2 ==
  ASSUME NEW S, NEW P, NEW q \in Pol(S, P), NEW x \in S
  PROVE  [q EXCEPT !.b2 = x] = Rec(q.t1, q.t2, q.b1, x, q.p)
BY DEF Pol, Rec

Shape == Pol(Seq(Hashes), 0..ArcSize)

Apart(a, b) == Range(a) \cap Range(b) = {}

\* The lists of a policy, before the ghosts are trimmed: no key is in two.
Lists(q) ==
  /\ q \in Shape
  /\ IsList(q.t1, Hashes) /\ IsList(q.t2, Hashes) /\ IsList(q.b1, Hashes) /\ IsList(q.b2, Hashes)
  /\ Apart(q.t1, q.t2) /\ Apart(q.t1, q.b1) /\ Apart(q.t1, q.b2)
  /\ Apart(q.t2, q.b1) /\ Apart(q.t2, q.b2) /\ Apart(q.b1, q.b2)
  /\ kind = "lru" => q.t2 = <<>> /\ q.b1 = <<>> /\ q.b2 = <<>>

PolicyOK(q) == Lists(q) /\ Len(q.b1) <= ArcSize /\ Len(q.b2) <= ArcSize

\* The keys a policy only remembers, and those it retains.
Ghosts(q) == Range(q.b1) \cup Range(q.b2)
Kept(q)   == Range(q.t1) \cup Range(q.t2)

LEMMA KindArc == ASSUME NEW q, Lists(q), kind = "lru" PROVE Range(q.t2) = {} /\ Ghosts(q) = {}
<1>1. Range(<<>>) = {}
  BY DEF Range
<1> QED
  BY <1>1 DEF Lists, Ghosts

LEMMA TrimmedOK ==
  ASSUME capacity \in Nat, kind = "arc", NEW q, Lists(q)
  PROVE  LET r == TrimGhosts(q)
         IN  /\ PolicyOK(r) /\ r.t1 = q.t1 /\ r.t2 = q.t2 /\ r.p = q.p
             /\ Range(r.b1) \subseteq Range(q.b1) /\ Range(r.b2) \subseteq Range(q.b2)
<1> DEFINE r == TrimGhosts(q)
<1>1. /\ IsList(Trim(q.b1), Hashes) /\ Range(Trim(q.b1)) \subseteq Range(q.b1) /\ Len(Trim(q.b1)) <= ArcSize
      /\ IsList(Trim(q.b2), Hashes) /\ Range(Trim(q.b2)) \subseteq Range(q.b2) /\ Len(Trim(q.b2)) <= ArcSize
  BY TrimFacts DEF Lists
<1>2. r = Rec(q.t1, q.t2, Trim(q.b1), Trim(q.b2), q.p)
  <2>1. q \in Shape /\ Trim(q.b1) \in Seq(Hashes) /\ Trim(q.b2) \in Seq(Hashes)
    BY <1>1 DEF Lists, IsList
  <2> QED
    BY <2>1, SetGhosts, Zenon DEF TrimGhosts, Shape
<1> HIDE DEF r
<1>3. Lists(r)
  BY <1>1, <1>2 DEF Lists, Shape, Pol, Rec, Apart, IsList
<1> QED
  BY <1>1, <1>2, <1>3 DEF PolicyOK, Rec, r

LEMMA ReusedShape ==
  ASSUME NEW q \in Shape, NEW h, Append(q.t2, h) \in Seq(Hashes)
  PROVE  LET u == Reused(q, h)
         IN  /\ u \in Shape /\ u = Rec(q.t1, Append(q.t2, h), q.b1, q.b2, q.p)
             /\ u.t1 = q.t1 /\ u.t2 = Append(q.t2, h) /\ u.b1 = q.b1 /\ u.b2 = q.b2 /\ u.p = q.p
BY SetT2 DEF Shape, Pol, Rec, Reused

LEMMA TargetRange ==
  ASSUME capacity \in Nat, NEW q, Lists(q)
  PROVE  /\ Smaller(ArcSize, q.p + Delta(q.b1, q.b2)) \in 0..ArcSize
         /\ Larger(0, q.p - Delta(q.b2, q.b1)) \in 0..ArcSize
<1>1. ArcSize \in Nat \ {0} /\ q.p \in 0..ArcSize
  BY DEF ArcSize, Larger, Lists, Shape, Pol
<1>2. Len(q.b1) \in Nat /\ Len(q.b2) \in Nat
  BY ListFacts DEF Lists
<1>3. ASSUME NEW a \in Nat, NEW b \in Nat PROVE Larger(1, a \div Larger(1, b)) \in Nat
  <2>1. Larger(1, b) \in Nat /\ Larger(1, b) > 0
    BY DEF Larger
  <2>2. a \div Larger(1, b) \in Int
    BY <2>1
  <2> QED
    BY <2>2 DEF Larger
<1>4. Delta(q.b1, q.b2) \in Nat /\ Delta(q.b2, q.b1) \in Nat
  BY <1>2, <1>3 DEF Delta
<1> QED
  BY <1>1, <1>4 DEF Smaller, Larger

\* A key that was not retained is taken up: as a new key, or, if the policy
\* still has it among its ghosts, as one that is used again.
AdmitsNew(q, h, r) ==
  /\ h \notin Ghosts(q) /\ r.t1 = Append(q.t1, h) /\ r.t2 = q.t2
AdmitsGhost(q, h, r) ==
  /\ kind = "arc" /\ h \in Ghosts(q) /\ r.t1 = q.t1 /\ r.t2 = Append(q.t2, h)

LEMMA AdmitFacts ==
  ASSUME capacity \in Nat, kind \in {"lru", "arc"}, NEW q, PolicyOK(q),
         NEW h \in Hashes, h \notin Kept(q)
  PROVE  LET r == Admit(q, h)
         IN  /\ PolicyOK(r)
             /\ AdmitsNew(q, h, r) \/ AdmitsGhost(q, h, r)
             /\ Range(r.b1) \subseteq Range(q.b1) \ {h} /\ Range(r.b2) \subseteq Range(q.b2) \ {h}
<1> DEFINE r == Admit(q, h)
<1>1. h \notin Range(q.t1) /\ h \notin Range(q.t2)
  BY DEF Kept
<1>2. /\ IsList(Append(q.t1, h), Hashes) /\ Range(Append(q.t1, h)) = Range(q.t1) \cup {h}
      /\ IsList(Append(q.t2, h), Hashes) /\ Range(Append(q.t2, h)) = Range(q.t2) \cup {h}
  BY <1>1, AppendFacts DEF PolicyOK, Lists
<1>3. /\ IsList(Drop(q.b1, h), Hashes) /\ Range(Drop(q.b1, h)) = Range(q.b1) \ {h}
      /\ IsList(Drop(q.b2, h), Hashes) /\ Range(Drop(q.b2, h)) = Range(q.b2) \ {h}
  BY DropFacts DEF PolicyOK, Lists
<1>4. CASE kind = "lru"
  <2>1. r = [q EXCEPT !.t1 = ToEnd(@, h)]
    BY <1>4 DEF Admit
  <2>2. ToEnd(q.t1, h) = Append(q.t1, h)
    BY <1>1, ToEndFacts DEF PolicyOK, Lists
  <2>3. /\ r.t1 = Append(q.t1, h) /\ r.t2 = q.t2 /\ r.b1 = q.b1 /\ r.b2 = q.b2 /\ r.p = q.p
        /\ r = Rec(Append(q.t1, h), q.t2, q.b1, q.b2, q.p)
    <3>1. q \in Shape /\ Append(q.t1, h) \in Seq(Hashes)
      BY <1>2, <2>1, <2>2 DEF PolicyOK, Lists, IsList
    <3>2. r = Rec(Append(q.t1, h), q.t2, q.b1, q.b2, q.p)
      BY <1>2, <2>1, <2>2, <3>1, SetT1, Zenon DEF Shape
    <3> QED
      BY <3>2 DEF Rec
  <2>4. Range(q.t2) = {} /\ Range(q.b1) = {} /\ Range(q.b2) = {}
    BY <1>4, KindArc DEF PolicyOK, Ghosts
  <2> HIDE DEF r
  <2>5. Lists(r)
    BY <1>2, <1>4, <2>3, <2>4 DEF PolicyOK, Lists, Shape, Pol, Rec, Apart, IsList
  <2> QED
    BY <2>3, <2>4, <2>5 DEF PolicyOK, AdmitsNew, Ghosts, r
<1>5. CASE kind = "arc" /\ h \notin Ghosts(q)
  <2> DEFINE m == [q EXCEPT !.t1 = Append(@, h)]
  <2>1. r = TrimGhosts(m)
    BY <1>5 DEF Admit, Ghosts
  <2>2. /\ m.t1 = Append(q.t1, h) /\ m.t2 = q.t2 /\ m.b1 = q.b1 /\ m.b2 = q.b2 /\ m.p = q.p
        /\ m = Rec(Append(q.t1, h), q.t2, q.b1, q.b2, q.p)
    <3>1. q \in Shape /\ Append(q.t1, h) \in Seq(Hashes)
      BY <1>2 DEF PolicyOK, Lists, IsList
    <3>2. m = Rec(Append(q.t1, h), q.t2, q.b1, q.b2, q.p)
      BY <3>1, SetT1, Zenon DEF Shape
    <3> QED
      BY <3>2 DEF Rec
  <2> HIDE DEF m, r
  <2>3. Lists(m)
    BY <1>1, <1>2, <1>5, <2>2 DEF PolicyOK, Lists, Shape, Pol, Rec, Apart, IsList, Ghosts
  <2>4. /\ PolicyOK(r) /\ r.t1 = m.t1 /\ r.t2 = m.t2
        /\ Range(r.b1) \subseteq Range(m.b1) /\ Range(r.b2) \subseteq Range(m.b2)
    BY <1>5, <2>1, <2>3, TrimmedOK
  <2> QED
    BY <1>5, <2>2, <2>4 DEF AdmitsNew, Ghosts, r
<1>6. CASE kind = "arc" /\ h \in Range(q.b1)
  <2> DEFINE u == Reused(q, h)
             p == Smaller(ArcSize, u.p + Delta(q.b1, q.b2))
             m == [u EXCEPT !.p = p, !.b1 = Drop(@, h)]
  <2>6. h \notin Range(q.b2)
    BY <1>6 DEF PolicyOK, Lists, Apart
  <2>1. r = TrimGhosts(m)
    BY <1>6, <2>6 DEF Admit
  <2>0. /\ u \in Shape /\ u.t1 = q.t1 /\ u.t2 = Append(q.t2, h)
        /\ u.b1 = q.b1 /\ u.b2 = q.b2 /\ u.p = q.p
    <3>1. q \in Shape /\ Append(q.t2, h) \in Seq(Hashes)
      BY <1>2 DEF PolicyOK, Lists, IsList
    <3> QED
      BY <3>1, ReusedShape
  <2>3. p \in 0..ArcSize
    BY <2>0, TargetRange DEF PolicyOK
  <2> HIDE DEF p
  <2>2. /\ m.t1 = q.t1 /\ m.t2 = Append(q.t2, h) /\ m.b1 = Drop(q.b1, h) /\ m.b2 = q.b2
        /\ m = Rec(q.t1, Append(q.t2, h), Drop(q.b1, h), q.b2, p)
    <3> HIDE DEF u
    <3>3. Drop(u.b1, h) \in Seq(Hashes)
      BY <1>3, <2>0 DEF IsList
    <3>4. m = Rec(u.t1, u.t2, Drop(u.b1, h), u.b2, p)
      <4> DEFINE b == Drop(u.b1, h)
                 v == [u EXCEPT !.p = p]
      <4>1. v = Rec(u.t1, u.t2, u.b1, u.b2, p)
        <5> DEFINE keys == Seq(Hashes)
                   target == 0..ArcSize
        <5>1. u \in Pol(keys, target) /\ p \in target
          BY <2>0, <2>3 DEF Shape
        <5> HIDE DEF keys, target
        <5> QED
          BY <5>1, SetP
      <4>2. v \in Shape
        BY <2>0, <2>3, <4>1 DEF Shape, Pol, Rec
      <4>3. m = [v EXCEPT !.b1 = b]
        OBVIOUS
      <4> HIDE DEF m, v, b
      <4>4. [v EXCEPT !.b1 = b] = Rec(v.t1, v.t2, b, v.b2, v.p)
        <5>1. b \in Seq(Hashes)
          BY <3>3 DEF b
        <5> QED
          BY <4>2, <5>1, SetB1, Zenon DEF Shape
      <4> QED
        BY <4>1, <4>3, <4>4 DEF Rec, b
    <3> QED
      BY <2>0, <3>4 DEF Rec
  <2> HIDE DEF m, r
  <2>4. Lists(m)
    BY <1>1, <1>2, <1>3, <1>6, <2>2, <2>3 DEF PolicyOK, Lists, Shape, Pol, Rec, Apart, IsList
  <2>5. /\ PolicyOK(r) /\ r.t1 = m.t1 /\ r.t2 = m.t2
        /\ Range(r.b1) \subseteq Range(m.b1) /\ Range(r.b2) \subseteq Range(m.b2)
    BY <1>6, <2>1, <2>4, TrimmedOK
  <2> QED
    BY <1>3, <1>6, <2>2, <2>5, <2>6 DEF AdmitsGhost, Ghosts, r
<1>7. CASE kind = "arc" /\ h \in Range(q.b2)
  <2> DEFINE u == Reused(q, h)
             p == Larger(0, u.p - Delta(q.b2, q.b1))
             m == [u EXCEPT !.p = p, !.b2 = Drop(@, h)]
  <2>6. h \notin Range(q.b1)
    BY <1>7 DEF PolicyOK, Lists, Apart
  <2>1. r = TrimGhosts(m)
    BY <1>7, <2>6 DEF Admit
  <2>0. /\ u \in Shape /\ u.t1 = q.t1 /\ u.t2 = Append(q.t2, h)
        /\ u.b1 = q.b1 /\ u.b2 = q.b2 /\ u.p = q.p
    <3>1. q \in Shape /\ Append(q.t2, h) \in Seq(Hashes)
      BY <1>2 DEF PolicyOK, Lists, IsList
    <3> QED
      BY <3>1, ReusedShape
  <2>3. p \in 0..ArcSize
    BY <2>0, TargetRange DEF PolicyOK
  <2> HIDE DEF p
  <2>2. /\ m.t1 = q.t1 /\ m.t2 = Append(q.t2, h) /\ m.b2 = Drop(q.b2, h) /\ m.b1 = q.b1
        /\ m = Rec(q.t1, Append(q.t2, h), q.b1, Drop(q.b2, h), p)
    <3> HIDE DEF u
    <3>3. Drop(u.b2, h) \in Seq(Hashes)
      BY <1>3, <2>0 DEF IsList
    <3>4. m = Rec(u.t1, u.t2, u.b1, Drop(u.b2, h), p)
      <4> DEFINE b == Drop(u.b2, h)
                 v == [u EXCEPT !.p = p]
      <4>1. v = Rec(u.t1, u.t2, u.b1, u.b2, p)
        <5> DEFINE keys == Seq(Hashes)
                   target == 0..ArcSize
        <5>1. u \in Pol(keys, target) /\ p \in target
          BY <2>0, <2>3 DEF Shape
        <5> HIDE DEF keys, target
        <5> QED
          BY <5>1, SetP
      <4>2. v \in Shape
        BY <2>0, <2>3, <4>1 DEF Shape, Pol, Rec
      <4>3. m = [v EXCEPT !.b2 = b]
        OBVIOUS
      <4> HIDE DEF m, v, b
      <4>4. [v EXCEPT !.b2 = b] = Rec(v.t1, v.t2, v.b1, b, v.p)
        <5>1. b \in Seq(Hashes)
          BY <3>3 DEF b
        <5> QED
          BY <4>2, <5>1, SetB2, Zenon DEF Shape
      <4> QED
        BY <4>1, <4>3, <4>4 DEF Rec, b
    <3> QED
      BY <2>0, <3>4 DEF Rec
  <2> HIDE DEF m, r
  <2>4. Lists(m)
    BY <1>1, <1>2, <1>3, <1>7, <2>2, <2>3 DEF PolicyOK, Lists, Shape, Pol, Rec, Apart, IsList
  <2>5. /\ PolicyOK(r) /\ r.t1 = m.t1 /\ r.t2 = m.t2
        /\ Range(r.b1) \subseteq Range(m.b1) /\ Range(r.b2) \subseteq Range(m.b2)
    BY <1>7, <2>1, <2>4, TrimmedOK
  <2> QED
    BY <1>3, <1>7, <2>2, <2>5, <2>6 DEF AdmitsGhost, Ghosts, r
<1> QED
  BY <1>4, <1>5, <1>6, <1>7 DEF Ghosts

\* A retained key is used: it comes to the end of its list, or moves from
\* the new keys to the reused ones.
TouchFacts(q, h, r) ==
  /\ PolicyOK(r) /\ r.b1 = q.b1 /\ r.b2 = q.b2
  /\ \/ kind = "lru" /\ r.t1 = ToEnd(q.t1, h) /\ r.t2 = q.t2 /\ h \in Range(q.t1)
     \/ kind = "arc" /\ r.t1 = q.t1 /\ r.t2 = ToEnd(q.t2, h) /\ h \in Range(q.t2)
     \/ kind = "arc" /\ r.t1 = Drop(q.t1, h) /\ r.t2 = Append(q.t2, h) /\ h \in Range(q.t1)

LEMMA TouchOK ==
  ASSUME capacity \in Nat, kind \in {"lru", "arc"}, NEW q, PolicyOK(q), NEW h \in Kept(q)
  PROVE  TouchFacts(q, h, Touch(q, h))
<1> DEFINE r == Touch(q, h)
<1>1. h \in Hashes
  BY ListFacts DEF Kept, PolicyOK, Lists
<1>2. CASE kind = "lru"
  <2>1. h \in Range(q.t1) /\ Range(q.t2) = {} /\ Range(q.b1) = {} /\ Range(q.b2) = {}
    BY <1>2, KindArc DEF PolicyOK, Kept, Ghosts
  <2>2. IsList(ToEnd(q.t1, h), Hashes) /\ Range(ToEnd(q.t1, h)) = Range(q.t1) \cup {h}
    BY <1>1, ToEndFacts DEF PolicyOK, Lists
  <2>3. r = [q EXCEPT !.t1 = ToEnd(@, h)]
    BY <1>2 DEF Touch
  <2>4. /\ r.t1 = ToEnd(q.t1, h) /\ r.t2 = q.t2 /\ r.b1 = q.b1 /\ r.b2 = q.b2 /\ r.p = q.p
        /\ r = Rec(ToEnd(q.t1, h), q.t2, q.b1, q.b2, q.p)
    <3>1. q \in Shape /\ ToEnd(q.t1, h) \in Seq(Hashes)
      BY <2>2, <2>3 DEF PolicyOK, Lists, IsList
    <3>2. r = Rec(ToEnd(q.t1, h), q.t2, q.b1, q.b2, q.p)
      BY <2>2, <2>3, <3>1, SetT1, Zenon DEF Shape
    <3> QED
      BY <3>2 DEF Rec
  <2> HIDE DEF r
  <2>5. Lists(r)
    BY <1>2, <2>1, <2>2, <2>4 DEF PolicyOK, Lists, Shape, Pol, Rec, Apart, IsList
  <2> QED
    BY <1>2, <2>1, <2>4, <2>5 DEF PolicyOK, TouchFacts, r
<1>3. CASE kind = "arc" /\ h \in Range(q.t2)
  <2>1. h \notin Range(q.t1) /\ h \notin Range(q.b1) /\ h \notin Range(q.b2)
    BY <1>3 DEF PolicyOK, Lists, Apart
  <2>2. IsList(ToEnd(q.t2, h), Hashes) /\ Range(ToEnd(q.t2, h)) = Range(q.t2) \cup {h}
    BY <1>1, ToEndFacts DEF PolicyOK, Lists
  <2>3. r = [q EXCEPT !.t2 = ToEnd(@, h)]
    BY <1>3, <2>1 DEF Touch
  <2>4. /\ r.t1 = q.t1 /\ r.t2 = ToEnd(q.t2, h) /\ r.b1 = q.b1 /\ r.b2 = q.b2 /\ r.p = q.p
        /\ r = Rec(q.t1, ToEnd(q.t2, h), q.b1, q.b2, q.p)
    <3>1. q \in Shape /\ ToEnd(q.t2, h) \in Seq(Hashes)
      BY <2>2, <2>3 DEF PolicyOK, Lists, IsList
    <3>2. r = Rec(q.t1, ToEnd(q.t2, h), q.b1, q.b2, q.p)
      BY <2>2, <2>3, <3>1, SetT2, Zenon DEF Shape
    <3> QED
      BY <3>2 DEF Rec
  <2> HIDE DEF r
  <2>5. Lists(r)
    BY <1>3, <2>1, <2>2, <2>4 DEF PolicyOK, Lists, Shape, Pol, Rec, Apart, IsList
  <2> QED
    BY <1>3, <2>4, <2>5 DEF PolicyOK, TouchFacts, r
<1>4. CASE kind = "arc" /\ h \in Range(q.t1)
  <2>1. h \notin Range(q.t2) /\ h \notin Range(q.b1) /\ h \notin Range(q.b2)
    BY <1>4 DEF PolicyOK, Lists, Apart
  <2>2. /\ IsList(Drop(q.t1, h), Hashes) /\ Range(Drop(q.t1, h)) = Range(q.t1) \ {h}
        /\ IsList(Append(q.t2, h), Hashes) /\ Range(Append(q.t2, h)) = Range(q.t2) \cup {h}
    BY <1>1, <2>1, DropFacts, AppendFacts DEF PolicyOK, Lists
  <2> DEFINE u == Reused(q, h)
  <2>3. r = [u EXCEPT !.t1 = Drop(@, h)]
    BY <1>4, <2>1 DEF Touch
  <2>4. /\ r.t1 = Drop(q.t1, h) /\ r.t2 = Append(q.t2, h) /\ r.b1 = q.b1 /\ r.b2 = q.b2
        /\ r = Rec(Drop(q.t1, h), Append(q.t2, h), q.b1, q.b2, q.p)
    <3>1. /\ q \in Shape
          /\ Drop(q.t1, h) \in Seq(Hashes) /\ Append(q.t2, h) \in Seq(Hashes)
      BY <2>2 DEF PolicyOK, Lists, IsList
    <3>2. /\ u \in Shape /\ u.t1 = q.t1 /\ u.t2 = Append(q.t2, h)
          /\ u.b1 = q.b1 /\ u.b2 = q.b2 /\ u.p = q.p
      BY <3>1, ReusedShape
    <3> HIDE DEF u, r
    <3>3. Drop(u.t1, h) \in Seq(Hashes)
      BY <3>1, <3>2
    <3>5. u \in Shape
      BY <3>2
    <3>4. r = Rec(Drop(u.t1, h), u.t2, u.b1, u.b2, u.p)
      BY <2>3, <3>5, <3>3, SetT1, Zenon DEF Shape
    <3> QED
      BY <3>2, <3>4 DEF Rec
  <2> HIDE DEF r
  <2>5. Lists(r)
    BY <1>4, <2>1, <2>2, <2>4 DEF PolicyOK, Lists, Shape, Pol, Rec, Apart, IsList
  <2> QED
    BY <1>4, <2>4, <2>5 DEF PolicyOK, TouchFacts, r
<1> QED
  BY <1>2, <1>3, <1>4 DEF Kept

\* A retained key goes, under ARC to the ghosts of its list.
EvictedFacts(q, h, r) ==
  /\ PolicyOK(r)
  /\ r.t1 = Drop(q.t1, h) /\ r.t2 = Drop(q.t2, h)
  /\ Range(r.b1) \subseteq Range(q.b1) \cup (Range(q.t1) \cap {h})
  /\ Range(r.b2) \subseteq Range(q.b2) \cup (Range(q.t2) \cap {h})

LEMMA EvictedOK ==
  ASSUME capacity \in Nat, kind \in {"lru", "arc"}, NEW q, PolicyOK(q), NEW h \in Kept(q)
  PROVE  EvictedFacts(q, h, Evicted(q, h))
<1> DEFINE r == Evicted(q, h)
<1>1. h \in Hashes
  BY ListFacts DEF Kept, PolicyOK, Lists
<1>2. /\ IsList(Drop(q.t1, h), Hashes) /\ Range(Drop(q.t1, h)) = Range(q.t1) \ {h}
      /\ IsList(Drop(q.t2, h), Hashes) /\ Range(Drop(q.t2, h)) = Range(q.t2) \ {h}
      /\ h \notin Range(q.t1) => Drop(q.t1, h) = q.t1
      /\ h \notin Range(q.t2) => Drop(q.t2, h) = q.t2
  BY DropFacts DEF PolicyOK, Lists
<1>3. CASE kind = "lru"
  <2>1. Range(q.t2) = {} /\ Range(q.b1) = {} /\ Range(q.b2) = {}
    BY <1>3, KindArc DEF PolicyOK, Ghosts
  <2>2. r = [q EXCEPT !.t1 = Drop(@, h)]
    BY <1>3 DEF Evicted
  <2>3. /\ r.t1 = Drop(q.t1, h) /\ r.t2 = q.t2 /\ r.b1 = q.b1 /\ r.b2 = q.b2 /\ r.p = q.p
        /\ r = Rec(Drop(q.t1, h), q.t2, q.b1, q.b2, q.p)
    <3>1. q \in Shape /\ Drop(q.t1, h) \in Seq(Hashes)
      BY <1>2, <2>2 DEF PolicyOK, Lists, IsList
    <3>2. r = Rec(Drop(q.t1, h), q.t2, q.b1, q.b2, q.p)
      BY <1>2, <2>2, <3>1, SetT1, Zenon DEF Shape
    <3> QED
      BY <3>2 DEF Rec
  <2> HIDE DEF r
  <2>4. Lists(r)
    BY <1>2, <1>3, <2>1, <2>3 DEF PolicyOK, Lists, Shape, Pol, Rec, Apart, IsList
  <2> QED
    BY <1>2, <2>1, <2>3, <2>4 DEF PolicyOK, EvictedFacts, r
<1>4. CASE kind = "arc" /\ h \in Range(q.t1)
  <2> DEFINE m == [q EXCEPT !.t1 = Drop(@, h), !.b1 = Append(@, h)]
  <2>1. h \notin Range(q.t2) /\ h \notin Range(q.b1) /\ h \notin Range(q.b2)
    BY <1>4 DEF PolicyOK, Lists, Apart
  <2>2. IsList(Append(q.b1, h), Hashes) /\ Range(Append(q.b1, h)) = Range(q.b1) \cup {h}
    BY <1>1, <2>1, AppendFacts DEF PolicyOK, Lists
  <2>3. r = TrimGhosts(m)
    BY <1>4 DEF Evicted
  <2>4. /\ m.t1 = Drop(q.t1, h) /\ m.t2 = q.t2 /\ m.b1 = Append(q.b1, h) /\ m.b2 = q.b2
        /\ m = Rec(Drop(q.t1, h), q.t2, Append(q.b1, h), q.b2, q.p)
    <3>1. /\ q \in Shape
          /\ Drop(q.t1, h) \in Seq(Hashes) /\ Append(q.b1, h) \in Seq(Hashes)
      BY <1>2, <2>2 DEF PolicyOK, Lists, IsList
    <3>2. m = Rec(Drop(q.t1, h), q.t2, Append(q.b1, h), q.b2, q.p)
      BY <3>1, SetFirst, Zenon DEF Shape
    <3> QED
      BY <3>2 DEF Rec
  <2> HIDE DEF m, r
  <2>5. Lists(m)
    BY <1>2, <1>4, <2>1, <2>2, <2>4 DEF PolicyOK, Lists, Shape, Pol, Rec, Apart, IsList
  <2>6. /\ PolicyOK(r) /\ r.t1 = m.t1 /\ r.t2 = m.t2
        /\ Range(r.b1) \subseteq Range(m.b1) /\ Range(r.b2) \subseteq Range(m.b2)
    BY <1>4, <2>3, <2>5, TrimmedOK
  <2> QED
    BY <1>2, <1>4, <2>1, <2>2, <2>4, <2>6 DEF EvictedFacts, r
<1>5. CASE kind = "arc" /\ h \in Range(q.t2)
  <2> DEFINE m == [q EXCEPT !.t2 = Drop(@, h), !.b2 = Append(@, h)]
  <2>1. h \notin Range(q.t1) /\ h \notin Range(q.b1) /\ h \notin Range(q.b2)
    BY <1>5 DEF PolicyOK, Lists, Apart
  <2>2. IsList(Append(q.b2, h), Hashes) /\ Range(Append(q.b2, h)) = Range(q.b2) \cup {h}
    BY <1>1, <2>1, AppendFacts DEF PolicyOK, Lists
  <2>3. r = TrimGhosts(m)
    BY <1>5, <2>1 DEF Evicted
  <2>4. /\ m.t1 = q.t1 /\ m.t2 = Drop(q.t2, h) /\ m.b1 = q.b1 /\ m.b2 = Append(q.b2, h)
        /\ m = Rec(q.t1, Drop(q.t2, h), q.b1, Append(q.b2, h), q.p)
    <3>1. /\ q \in Shape
          /\ Drop(q.t2, h) \in Seq(Hashes) /\ Append(q.b2, h) \in Seq(Hashes)
      BY <1>2, <2>2 DEF PolicyOK, Lists, IsList
    <3>2. m = Rec(q.t1, Drop(q.t2, h), q.b1, Append(q.b2, h), q.p)
      BY <3>1, SetSecond, Zenon DEF Shape
    <3> QED
      BY <3>2 DEF Rec
  <2> HIDE DEF m, r
  <2>5. Lists(m)
    BY <1>2, <1>5, <2>1, <2>2, <2>4 DEF PolicyOK, Lists, Shape, Pol, Rec, Apart, IsList
  <2>6. /\ PolicyOK(r) /\ r.t1 = m.t1 /\ r.t2 = m.t2
        /\ Range(r.b1) \subseteq Range(m.b1) /\ Range(r.b2) \subseteq Range(m.b2)
    BY <1>5, <2>3, <2>5, TrimmedOK
  <2> QED
    BY <1>2, <1>5, <2>1, <2>2, <2>4, <2>6 DEF EvictedFacts, r
<1> QED
  BY <1>3, <1>4, <1>5 DEF Kept

-----------------------------------------------------------------------------
(* The inductive invariant.                                                *)

Table ==
  /\ kind \in {"lru", "arc"} /\ capacity \in Nat
  /\ slots \in [Hashes -> Slots \cup {NoSlot}]
  /\ PolicyOK(pol) /\ Kept(pol) = Resident
  /\ SlotsConserved

InOrder(q, rec) == OrderedBy(q.t1, rec) /\ OrderedBy(q.t2, rec)

ReusedBy(q, u) ==
  kind = "arc" =>
    /\ \A h \in Range(q.t1) \cup Range(q.b1) : u[h] = 1
    /\ \A h \in Range(q.t2) \cup Range(q.b2) : u[h] = 2

History ==
  /\ IsList(recent, Hashes) /\ InOrder(pol, recent)
  /\ uses \in [Hashes -> Nat] /\ ReusedBy(pol, uses)

Inv == Table /\ History

\* The uses that Used leaves behind.
UsesAfter(h, mid, q) ==
  [g \in Hashes |->
     CASE g = h /\ h \in Known(mid)    -> Smaller(2, uses[h] + 1)
       [] g = h /\ h \notin Known(mid) -> 1
       [] g # h                       -> IF g \in Known(q) THEN uses[g] ELSE 0]

LEMMA UsesAfterFacts ==
  ASSUME NEW h \in Hashes, NEW mid, NEW q, uses \in [Hashes -> Nat]
  PROVE  LET u == UsesAfter(h, mid, q)
         IN  /\ u \in [Hashes -> Nat]
             /\ u[h] = IF h \in Known(mid) THEN Smaller(2, uses[h] + 1) ELSE 1
             /\ \A g \in Hashes : g # h => u[g] = IF g \in Known(q) THEN uses[g] ELSE 0
<1>1. Smaller(2, uses[h] + 1) \in Nat
  BY DEF Smaller
<1> QED
  BY <1>1 DEF UsesAfter

LEMMA KnownIs ==
  ASSUME NEW q
  PROVE  \A g : g \in Known(q) <=> g \in Kept(q) \/ g \in Ghosts(q)
BY DEF Known, Kept, Ghosts

\* A key is admitted to a policy that knows what it should.
LEMMA AdmitStep ==
  ASSUME capacity \in Nat, kind \in {"lru", "arc"}, NEW q, PolicyOK(q),
         NEW h \in Hashes, h \notin Kept(q),
         IsList(recent, Hashes), InOrder(q, recent), uses \in [Hashes -> Nat], ReusedBy(q, uses)
  PROVE  LET r == Admit(q, h)
         IN  /\ PolicyOK(r) /\ Kept(r) = Kept(q) \cup {h}
             /\ InOrder(r, ToEnd(recent, h))
             /\ ReusedBy(r, UsesAfter(h, q, r))
<1> DEFINE r == Admit(q, h)
           u == UsesAfter(h, q, r)
<1>1. /\ PolicyOK(r)
      /\ AdmitsNew(q, h, r) \/ AdmitsGhost(q, h, r)
      /\ Range(r.b1) \subseteq Range(q.b1) \ {h} /\ Range(r.b2) \subseteq Range(q.b2) \ {h}
  BY AdmitFacts
<1>2. /\ u[h] = IF h \in Known(q) THEN Smaller(2, uses[h] + 1) ELSE 1
      /\ \A g \in Hashes : g # h => u[g] = IF g \in Known(r) THEN uses[g] ELSE 0
  BY UsesAfterFacts
<1>3. /\ h \notin Range(q.t1) /\ h \notin Range(q.t2) /\ IsList(q.t1, Hashes) /\ IsList(q.t2, Hashes)
      /\ IsList(q.b1, Hashes) /\ IsList(q.b2, Hashes)
  BY DEF Kept, PolicyOK, Lists
<1>4. /\ OrderedBy(q.t1, ToEnd(recent, h)) /\ OrderedBy(Append(q.t1, h), ToEnd(recent, h))
      /\ OrderedBy(q.t2, ToEnd(recent, h)) /\ OrderedBy(Append(q.t2, h), ToEnd(recent, h))
  BY <1>3, OrderedUse DEF InOrder
<1>5. /\ Range(Append(q.t1, h)) = Range(q.t1) \cup {h}
      /\ Range(Append(q.t2, h)) = Range(q.t2) \cup {h}
  BY <1>3, AppendFacts
<1>6. /\ Range(q.t1) \subseteq Hashes /\ Range(q.t2) \subseteq Hashes
      /\ Range(q.b1) \subseteq Hashes /\ Range(q.b2) \subseteq Hashes
  BY <1>3, ListFacts
<1> HIDE DEF r, u
<1>7. InOrder(r, ToEnd(recent, h))
  BY <1>1, <1>4 DEF InOrder, AdmitsNew, AdmitsGhost
<1>8. Kept(r) = Kept(q) \cup {h}
  BY <1>1, <1>5 DEF Kept, AdmitsNew, AdmitsGhost
<1>9. \A g : g \in Range(r.t1) \cup Range(r.t2) \cup Range(r.b1) \cup Range(r.b2) => g \in Known(r)
  BY DEF Known
<1>10. ASSUME kind = "arc", AdmitsNew(q, h, r) PROVE ReusedBy(r, u)
  <2>1. u[h] = 1
    BY <1>2, <1>3, <1>10, KnownIs DEF AdmitsNew, Kept
  <2>2. \A g \in Range(r.t1) \cup Range(r.b1) : u[g] = 1
    BY <1>1, <1>2, <1>5, <1>6, <1>9, <1>10, <2>1 DEF AdmitsNew, ReusedBy
  <2>3. \A g \in Range(r.t2) \cup Range(r.b2) : u[g] = 2
    BY <1>1, <1>2, <1>3, <1>5, <1>6, <1>9, <1>10 DEF AdmitsNew, ReusedBy
  <2> QED
    BY <2>2, <2>3 DEF ReusedBy
<1>11. ASSUME kind = "arc", AdmitsGhost(q, h, r) PROVE ReusedBy(r, u)
  <2>1. u[h] = 2
    <3>1. h \in Known(q) /\ (uses[h] = 1 \/ uses[h] = 2)
      BY <1>11, KnownIs DEF AdmitsGhost, ReusedBy, Ghosts
    <3> QED
      BY <1>2, <3>1 DEF Smaller
  <2>2. \A g \in Range(r.t1) \cup Range(r.b1) : u[g] = 1
    BY <1>1, <1>2, <1>3, <1>6, <1>9, <1>11 DEF AdmitsGhost, ReusedBy
  <2>3. \A g \in Range(r.t2) \cup Range(r.b2) : u[g] = 2
    BY <1>1, <1>2, <1>5, <1>6, <1>9, <1>11, <2>1 DEF AdmitsGhost, ReusedBy
  <2> QED
    BY <2>2, <2>3 DEF ReusedBy
<1>12. ReusedBy(r, u)
  BY <1>1, <1>10, <1>11 DEF ReusedBy
<1> QED
  BY <1>1, <1>7, <1>8, <1>12 DEF r, u

\* A key is evicted: the order stays, and nobody is new to the policy.
LEMMA EvictStep ==
  ASSUME capacity \in Nat, kind \in {"lru", "arc"}, NEW q, PolicyOK(q), NEW h \in Kept(q),
         NEW m, InOrder(q, m), NEW u, ReusedBy(q, u)
  PROVE  LET r == Evicted(q, h)
         IN  /\ PolicyOK(r) /\ Kept(r) = Kept(q) \ {h}
             /\ Known(r) \subseteq Known(q)
             /\ InOrder(r, m) /\ ReusedBy(r, u)
<1> DEFINE r == Evicted(q, h)
<1>1. EvictedFacts(q, h, r)
  BY EvictedOK
<1>2. /\ Range(Drop(q.t1, h)) = Range(q.t1) \ {h}
      /\ Range(Drop(q.t2, h)) = Range(q.t2) \ {h}
  BY DropFacts DEF PolicyOK, Lists
<1>3. /\ OrderedBy(Drop(q.t1, h), m)
      /\ OrderedBy(Drop(q.t2, h), m)
  BY OrderedDrop DEF PolicyOK, Lists, InOrder
<1> HIDE DEF r
<1>4. InOrder(r, m)
  BY <1>1, <1>3 DEF InOrder, EvictedFacts
<1>5. Kept(r) = Kept(q) \ {h}
  BY <1>1, <1>2 DEF Kept, EvictedFacts
<1>6. Known(r) \subseteq Known(q)
  BY <1>1, <1>2 DEF Known, EvictedFacts
<1>7. ReusedBy(r, u)
  BY <1>1, <1>2 DEF ReusedBy, EvictedFacts
<1> QED
  BY <1>1, <1>4, <1>5, <1>6, <1>7 DEF EvictedFacts, r

\* A retained key is used.
LEMMA TouchStep ==
  ASSUME capacity \in Nat, kind \in {"lru", "arc"}, NEW q, PolicyOK(q), NEW h \in Kept(q),
         IsList(recent, Hashes), InOrder(q, recent), uses \in [Hashes -> Nat], ReusedBy(q, uses)
  PROVE  LET r == Touch(q, h)
         IN  /\ PolicyOK(r) /\ Kept(r) = Kept(q)
             /\ InOrder(r, ToEnd(recent, h))
             /\ ReusedBy(r, UsesAfter(h, q, r))
<1> DEFINE r == Touch(q, h)
           u == UsesAfter(h, q, r)
           d1 == Drop(q.t1, h)
           d2 == Drop(q.t2, h)
<1>1. TouchFacts(q, h, r)
  BY TouchOK
<1>2. /\ IsList(q.t1, Hashes) /\ IsList(q.t2, Hashes) /\ IsList(q.b1, Hashes) /\ IsList(q.b2, Hashes)
      /\ Apart(q.t1, q.t2) /\ Apart(q.t1, q.b1) /\ Apart(q.t1, q.b2)
      /\ Apart(q.t2, q.b1) /\ Apart(q.t2, q.b2)
  BY DEF PolicyOK, Lists
<1>3. h \in Hashes
  BY <1>2, ListFacts DEF Kept
<1>4. /\ u[h] = IF h \in Known(q) THEN Smaller(2, uses[h] + 1) ELSE 1
      /\ \A g \in Hashes : g # h => u[g] = IF g \in Known(r) THEN uses[g] ELSE 0
  BY <1>3, UsesAfterFacts
<1>5. /\ IsList(d1, Hashes) /\ Range(d1) = Range(q.t1) \ {h} /\ OrderedBy(d1, recent)
      /\ h \notin Range(q.t1) => d1 = q.t1
      /\ IsList(d2, Hashes) /\ Range(d2) = Range(q.t2) \ {h} /\ OrderedBy(d2, recent)
      /\ h \notin Range(q.t2) => d2 = q.t2
  BY <1>2, DropFacts, OrderedDrop DEF InOrder
<1>6. /\ ToEnd(q.t1, h) = Append(d1, h) /\ ToEnd(q.t2, h) = Append(d2, h)
  BY DEF ToEnd
<1> HIDE DEF r, u, d1, d2
<1>7. /\ OrderedBy(d1, ToEnd(recent, h)) /\ OrderedBy(Append(d1, h), ToEnd(recent, h))
      /\ OrderedBy(d2, ToEnd(recent, h)) /\ OrderedBy(Append(d2, h), ToEnd(recent, h))
  <2>1. h \notin Range(d1) /\ h \notin Range(d2)
    BY <1>5
  <2> QED
    BY <1>3, <1>5, <2>1, OrderedUse
<1>8. /\ Range(Append(d1, h)) = Range(d1) \cup {h}
      /\ Range(Append(d2, h)) = Range(d2) \cup {h}
  <2>1. h \notin Range(d1) /\ h \notin Range(d2)
    BY <1>5
  <2> QED
    BY <1>3, <1>5, <2>1, AppendFacts
<1>9. /\ r.b1 = q.b1 /\ r.b2 = q.b2
      /\ \/ r.t1 = Append(d1, h) /\ r.t2 = d2 /\ kind = "lru" /\ h \in Range(q.t1)
         \/ r.t1 = d1 /\ r.t2 = Append(d2, h) /\ kind = "arc"
  <2>1. \/ kind = "lru" /\ r.t1 = Append(d1, h) /\ r.t2 = q.t2 /\ h \in Range(q.t1)
        \/ kind = "arc" /\ r.t1 = q.t1 /\ r.t2 = Append(d2, h) /\ h \in Range(q.t2)
        \/ kind = "arc" /\ r.t1 = d1 /\ r.t2 = Append(q.t2, h) /\ h \in Range(q.t1)
    BY <1>1, <1>6 DEF TouchFacts, d1
  <2>2. h \in Range(q.t1) => h \notin Range(q.t2)
    BY <1>2 DEF Apart
  <2> QED
    BY <1>1, <1>5, <2>1, <2>2 DEF TouchFacts
<1>10. InOrder(r, ToEnd(recent, h))
  BY <1>7, <1>9 DEF InOrder
<1>11. Kept(r) = Kept(q)
  BY <1>5, <1>8, <1>9 DEF Kept
<1>12. ASSUME kind = "arc" PROVE ReusedBy(r, u)
  <2>1. r.t1 = d1 /\ r.t2 = Append(d2, h) /\ r.b1 = q.b1 /\ r.b2 = q.b2
    BY <1>9, <1>12
  <2>2. /\ Range(q.t1) \subseteq Hashes /\ Range(q.t2) \subseteq Hashes
        /\ Range(q.b1) \subseteq Hashes /\ Range(q.b2) \subseteq Hashes
    BY <1>2, ListFacts
  <2>3. u[h] = 2
    <3>1. h \in Known(q) /\ (uses[h] = 1 \/ uses[h] = 2)
      BY <1>12, KnownIs DEF ReusedBy, Kept
    <3> QED
      BY <1>4, <3>1 DEF Smaller
  <2>4. \A g : g \in Range(r.t1) \cup Range(r.t2) \cup Range(r.b1) \cup Range(r.b2)
               => g \in Known(r)
    BY DEF Known
  <2>5. h \notin Range(q.b1) /\ h \notin Range(q.b2)
    BY <1>2 DEF Apart, Kept
  <2>6. \A g \in Range(r.t1) \cup Range(r.b1) : u[g] = 1
    BY <1>4, <1>5, <1>12, <2>1, <2>2, <2>4, <2>5 DEF ReusedBy
  <2>7. \A g \in Range(r.t2) \cup Range(r.b2) : u[g] = 2
    BY <1>4, <1>5, <1>8, <1>12, <2>1, <2>2, <2>3, <2>4, <2>5 DEF ReusedBy
  <2> QED
    BY <2>6, <2>7 DEF ReusedBy
<1>13. ReusedBy(r, u)
  BY <1>12 DEF ReusedBy
<1> QED
  BY <1>1, <1>10, <1>11, <1>13 DEF TouchFacts, r, u

-----------------------------------------------------------------------------
(* The victim.                                                             *)

LEMMA LeastPlace ==
  ASSUME NEW T \in SUBSET Nat, T # {}
  PROVE  \E m \in T : \A n \in T : m <= n
<1>1. PICK m \in T : \A n \in T : <<n, m>> \notin OpToRel(<, Nat)
  BY NatLessThanWellFounded, WFMin, Zenon
<1>2. \A n \in T : ~(n < m)
  BY <1>1, Zenon DEF OpToRel
<1>3. m \in Nat /\ \A n \in T : n \in Nat
  OBVIOUS
<1> QED
  BY <1>2, <1>3

LEMMA VictimsFacts ==
  ASSUME PolicyOK(pol)
  PROVE  DOMAIN Victims(pol) \subseteq Nat /\ Range(Victims(pol)) = Kept(pol)
<1>1. pol.t1 \in Seq(Hashes) /\ pol.t2 \in Seq(Hashes)
  BY DEF PolicyOK, Lists, IsList
<1>2. /\ pol.t1 \o pol.t2 \in Seq(Hashes) /\ pol.t2 \o pol.t1 \in Seq(Hashes)
      /\ Range(pol.t1 \o pol.t2) = Range(pol.t1) \cup Range(pol.t2)
      /\ Range(pol.t2 \o pol.t1) = Range(pol.t2) \cup Range(pol.t1)
  BY <1>1, ConcatProperties, RangeConcatenation
<1>3. Victims(pol) \in Seq(Hashes) /\ Range(Victims(pol)) = Kept(pol)
  BY <1>2 DEF Victims, Kept
<1> HIDE DEF Victims
<1>4. DOMAIN Victims(pol) = 1..Len(Victims(pol)) /\ Len(Victims(pol)) \in Nat
  BY <1>3, LenProperties
<1> QED
  BY <1>3, <1>4

\* evict_one finds an entry that nobody reads, unless every entry is read.
LEMMA VictimFacts ==
  ASSUME Table
  PROVE  /\ Candidates # {} => FirstVictim \in Resident /\ ~Pinned(FirstVictim)
         /\ Candidates = {} => \A h \in Resident : Pinned(h)
<1> DEFINE w == Victims(pol)
<1>1. DOMAIN w \subseteq Nat /\ Range(w) = Resident
  BY VictimsFacts DEF Table
<1>2. Candidates = {i \in DOMAIN w : slots[w[i]] # NoSlot /\ ~Pinned(w[i])}
  BY DEF Candidates
<1>3. FirstVictim = w[CHOOSE i \in Candidates : \A k \in Candidates : i <= k]
  BY DEF FirstVictim
<1> HIDE DEF w
<1>4. ASSUME Candidates # {} PROVE FirstVictim \in Resident /\ ~Pinned(FirstVictim)
  <2>1. \E i \in Candidates : \A k \in Candidates : i <= k
    BY <1>1, <1>2, <1>4, LeastPlace
  <2>2. PICK i \in Candidates : FirstVictim = w[i]
    BY <1>3, <2>1
  <2> QED
    BY <1>1, <1>2, <2>2 DEF Range
<1>5. ASSUME Candidates = {}, NEW h \in Resident PROVE Pinned(h)
  <2>1. PICK i \in DOMAIN w : w[i] = h
    BY <1>1 DEF Range
  <2> QED
    BY <1>2, <1>5, <2>1 DEF Resident
<1> QED
  BY <1>4, <1>5

-----------------------------------------------------------------------------
(* Every step keeps the invariant.                                         *)

LEMMA EmptyList == IsList(<<>>, Hashes) /\ Range(<<>>) = {} /\ Len(<<>>) = 0
BY EmptySeq DEF Range, IsList, IsInjective

\* What a policy knows at the start and after a drain.
LEMMA EmptyPolicy ==
  ASSUME capacity \in Nat, NEW u
  PROVE  PolicyOK(Empty) /\ Kept(Empty) = {} /\ InOrder(Empty, <<>>) /\ ReusedBy(Empty, u)
<1>1. /\ Empty.t1 = <<>> /\ Empty.t2 = <<>> /\ Empty.b1 = <<>> /\ Empty.b2 = <<>>
      /\ Empty = Rec(<<>>, <<>>, <<>>, <<>>, 0)
  BY DEF Empty, Rec
<1>2. ArcSize \in Nat /\ 0 \in 0..ArcSize
  BY DEF ArcSize, Larger
<1>3. Empty \in Shape
  BY <1>1, <1>2, EmptyList DEF Shape, Pol, Rec, IsList
<1> HIDE DEF Empty
<1>4. PolicyOK(Empty)
  BY <1>1, <1>2, <1>3, EmptyList DEF PolicyOK, Lists, Apart
<1>5. Kept(Empty) = {}
  BY <1>1, EmptyList DEF Kept
<1>6. InOrder(Empty, <<>>)
  BY <1>1, EmptyList DEF InOrder, OrderedBy, Before
<1>7. ReusedBy(Empty, u)
  BY <1>1, EmptyList DEF ReusedBy
<1> QED
  BY <1>4, <1>5, <1>6, <1>7

LEMMA InitInv == Init => Inv
<1> SUFFICES ASSUME Init PROVE Inv
  OBVIOUS
<1>1. kind \in {"lru", "arc"} /\ capacity \in Nat /\ pol = Empty
  BY CacheAssumption DEF Init
<1>2. /\ PolicyOK(pol) /\ Kept(pol) = {} /\ InOrder(pol, <<>>) /\ ReusedBy(pol, uses)
  BY <1>1, EmptyPolicy
<1>3. Resident = {}
  BY DEF Init, Resident
<1>4. SlotsConserved
  BY <1>3 DEF Init, SlotsConserved
<1>5. Table
  BY <1>1, <1>2, <1>3, <1>4 DEF Init, Table
<1>6. History
  BY <1>2, EmptyList DEF Init, History
<1> QED
  BY <1>5, <1>6 DEF Inv

\* The parts of Table and History that rest on the policy and the kind alone.
LEMMA Carried ==
  ASSUME NEW q, PolicyOK(q), UNCHANGED <<kind, capacity>>, pol' = q
  PROVE  PolicyOK(pol)' /\ Kept(pol)' = Kept(q)
BY DEF PolicyOK, Lists, Shape, ArcSize, Kept

LEMMA PutInv ==
  ASSUME Inv, NEW h \in Hashes, NEW s \in Slots, Put(h, s)
  PROVE  Inv'
<1> DEFINE full == Cardinality(Resident) >= capacity
           v == IF full /\ Candidates # {} THEN {FirstVictim} ELSE {}
           mid == IF v = {} THEN pol ELSE Evicted(pol, FirstVictim)
           q == Admit(mid, h)
<1>1. /\ s \in free /\ capacity > 0 /\ h \notin Resident
      /\ slots' = [g \in Hashes |->
                     IF g = h THEN s ELSE IF g \in v THEN NoSlot ELSE slots[g]]
      /\ pol' = q /\ free' = (free \ {s}) \cup {slots[g] : g \in v}
      /\ Used(h, mid, q)
      /\ UNCHANGED <<kind, capacity, copies>>
  BY DEF Put, Keep
<1>2. /\ kind \in {"lru", "arc"} /\ capacity \in Nat
      /\ slots \in [Hashes -> Slots \cup {NoSlot}] /\ PolicyOK(pol) /\ Kept(pol) = Resident
      /\ SlotsConserved
      /\ IsList(recent, Hashes) /\ InOrder(pol, recent)
      /\ uses \in [Hashes -> Nat] /\ ReusedBy(pol, uses)
  BY DEF Inv, Table, History
<1>3. v \subseteq Resident /\ \A g, k \in v : g = k
  BY VictimFacts DEF Inv
<1>4. /\ PolicyOK(mid) /\ Kept(mid) = Resident \ v
      /\ InOrder(mid, recent) /\ ReusedBy(mid, uses)
  <2>1. CASE v = {}
    BY <1>2, <2>1
  <2>2. CASE v # {}
    <3>1. v = {FirstVictim} /\ mid = Evicted(pol, FirstVictim) /\ FirstVictim \in Kept(pol)
      BY <1>2, <1>3, <2>2
    <3> QED
      BY <1>2, <3>1, EvictStep
  <2> QED
    BY <2>1, <2>2
<1> HIDE DEF v, mid
<1>5. /\ PolicyOK(q) /\ Kept(q) = Kept(mid) \cup {h}
      /\ InOrder(q, ToEnd(recent, h)) /\ ReusedBy(q, UsesAfter(h, mid, q))
  BY <1>1, <1>2, <1>4, AdmitStep
<1> HIDE DEF q
<1>6. PolicyOK(pol)' /\ Kept(pol)' = (Resident \ v) \cup {h}
  BY <1>1, <1>4, <1>5, Carried
<1>7. /\ slots' \in [Hashes -> Slots \cup {NoSlot}]
      /\ Resident' = (Resident \ v) \cup {h}
  BY <1>1, <1>2, CacheAssumption DEF Resident
<1>8. SlotsConserved'
  <2>1. \A g \in Hashes : slots'[g] = IF g = h THEN s ELSE IF g \in v THEN NoSlot ELSE slots[g]
    BY <1>1
  <2>2. s \in Slots /\ \A g \in Resident : slots[g] # s
    BY <1>1, <1>2 DEF SlotsConserved
  <2>3. \A g \in Resident' : g = h \/ (g \in Resident /\ g \notin v /\ slots'[g] = slots[g])
    BY <1>1, <1>7, <2>1 DEF Resident
  <2>4. slots'[h] = s
    BY <2>1
  <2>5. \A g, k \in Resident' : slots'[g] = slots'[k] => g = k
    BY <1>2, <2>2, <2>3, <2>4 DEF SlotsConserved
  <2>6. ASSUME NEW x PROVE x \in free' <=> x \in Slots /\ \A g \in Resident' : slots'[g] # x
    <3>1. x \in free <=> x \in Slots /\ \A g \in Resident : slots[g] # x
      BY <1>2 DEF SlotsConserved
    <3>2. x \in free' <=> (x \in free /\ x # s) \/ \E g \in v : slots[g] = x
      BY <1>1
    <3>3. ASSUME x \in free' PROVE x \in Slots /\ \A g \in Resident' : slots'[g] # x
      <4>1. CASE x \in free /\ x # s
        BY <2>3, <2>4, <3>1, <4>1
      <4>2. CASE \E g \in v : slots[g] = x
        <5>1. PICK g \in v : slots[g] = x
          BY <4>2
        <5>2. g \in Resident /\ x \in Slots
          BY <1>2, <1>3, <5>1 DEF Resident
        <5>3. x # s
          BY <2>2, <5>1, <5>2
        <5> QED
          BY <1>2, <2>3, <2>4, <5>1, <5>2, <5>3 DEF SlotsConserved
      <4> QED
        BY <3>2, <3>3, <4>1, <4>2
    <3>4. ASSUME x \in Slots, \A g \in Resident' : slots'[g] # x PROVE x \in free'
      <4>1. x # s
        BY <1>7, <2>4, <3>4
      <4>2. ASSUME NEW g \in Resident, slots[g] = x PROVE g \in v
        <5>1. g \in Hashes /\ g # h
          BY <1>1 DEF Resident
        <5> QED
          BY <1>7, <2>1, <3>4, <4>2, <5>1
      <4> QED
        BY <3>1, <3>2, <3>4, <4>1, <4>2
    <3> QED
      BY <3>3, <3>4
  <2>7. free' = Slots \ {slots'[g] : g \in Resident'}
    BY <2>6
  <2> QED
    BY <2>5, <2>7 DEF SlotsConserved
<1>9. Table'
  BY <1>1, <1>2, <1>6, <1>7, <1>8 DEF Table
<1>10. recent' = ToEnd(recent, h) /\ uses' = UsesAfter(h, mid, q)
  BY <1>1 DEF Used, UsesAfter
<1>11. History'
  <2>1. IsList(recent', Hashes)
    BY <1>2, <1>10, ToEndFacts
  <2>2. uses' \in [Hashes -> Nat]
    BY <1>2, <1>10, UsesAfterFacts
  <2>3. InOrder(pol', recent') /\ ReusedBy(pol, uses)'
    BY <1>1, <1>5, <1>10 DEF ReusedBy
  <2> QED
    BY <2>1, <2>2, <2>3 DEF History, InOrder
<1> QED
  BY <1>9, <1>11 DEF Inv

LEMMA EvictOneInv ==
  ASSUME Inv, EvictOne
  PROVE  Inv'
<1> DEFINE v == FirstVictim
           q == Evicted(pol, v)
           u == [g \in Hashes |-> IF g \in Known(q) THEN uses[g] ELSE 0]
<1>1. /\ Candidates # {}
      /\ slots' = [slots EXCEPT ![v] = NoSlot] /\ free' = free \cup {slots[v]}
      /\ pol' = q /\ uses' = u
      /\ UNCHANGED <<kind, capacity, copies, recent>>
  BY DEF EvictOne
<1>2. /\ kind \in {"lru", "arc"} /\ capacity \in Nat
      /\ slots \in [Hashes -> Slots \cup {NoSlot}] /\ PolicyOK(pol) /\ Kept(pol) = Resident
      /\ SlotsConserved
      /\ IsList(recent, Hashes) /\ InOrder(pol, recent)
      /\ uses \in [Hashes -> Nat] /\ ReusedBy(pol, uses)
  BY DEF Inv, Table, History
<1>3. v \in Resident
  BY <1>1, VictimFacts DEF Inv
<1> HIDE DEF v
<1>4. /\ PolicyOK(q) /\ Kept(q) = Resident \ {v}
      /\ InOrder(q, recent) /\ ReusedBy(q, uses)
  BY <1>2, <1>3, EvictStep
<1> HIDE DEF q
<1>5. PolicyOK(pol)' /\ Kept(pol)' = Resident \ {v}
  BY <1>1, <1>4, Carried
<1>6. /\ slots' \in [Hashes -> Slots \cup {NoSlot}]
      /\ Resident' = Resident \ {v}
      /\ \A g \in Resident' : slots'[g] = slots[g]
  BY <1>1, <1>2 DEF Resident
<1>7. SlotsConserved'
  <2>1. slots[v] \in Slots /\ \A g \in Resident : slots[g] = slots[v] => g = v
    BY <1>2, <1>3 DEF SlotsConserved, Resident
  <2>2. ASSUME NEW x PROVE x \in free' <=> x \in Slots /\ \A g \in Resident' : slots'[g] # x
    <3>1. x \in free <=> x \in Slots /\ \A g \in Resident : slots[g] # x
      BY <1>2 DEF SlotsConserved
    <3> QED
      BY <1>1, <1>3, <1>6, <2>1, <3>1
  <2>3. free' = Slots \ {slots'[g] : g \in Resident'}
    BY <2>2
  <2>4. \A g, k \in Resident' : slots'[g] = slots'[k] => g = k
    BY <1>2, <1>6 DEF SlotsConserved
  <2> QED
    BY <2>3, <2>4 DEF SlotsConserved
<1>8. Table'
  BY <1>1, <1>2, <1>5, <1>6, <1>7 DEF Table
<1>9. uses' \in [Hashes -> Nat]
  BY <1>1, <1>2
<1>10. ReusedBy(pol, uses)'
  <2>1. \A g \in Range(q.t1) \cup Range(q.b1) \cup Range(q.t2) \cup Range(q.b2) :
          g \in Hashes /\ g \in Known(q)
    BY <1>4, ListFacts DEF Known, PolicyOK, Lists
  <2>2. \A g \in Hashes : g \in Known(q) => u[g] = uses[g]
    OBVIOUS
  <2> HIDE DEF u
  <2>3. ReusedBy(q, u)
    BY <1>4, <2>1, <2>2 DEF ReusedBy
  <2> QED
    BY <1>1, <2>3 DEF ReusedBy
<1>11. InOrder(pol, recent)'
  BY <1>1, <1>4 DEF InOrder
<1>12. History'
  BY <1>1, <1>2, <1>9, <1>10, <1>11 DEF History
<1> QED
  BY <1>8, <1>12 DEF Inv

LEMMA CopyStartsInv ==
  ASSUME Inv, NEW c \in Copies, NEW h \in Hashes, CopyStarts(c, h)
  PROVE  Inv'
<1> DEFINE q == Touch(pol, h)
<1>1. /\ h \in Resident
      /\ pol' = q /\ recent' = ToEnd(recent, h) /\ uses' = UsesAfter(h, pol, q)
      /\ UNCHANGED <<kind, capacity, slots, free>>
  BY DEF CopyStarts, Used, UsesAfter
<1>2. /\ kind \in {"lru", "arc"} /\ capacity \in Nat
      /\ slots \in [Hashes -> Slots \cup {NoSlot}] /\ PolicyOK(pol) /\ Kept(pol) = Resident
      /\ SlotsConserved
      /\ IsList(recent, Hashes) /\ InOrder(pol, recent)
      /\ uses \in [Hashes -> Nat] /\ ReusedBy(pol, uses)
  BY DEF Inv, Table, History
<1>3. /\ PolicyOK(q) /\ Kept(q) = Resident
      /\ InOrder(q, ToEnd(recent, h)) /\ ReusedBy(q, UsesAfter(h, pol, q))
  BY <1>1, <1>2, TouchStep
<1> HIDE DEF q
<1>4. PolicyOK(pol)' /\ Kept(pol)' = Resident
  BY <1>1, <1>3, Carried
<1>5. Resident' = Resident /\ SlotsConserved'
  BY <1>1, <1>2 DEF Resident, SlotsConserved
<1>6. Table'
  BY <1>1, <1>2, <1>4, <1>5 DEF Table
<1>7. IsList(recent', Hashes)
  BY <1>1, <1>2, ToEndFacts
<1>8. uses' \in [Hashes -> Nat]
  BY <1>1, <1>2, UsesAfterFacts
<1>9. InOrder(pol, recent)' /\ ReusedBy(pol, uses)'
  BY <1>1, <1>3 DEF InOrder, ReusedBy
<1>10. History'
  BY <1>7, <1>8, <1>9 DEF History
<1> QED
  BY <1>6, <1>10 DEF Inv

LEMMA DrainInv ==
  ASSUME Inv, Drain
  PROVE  Inv'
<1>1. /\ slots' = [h \in Hashes |-> NoSlot] /\ free' = free \cup {slots[h] : h \in Resident}
      /\ pol' = Empty /\ recent' = <<>> /\ uses' = [h \in Hashes |-> 0]
      /\ UNCHANGED <<kind, capacity>>
  BY DEF Drain
<1>2. /\ kind \in {"lru", "arc"} /\ capacity \in Nat
      /\ slots \in [Hashes -> Slots \cup {NoSlot}] /\ SlotsConserved
  BY DEF Inv, Table
<1>3. PolicyOK(Empty) /\ Kept(Empty) = {} /\ InOrder(Empty, <<>>) /\ ReusedBy(Empty, uses')
  BY <1>2, EmptyPolicy
<1>4. PolicyOK(pol)' /\ Kept(pol)' = {}
  BY <1>1, <1>3, Carried
<1>5. Resident' = {}
  BY <1>1 DEF Resident
<1>6. SlotsConserved'
  <2>1. free' = Slots
    BY <1>1, <1>2 DEF SlotsConserved, Resident
  <2> QED
    BY <1>5, <2>1 DEF SlotsConserved
<1>7. Table'
  BY <1>1, <1>2, <1>4, <1>5, <1>6 DEF Table
<1>8. IsList(recent', Hashes) /\ uses' \in [Hashes -> Nat]
  BY <1>1, EmptyList
<1>9. InOrder(pol, recent)' /\ ReusedBy(pol, uses)'
  BY <1>1, <1>3 DEF InOrder, ReusedBy
<1>10. History'
  BY <1>8, <1>9 DEF History
<1> QED
  BY <1>7, <1>10 DEF Inv

LEMMA UnchangedInv ==
  ASSUME Inv, UNCHANGED <<kind, capacity, slots, pol, free, recent, uses>>
  PROVE  Inv'
<1>1. PolicyOK(pol)' /\ Kept(pol)' = Kept(pol)
  BY Carried DEF Inv, Table
<1>2. Resident' = Resident /\ SlotsConserved'
  BY DEF Inv, Table, Resident, SlotsConserved
<1>3. Table'
  BY <1>1, <1>2 DEF Inv, Table
<1>4. InOrder(pol, recent)' /\ ReusedBy(pol, uses)'
  BY DEF Inv, History, InOrder, ReusedBy
<1> QED
  BY <1>3, <1>4 DEF Inv, History

LEMMA NextInv == Inv /\ [Next]_vars => Inv'
<1> SUFFICES ASSUME Inv, [Next]_vars PROVE Inv'
  OBVIOUS
<1>1. ASSUME NEW h \in Hashes, NEW s \in Slots, PutRefused(h, s) PROVE Inv'
  BY <1>1, UnchangedInv DEF PutRefused, vars
<1>2. ASSUME NEW h \in Hashes, NEW s \in Slots, Put(h, s) PROVE Inv'
  BY <1>2, PutInv
<1>3. CASE EvictOne
  BY <1>3, EvictOneInv
<1>4. CASE Drain
  BY <1>4, DrainInv
<1>5. ASSUME NEW c \in Copies, CopyEnds(c) PROVE Inv'
  BY <1>5, UnchangedInv DEF CopyEnds
<1>6. ASSUME NEW c \in Copies, NEW h \in Hashes, CopyStarts(c, h) PROVE Inv'
  BY <1>6, CopyStartsInv
<1>7. CASE UNCHANGED vars
  BY <1>7, UnchangedInv DEF vars
<1> QED
  BY <1>1, <1>2, <1>3, <1>4, <1>5, <1>6, <1>7 DEF Next

LEMMA InvHolds == Spec => []Inv
<1> QED
  BY InitInv, NextInv, PTL DEF Spec

-----------------------------------------------------------------------------
(* The results.                                                            *)

LEMMA DisjointUnion ==
  ASSUME NEW S, NEW T, IsFiniteSet(S), IsFiniteSet(T), S \cap T = {}
  PROVE  /\ IsFiniteSet(S \cup T)
         /\ Cardinality(S \cup T) = Cardinality(S) + Cardinality(T)
         /\ Cardinality(S) \in Nat /\ Cardinality(T) \in Nat
<1>1. /\ IsFiniteSet(S \cup T)
      /\ Cardinality(S \cup T) = Cardinality(S) + Cardinality(T) - Cardinality(S \cap T)
  BY FS_Union, Zenon
<1>2. Cardinality(S \cap T) = 0
  BY FS_EmptySet, Zenon
<1>3. Cardinality(S) \in Nat /\ Cardinality(T) \in Nat
  BY FS_CardinalityType, Zenon
<1> HIDE DEF Cardinality
<1> QED
  BY <1>1, <1>2, <1>3

\* The lengths of the lists add up to the keys they hold between them.
LEMMA KnownCount ==
  ASSUME NEW q, PolicyOK(q)
  PROVE  Len(q.t1) + Len(q.t2) + Len(q.b1) + Len(q.b2) = Cardinality(Known(q))
<1> DEFINE A == Range(q.t1)
           B == Range(q.t2)
           C == Range(q.b1)
           D == Range(q.b2)
<1>1. /\ IsFiniteSet(A) /\ Cardinality(A) = Len(q.t1) /\ Len(q.t1) \in Nat
      /\ IsFiniteSet(B) /\ Cardinality(B) = Len(q.t2) /\ Len(q.t2) \in Nat
      /\ IsFiniteSet(C) /\ Cardinality(C) = Len(q.b1) /\ Len(q.b1) \in Nat
      /\ IsFiniteSet(D) /\ Cardinality(D) = Len(q.b2) /\ Len(q.b2) \in Nat
  BY LenOfList, ListFacts DEF PolicyOK, Lists
<1>2. /\ A \cap B = {} /\ A \cap C = {} /\ A \cap D = {}
      /\ B \cap C = {} /\ B \cap D = {} /\ C \cap D = {}
  BY DEF PolicyOK, Lists, Apart
<1>3. Known(q) = ((A \cup B) \cup C) \cup D
  BY DEF Known
<1> HIDE DEF A, B, C, D
<1> DEFINE AB == A \cup B
           ABC == AB \cup C
<1>4. /\ IsFiniteSet(AB) /\ Cardinality(AB) = Cardinality(A) + Cardinality(B)
      /\ AB \cap C = {} /\ AB \cap D = {}
  <2>1. Cardinality(AB) = Cardinality(A) + Cardinality(B) /\ IsFiniteSet(AB)
    BY <1>1, <1>2, DisjointUnion, Zenon
  <2> QED
    BY <1>2, <2>1
<1> HIDE DEF AB
<1>5. /\ IsFiniteSet(ABC) /\ Cardinality(ABC) = Cardinality(AB) + Cardinality(C)
      /\ ABC \cap D = {}
  <2>1. Cardinality(ABC) = Cardinality(AB) + Cardinality(C) /\ IsFiniteSet(ABC)
    BY <1>1, <1>4, DisjointUnion, Zenon
  <2> QED
    BY <1>2, <1>4, <2>1
<1> HIDE DEF ABC
<1>6. Cardinality(ABC \cup D) = Cardinality(ABC) + Cardinality(D)
  BY <1>1, <1>5, DisjointUnion, Zenon
<1>7. Known(q) = ABC \cup D
  BY <1>3 DEF AB, ABC
<1> QED
  BY <1>1, <1>4, <1>5, <1>6, <1>7

\* Nothing is lost between the policy's lists, the table of slots and the
\* pool, whatever puts, hits, evictions, copies and drains follow each other
\* (staging_cache.py, StagingDataCache.put, get, evict_one and drain with
\* either policy).
THEOREM EntriesExactHolds == Spec => []EntriesExact
<1>1. Inv => EntriesExact
  <2> SUFFICES ASSUME Inv PROVE EntriesExact
    OBVIOUS
  <2>1. pol.p \in 0..ArcSize
    BY DEF Inv, Table, PolicyOK, Lists, Shape, Pol
  <2>2. PolicyMatchesSlots
    BY <2>1, KnownCount DEF Inv, Table, PolicyOK, Kept, PolicyMatchesSlots
  <2> QED
    BY <2>2 DEF Inv, Table, EntriesExact
<1> QED
  BY <1>1, InvHolds, PTL

\* T1 and T2, from which victims are taken at the front, stay in the order of
\* last use, and keys used once never mix with keys used again (the order that
\* LruPolicy and ArcPolicy keep through admit, touch and evict).
THEOREM PolicyOrderHolds == Spec => []PolicyOrder
<1>1. Inv => PolicyOrder
  <2> SUFFICES ASSUME Inv PROVE PolicyOrder
    OBVIOUS
  <2>1. RecencyOrder
    BY DEF Inv, History, InOrder, OrderedBy, RecencyOrder
  <2>2. ReusedInT2
    BY DEF Inv, History, ReusedBy, ReusedInT2
  <2> QED
    BY <2>1, <2>2 DEF PolicyOrder
<1> QED
  BY <1>1, InvHolds, PTL

LEMMA PutRetains ==
  ASSUME Inv, NEW h \in Hashes, NEW s \in Slots, Put(h, s)
  PROVE  Retention!Retain(h, s)
<1> DEFINE full == Cardinality(Resident) >= capacity
           v == IF full /\ Candidates # {} THEN {FirstVictim} ELSE {}
<1>1. /\ s \in free /\ capacity > 0 /\ h \notin Resident
      /\ slots' = [g \in Hashes |->
                     IF g = h THEN s ELSE IF g \in v THEN NoSlot ELSE slots[g]]
      /\ UNCHANGED <<capacity, copies>>
  BY DEF Put
<1>2. /\ slots \in [Hashes -> Slots \cup {NoSlot}] /\ SlotsConserved
      /\ Candidates # {} => FirstVictim \in Resident /\ ~Pinned(FirstVictim)
      /\ Candidates = {} => \A g \in Resident : Pinned(g)
  BY VictimFacts DEF Inv, Table
<1>3. /\ Retention!Resident = Resident /\ (Retention!Full <=> full)
      /\ Retention!Evictable = {g \in Resident : ~Pinned(g)}
  <2>1. Retention!Resident = Resident
    BY DEF Retention!Resident, Resident
  <2> HIDE DEF Retention!Resident, Resident
  <2>2. Retention!Cardinality(Resident) = Cardinality(Resident)
    BY DEF Retention!Cardinality, Cardinality
  <2> HIDE DEF Retention!Cardinality, Cardinality
  <2>3. Retention!Full <=> full
    BY <2>1, <2>2 DEF Retention!Full
  <2>4. Retention!Evictable = {g \in Resident : ~Pinned(g)}
    BY <2>1 DEF Retention!Evictable, Retention!Pinned, Pinned
  <2> QED
    BY <2>1, <2>3, <2>4
<1>4. \A g \in Hashes : slots[g] # s
  BY <1>1, <1>2, CacheAssumption DEF SlotsConserved, Resident
<1> HIDE DEF full
<1>5. CASE full /\ Candidates # {}
  <2>1. v = {FirstVictim} /\ FirstVictim \in Retention!Evictable /\ FirstVictim \in Hashes
    BY <1>2, <1>3, <1>5 DEF Resident
  <2>2. slots' = [slots EXCEPT ![FirstVictim] = NoSlot, ![h] = s]
    BY <1>1, <1>2, <2>1
  <2> QED
    BY <1>1, <1>3, <1>4, <1>5, <2>1, <2>2 DEF Retention!Retain
<1>6. CASE ~(full /\ Candidates # {})
  <2>1. v = {}
    BY <1>6
  <2>2. slots' = [slots EXCEPT ![h] = s]
    BY <1>1, <1>2, <2>1
  <2>3. ~full \/ Retention!Evictable = {}
    BY <1>2, <1>3, <1>6
  <2> QED
    BY <1>1, <1>3, <1>4, <2>2, <2>3 DEF Retention!Retain
<1> QED
  BY <1>5, <1>6

LEMMA StepRetains == Inv /\ [Next]_vars => [Retention!Next]_(Retention!rvars)
<1> SUFFICES ASSUME Inv, [Next]_vars PROVE [Retention!Next]_(Retention!rvars)
  OBVIOUS
<1>1. ASSUME NEW h \in Hashes, NEW s \in Slots, PutRefused(h, s) PROVE UNCHANGED Retention!rvars
  BY <1>1 DEF PutRefused, vars, Retention!rvars
<1>2. ASSUME NEW h \in Hashes, NEW s \in Slots, Put(h, s) PROVE Retention!Next
  BY <1>2, PutRetains DEF Retention!Next
<1>3. ASSUME EvictOne PROVE Retention!Next
  <2>1. FirstVictim \in Retention!Evictable
    BY <1>3, VictimFacts
    DEF Inv, EvictOne, Retention!Evictable, Retention!Resident, Resident, Retention!Pinned, Pinned
  <2> QED
    BY <1>3, <2>1 DEF EvictOne, Retention!Evict, Retention!Next
<1>4. ASSUME Drain PROVE Retention!Next
  BY <1>4 DEF Drain, Retention!Drain, Retention!Next
<1>5. ASSUME NEW c \in Copies, CopyEnds(c) PROVE Retention!Next
  BY <1>5 DEF CopyEnds, Retention!CopyEnds, Retention!Next
<1>6. ASSUME NEW c \in Copies, NEW h \in Hashes, CopyStarts(c, h) PROVE Retention!Next
  BY <1>6 DEF CopyStarts, Resident, Retention!Resident, Retention!CopyStarts, Retention!Next
<1>7. CASE UNCHANGED vars
  BY <1>7 DEF vars, Retention!rvars
<1> QED
  BY <1>1, <1>2, <1>3, <1>4, <1>5, <1>6, <1>7 DEF Next

\* Either policy is a choice among the entries no copy reads: LRU and ARC both
\* implement SlotRetention, so what is proved of Reactor with an arbitrary
\* choice holds with these (staging_cache.py, put and evict_one).
THEOREM PoliciesImplementRetention == Spec => ImplementsRetention
<1>1. Init => Retention!Init
  BY CacheAssumption DEF Init, Retention!Init
<1> QED
  BY <1>1, StepRetains, InvHolds, PTL DEF Spec, ImplementsRetention, Retention!Spec
=============================================================================
