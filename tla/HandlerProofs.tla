---------------------------- MODULE HandlerProofs ----------------------------
(***************************************************************************)
(* What is proved about the worker's side of the offload, for any jobs,    *)
(* block sizes and failures of files: each GPU block goes to the part of   *)
(* the file that is meant for it and comes back from there, what is        *)
(* published is whole, what a successful load leaves in the GPU blocks is  *)
(* what they are meant to hold, and the preload ids kept are the latest.   *)
(***************************************************************************)
EXTENDS Handler, OrderedKeysProofs

-----------------------------------------------------------------------------
(* The parts of a job: file f moves the GPU blocks at the places From(f) to *)
(* To(f), and the one at place k is part Part(f, k) of the storage block.   *)

Skew(j)    == FirstBlock[j] % Factor
From(f)    == IF f[2] = 1 THEN 1 ELSE (f[2] - 1) * Factor - Skew(f[1]) + 1
To(f)      == f[2] * Factor - Skew(f[1])
Part(f, k) == Skew(f[1]) + k - 1 - (f[2] - 1) * Factor
Length(f)  == To(f) - From(f) + 1

\* Quotient and remainder are what they say.
LEMMA DivIs ==
  ASSUME NEW n \in Nat \ {0}, NEW q \in Int, NEW r \in 0..(n - 1), NEW a \in Int, a = n * q + r
  PROVE  a \div n = q /\ a % n = r
<1> DEFINE x == a \div n
           y == a % n
<1>1. a = n * x + y /\ x \in Int /\ y \in 0..(n - 1)
  OBVIOUS
<1> HIDE DEF x, y
<1>2. n * (x - q) = r - y
  BY <1>1
<1>3. ASSUME NEW d \in Int, n * d < n, -n < n * d PROVE d = 0
  BY <1>3
<1>4. x - q = 0
  BY <1>1, <1>2, <1>3
<1>5. x = q /\ y = r
  BY <1>1, <1>2, <1>4
<1> QED
  BY <1>5 DEF x, y

LEMMA DivMod ==
  ASSUME NEW n \in Nat \ {0}, NEW a \in Nat
  PROVE  a = n * (a \div n) + (a % n) /\ a \div n \in Int /\ a % n \in 0..(n - 1)
OBVIOUS

LEMMA TimesUp ==
  ASSUME NEW n \in Nat, NEW a \in Int, NEW b \in Int, a <= b
  PROVE  a * n <= b * n /\ a * n \in Int /\ b * n \in Int /\ (a - 1) * n = a * n - n
OBVIOUS

LEMMA JobFacts ==
  ASSUME NEW j \in Jobs
  PROVE  /\ Factor \in Nat \ {0} /\ FirstBlock[j] \in Nat /\ Skew(j) \in 0..(Factor - 1)
         /\ JobHashes[j] \in Seq(Hashes) /\ Len(JobHashes[j]) \in Nat
         /\ JobBlocks[j] \in Seq(GpuBlocks) /\ Len(JobBlocks[j]) \in Nat
         /\ DOMAIN JobBlocks[j] = 1..Len(JobBlocks[j])
         /\ \A k \in 1..Len(JobBlocks[j]) : JobBlocks[j][k] \in GpuBlocks
         /\ IF Len(JobHashes[j]) = 0 THEN Len(JobBlocks[j]) = 0
            ELSE Skew(j) + Len(JobBlocks[j]) = Len(JobHashes[j]) * Factor
         /\ IsStore(j) => Skew(j) = 0
         /\ \A i, k \in 1..Len(JobBlocks[j]) : JobBlocks[j][i] = JobBlocks[j][k] => i = k
<1>1. /\ Factor \in Nat \ {0} /\ FirstBlock[j] \in Nat
      /\ JobHashes[j] \in Seq(Hashes) /\ JobBlocks[j] \in Seq(GpuBlocks)
  BY FactorAssumption, HandlerAssumption
<1>2. FirstBlock[j] % Factor \in 0..(Factor - 1)
  BY <1>1
<1>3. /\ IF Len(JobHashes[j]) = 0 THEN Len(JobBlocks[j]) = 0
         ELSE (FirstBlock[j] % Factor) + Len(JobBlocks[j]) = Len(JobHashes[j]) * Factor
      /\ IsStore(j) => FirstBlock[j] % Factor = 0
      /\ \A i, k \in 1..Len(JobBlocks[j]) : JobBlocks[j][i] = JobBlocks[j][k] => i = k
  BY HandlerAssumption
<1>4. /\ Len(JobHashes[j]) \in Nat /\ Len(JobBlocks[j]) \in Nat
      /\ DOMAIN JobBlocks[j] = 1..Len(JobBlocks[j])
      /\ \A k \in 1..Len(JobBlocks[j]) : JobBlocks[j][k] \in GpuBlocks
  BY <1>1, LenProperties
<1> QED
  BY <1>1, <1>2, <1>3, <1>4 DEF Skew

LEMMA FileFacts ==
  ASSUME NEW f \in Files
  PROVE  /\ f[1] \in Jobs /\ f[2] \in 1..Len(JobHashes[f[1]]) /\ f = <<f[1], f[2]>>
         /\ f \in Transfer!FilesOf(f[1]) /\ Block(f) \in Hashes
         /\ \A j \in Jobs : f \in Transfer!FilesOf(j) => j = f[1]
<1>1. PICK j \in Jobs : f \in {j} \X (1..Len(JobHashes[j]))
  BY DEF Files, Transfer!FilesOf
<1>2. f[1] = j /\ f[2] \in 1..Len(JobHashes[j]) /\ f = <<f[1], f[2]>>
  BY <1>1
<1>3. JobHashes[j][f[2]] \in Hashes
  BY <1>2, JobFacts, LenProperties
<1> QED
  BY <1>1, <1>2, <1>3 DEF Block, Transfer!Block, Transfer!FilesOf

LEMMA FilesFacts ==
  ASSUME NEW j \in Jobs, NEW f \in Transfer!FilesOf(j)
  PROVE  f \in Files /\ f[1] = j
BY DEF Files, Transfer!FilesOf

\* Where a file begins and ends.
LEMMA Bounds ==
  ASSUME NEW f \in Files
  PROVE  LET n == Len(JobBlocks[f[1]])
         IN  /\ From(f) \in 1..n /\ To(f) \in 1..n /\ From(f) <= To(f)
             /\ Length(f) \in 1..Factor
             /\ f[2] # 1 => Length(f) = Factor
             /\ f[2] = 1 => Length(f) = Factor - Skew(f[1])
             /\ \A k \in From(f)..To(f) : Part(f, k) \in Parts
<1> DEFINE j == f[1]
           i == f[2]
           n == Len(JobBlocks[j])
           m == Len(JobHashes[j])
           s == Skew(j)
<1>1. j \in Jobs /\ i \in 1..m
  BY FileFacts
<1>2. /\ Factor \in Nat \ {0} /\ m \in Nat /\ n \in Nat /\ s \in 0..(Factor - 1)
      /\ s + n = m * Factor
  <2>1. /\ Factor \in Nat \ {0} /\ m \in Nat /\ n \in Nat /\ s \in 0..(Factor - 1)
        /\ IF m = 0 THEN n = 0 ELSE s + n = m * Factor
    BY <1>1, JobFacts
  <2> HIDE DEF i, n, m, s
  <2> QED
    BY <1>1, <2>1
<1> HIDE DEF i, n, m, s
<1>3. i * Factor <= m * Factor /\ i * Factor \in Int /\ (i - 1) * Factor = i * Factor - Factor
  <2>1. i \in Int /\ m \in Int /\ i <= m /\ Factor \in Nat
    BY <1>1, <1>2
  <2> QED
    BY <2>1, TimesUp, Zenon
<1>4. /\ 1 * Factor = Factor /\ 1 * Factor <= i * Factor
      /\ i # 1 => 2 * Factor <= i * Factor /\ 2 * Factor = Factor + Factor
  BY <1>1, <1>2, TimesUp
<1> DEFINE x == i * Factor
           y == (i - 1) * Factor
<1>5. x \in Int /\ y = x - Factor /\ x <= s + n /\ Factor <= x /\ (i # 1 => Factor + Factor <= x)
      /\ (i = 1 => x = Factor)
  BY <1>1, <1>2, <1>3, <1>4
<1>6. /\ From(f) = IF i = 1 THEN 1 ELSE y - s + 1
      /\ To(f) = x - s
      /\ \A k : Part(f, k) = s + k - 1 - y
  BY DEF From, To, Part, i, s
<1> HIDE DEF x, y
<1>7. From(f) \in 1..n /\ To(f) \in 1..n /\ From(f) <= To(f)
  BY <1>1, <1>2, <1>5, <1>6
<1>8. /\ Length(f) \in 1..Factor
      /\ i # 1 => Length(f) = Factor
      /\ i = 1 => Length(f) = Factor - s
  BY <1>1, <1>2, <1>5, <1>6 DEF Length
<1>9. \A k \in From(f)..To(f) : Part(f, k) \in 0..(Factor - 1)
  BY <1>1, <1>2, <1>5, <1>6
<1> QED
  BY <1>7, <1>8, <1>9 DEF i, n, s, Parts

-----------------------------------------------------------------------------
(* Which GPU block goes to which part.                                      *)

\* The ends of the chunks that split_block_ids_for_files cuts.
LEMMA ChunkEnds ==
  ASSUME NEW f \in Files, NEW i \in 1..f[2]
  PROVE  /\ ChunkEnd(JobBlocks[f[1]], SplitFrom(f[1]), i) = i * Factor - Skew(f[1])
         /\ i * Factor - Skew(f[1]) <= Len(JobBlocks[f[1]])
<1> DEFINE j == f[1]
           n == Len(JobBlocks[j])
           m == Len(JobHashes[j])
           s == Skew(j)
<1>1. j \in Jobs /\ f[2] \in 1..m
  BY FileFacts
<1>2. /\ Factor \in Nat \ {0} /\ m \in Nat /\ n \in Nat /\ s \in 0..(Factor - 1)
      /\ s + n = m * Factor
  <2>1. /\ Factor \in Nat \ {0} /\ m \in Nat /\ n \in Nat /\ s \in 0..(Factor - 1)
        /\ IF m = 0 THEN n = 0 ELSE s + n = m * Factor
    BY <1>1, JobFacts
  <2> HIDE DEF n, m, s
  <2> QED
    BY <1>1, <2>1
<1> DEFINE x == i * Factor
<1>3. x \in Int /\ x <= s + n /\ Factor <= x /\ (i - 1) * Factor = x - Factor
  <2> HIDE DEF n, m, s
  <2>1. i \in Int /\ m \in Int /\ 1 \in Int /\ i <= m /\ 1 <= i /\ Factor \in Nat
    BY <1>1, <1>2
  <2>2. i * Factor <= m * Factor /\ 1 * Factor <= i * Factor /\ i * Factor \in Int
        /\ (i - 1) * Factor = i * Factor - Factor
    BY <2>1, TimesUp, Zenon
  <2> QED
    BY <1>2, <2>2
<1>4. FirstSize(JobBlocks[j], SplitFrom(j)) = Least(n, Factor - s)
  <2>1. SplitFrom(j) % Factor = s
    <3>1. IsStore(j) => s = 0
      BY <1>1, JobFacts
    <3>2. 0 % Factor = 0
      BY <1>2
    <3> QED
      BY <3>1, <3>2 DEF SplitFrom, Skew
  <2> QED
    BY <2>1 DEF FirstSize
<1>5. ChunkEnd(JobBlocks[j], SplitFrom(j), i) = Least(Least(n, Factor - s) + (i - 1) * Factor, n)
  BY <1>4 DEF ChunkEnd
<1> HIDE DEF n, m, s, x
<1>6. Least(Least(n, Factor - s) + (x - Factor), n) = x - s
  BY <1>2, <1>3 DEF Least
<1>7. x - s <= n
  BY <1>2, <1>3
<1> QED
  BY <1>3, <1>5, <1>6, <1>7 DEF x, s, n

\* The chunk of a file is its places, in their order.
LEMMA ChunkIs ==
  ASSUME NEW f \in Files
  PROVE  /\ ChunkOf(f) \in Seq(GpuBlocks) /\ Len(ChunkOf(f)) = Length(f)
         /\ \A k \in 1..Length(f) : ChunkOf(f)[k] = JobBlocks[f[1]][From(f) + k - 1]
<1> DEFINE b == JobBlocks[f[1]]
           first == SplitFrom(f[1])
<1>1. f[1] \in Jobs /\ f[2] \in Nat /\ f[2] >= 1 /\ f[2] \in 1..f[2]
  BY FileFacts, JobFacts
<1>2. ChunkEnd(b, first, f[2]) = To(f)
  BY <1>1, ChunkEnds DEF To
<1>3. (IF f[2] = 1 THEN 1 ELSE ChunkEnd(b, first, f[2] - 1) + 1) = From(f)
  <2>1. CASE f[2] = 1
    BY <2>1 DEF From
  <2>2. CASE f[2] # 1
    <3>1. f[2] - 1 \in 1..f[2]
      BY <1>1, <2>2
    <3>2. ChunkEnd(b, first, f[2] - 1) = (f[2] - 1) * Factor - Skew(f[1])
      BY <3>1, ChunkEnds
    <3> QED
      BY <2>2, <3>2 DEF From
  <2> QED
    BY <2>1, <2>2
<1>4. ChunkOf(f) = SubSeq(b, From(f), To(f))
  BY <1>2, <1>3 DEF ChunkOf, Chunk
<1>5. /\ From(f) \in 1..Len(b) /\ To(f) \in 1..Len(b) /\ From(f) <= To(f)
      /\ Len(b) \in Nat /\ \A k \in 1..Len(b) : b[k] \in GpuBlocks
  BY <1>1, Bounds, JobFacts
<1> HIDE DEF b
<1>6. \A k \in From(f)..To(f) : b[k] \in GpuBlocks
  BY <1>5
<1>7. From(f) \in Int /\ To(f) \in Int
  BY <1>5
<1>8. /\ SubSeq(b, From(f), To(f)) \in Seq(GpuBlocks)
      /\ Len(SubSeq(b, From(f), To(f))) = To(f) - From(f) + 1
      /\ \A k \in 1..(To(f) - From(f) + 1) : SubSeq(b, From(f), To(f))[k] = b[From(f) + k - 1]
  BY <1>5, <1>6, <1>7, SubSeqProperties
<1> QED
  BY <1>4, <1>8 DEF Length, b

\* What the place of a file is meant to hold is a part of the file's block.
LEMMA MeantIs ==
  ASSUME NEW f \in Files, NEW k \in From(f)..To(f)
  PROVE  Meant(f[1], k) = <<Block(f), Part(f, k)>>
<1> DEFINE j == f[1]
           a == FirstBlock[j] \div Factor
           s == Skew(j)
           q == a + f[2] - 1
           r == Part(f, k)
           at == FirstBlock[j] + k - 1
<1>1. j \in Jobs /\ f[2] \in Nat
  BY FileFacts, JobFacts
<1>2. Factor \in Nat \ {0} /\ FirstBlock[j] \in Nat /\ r \in 0..(Factor - 1)
  BY <1>1, JobFacts, Bounds DEF Parts
<1>3. FirstBlock[j] = Factor * a + s /\ a \in Int /\ s \in Int
  <2>1. s = FirstBlock[j] % Factor
    BY DEF Skew
  <2>2. s \in 0..(Factor - 1) /\ FirstBlock[j] = Factor * a + (FirstBlock[j] % Factor) /\ a \in Int
    BY <1>2, <2>1, DivMod
  <2> QED
    BY <1>2, <2>1, <2>2
<1>4. k \in Int
  BY Bounds
<1>5. at = Factor * q + r /\ q \in Int /\ at \in Int
  <2>1. r = s + k - 1 - (f[2] - 1) * Factor
    BY DEF Part
  <2> HIDE DEF a, s, r
  <2>2. /\ Factor * (a + f[2] - 1) = Factor * a + (f[2] - 1) * Factor
        /\ (f[2] - 1) * Factor \in Int /\ Factor * a \in Int
    <3>1. \A n, x, y \in Int : /\ n * (x + y - 1) = n * x + (y - 1) * n
                               /\ (y - 1) * n \in Int /\ n * x \in Int
      OBVIOUS
    <3>2. Factor \in Int /\ a \in Int /\ f[2] \in Int
      BY <1>1, <1>2, <1>3
    <3> QED
      BY <3>1, <3>2, Zenon
  <2> DEFINE x == Factor * a
             y == (f[2] - 1) * Factor
             z == Factor * q
  <2>3. /\ z = x + y /\ x \in Int /\ y \in Int /\ s \in Int /\ k \in Int /\ q \in Int
        /\ FirstBlock[j] = x + s /\ r = s + k - 1 - y
    BY <1>1, <1>3, <1>4, <2>1, <2>2
  <2> HIDE DEF x, y, z, q
  <2>4. FirstBlock[j] + k - 1 = z + r /\ FirstBlock[j] + k - 1 \in Int
    BY <2>3
  <2> QED
    BY <2>3, <2>4 DEF z
<1> HIDE DEF a, r, at, q
<1>6. at \div Factor = q /\ at % Factor = r
  BY <1>2, <1>5, DivIs
<1>7. q - a + 1 = f[2]
  BY <1>1, <1>3 DEF q
<1>8. Meant(j, k) = <<JobHashes[j][at \div Factor - a + 1], at % Factor>>
  BY DEF Meant, at, a
<1>9. Meant(j, k) = <<JobHashes[j][f[2]], r>>
  BY <1>6, <1>7, <1>8
<1> QED
  BY <1>9 DEF Block, Transfer!Block, r

\* Every place of a job is in one of its files.
LEMMA EveryPlace ==
  ASSUME NEW j \in Jobs, NEW k \in 1..Len(JobBlocks[j])
  PROVE  \E f \in Transfer!FilesOf(j) : k \in From(f)..To(f)
<1> DEFINE n == Len(JobBlocks[j])
           m == Len(JobHashes[j])
           s == Skew(j)
           a == s + k - 1
           q == a \div Factor
           r == a % Factor
           f == <<j, q + 1>>
<1>1. /\ Factor \in Nat \ {0} /\ m \in Nat /\ n \in Nat /\ s \in 0..(Factor - 1)
      /\ IF m = 0 THEN n = 0 ELSE s + n = m * Factor
  BY JobFacts
<1>2. k \in 1..n /\ m # 0 /\ s + n = m * Factor
  <2> HIDE DEF n, m, s
  <2> QED
    BY <1>1 DEF n
<1> HIDE DEF n, m, s
<1>3. a \in Nat /\ a < m * Factor
  BY <1>1, <1>2
<1> HIDE DEF a
<1>4. a = Factor * q + r /\ q \in Int /\ r \in 0..(Factor - 1)
  BY <1>1, <1>3
<1> HIDE DEF q, r
<1>5. q >= 0 /\ q + 1 <= m
  <2>1. ASSUME q < 0 PROVE FALSE
    <3>1. q * Factor <= (-1) * Factor /\ (-1) * Factor = -Factor /\ q * Factor = Factor * q
      BY <1>1, <1>4, <2>1, TimesUp
    <3> QED
      BY <1>1, <1>3, <1>4, <3>1
  <2>2. ASSUME m <= q PROVE FALSE
    <3>1. m * Factor <= q * Factor /\ q * Factor = Factor * q /\ m * Factor \in Int
      BY <1>1, <1>4, <2>2, TimesUp
    <3> QED
      BY <1>1, <1>3, <1>4, <3>1
  <2> QED
    BY <1>1, <1>4, <2>1, <2>2
<1>6. f[1] = j /\ f[2] = q + 1 /\ f \in Transfer!FilesOf(j)
  <2>1. q + 1 \in 1..m
    BY <1>1, <1>4, <1>5
  <2> QED
    BY <2>1 DEF Transfer!FilesOf, m
<1>7. f[2] * Factor = Factor * q + Factor /\ (f[2] - 1) * Factor = Factor * q
  BY <1>1, <1>4, <1>6
<1> DEFINE z == Factor * q
<1>8. To(f) = (z + Factor) - s /\ From(f) = IF q = 0 THEN 1 ELSE z - s + 1
  <2>1. To(f) = f[2] * Factor - Skew(f[1])
        /\ From(f) = IF f[2] = 1 THEN 1 ELSE (f[2] - 1) * Factor - Skew(f[1]) + 1
    BY DEF To, From
  <2>2. Skew(f[1]) = s /\ (f[2] = 1 <=> q = 0)
    BY <1>4, <1>6 DEF s
  <2> HIDE DEF f
  <2> QED
    BY <1>7, <2>1, <2>2
<1>9. z \in Int /\ k = z + r - s + 1
  BY <1>1, <1>2, <1>4 DEF a
<1> HIDE DEF z, f
<1>10. From(f) <= k /\ k <= To(f) /\ From(f) \in Int /\ To(f) \in Int
  BY <1>1, <1>2, <1>4, <1>8, <1>9
<1>11. k \in From(f)..To(f)
  BY <1>2, <1>10
<1> QED
  BY <1>6, <1>11

LEMMA OneIs == ASSUME NEW x PROVE Len(<<x>>) = 1 /\ <<x>>[1] = x
OBVIOUS

\* One block, part by part, and blocks of one part each.
LEMMA ExpandOne ==
  ASSUME NEW x, NEW skip \in 0..(Factor - 1)
  PROVE  \A k \in 1..(Factor - skip) : Expand(<<x>>, Factor, skip)[k] = <<x, k - 1 + skip>>
<1>1. Factor \in Nat \ {0} /\ Len(<<x>>) * Factor - skip = Factor - skip
  BY FactorAssumption, OneIs
<1> SUFFICES ASSUME NEW k \in 1..(Factor - skip)
             PROVE  Expand(<<x>>, Factor, skip)[k] = <<x, k - 1 + skip>>
  OBVIOUS
<1>2. k - 1 + skip \in 0..(Factor - 1) /\ Factor * 0 = 0
  BY <1>1
<1>3. (k - 1 + skip) \div Factor = 0 /\ (k - 1 + skip) % Factor = k - 1 + skip
  BY <1>1, <1>2, DivIs
<1>4. Expand(<<x>>, Factor, skip)[k]
        = <<<<x>>[((k - 1 + skip) \div Factor) + 1], (k - 1 + skip) % Factor>>
  BY <1>1 DEF Expand
<1> QED
  BY <1>3, <1>4

LEMMA ExpandWhole ==
  ASSUME NEW s, Len(s) \in Nat
  PROVE  \A k \in 1..Len(s) : Expand(s, 1, 0)[k] = <<s[k], 0>>
<1> SUFFICES ASSUME NEW k \in 1..Len(s) PROVE Expand(s, 1, 0)[k] = <<s[k], 0>>
  OBVIOUS
<1>1. (k - 1 + 0) \div 1 = k - 1 /\ (k - 1 + 0) % 1 = 0
  <2>1. 1 \in Nat \ {0} /\ k - 1 \in Int /\ k - 1 + 0 \in Int /\ 0 \in 0..(1 - 1)
        /\ k - 1 + 0 = 1 * (k - 1) + 0
    OBVIOUS
  <2> QED
    BY <2>1, DivIs
<1>2. k \in 1..(Len(s) * 1 - 0)
  OBVIOUS
<1>3. Expand(s, 1, 0)[k] = <<s[((k - 1 + 0) \div 1) + 1], (k - 1 + 0) % 1>>
  BY <1>2 DEF Expand
<1> QED
  BY <1>1, <1>3

LEMMA StoreSkip ==
  ASSUME NEW s, NEW x
  PROVE  Skip(s, 1, <<x>>) = 0
<1>1. 1 \in Nat \ {0} /\ 0 \in 0..(1 - 1) /\ -1 \in Int /\ -1 = 1 * (-1) + 0
  OBVIOUS
<1>2. (-1) % 1 = 0
  BY <1>1, DivIs
<1> QED
  BY <1>2, OneIs DEF Skip

LEMMA LoadSkip ==
  ASSUME NEW s, Len(s) \in 1..Factor, NEW x
  PROVE  Skip(<<x>>, Factor, s) = Factor - Len(s)
<1> DEFINE a == -Len(s)
           q == -1
           r == Factor - Len(s)
<1>1. Factor \in Nat \ {0} /\ r \in 0..(Factor - 1) /\ a \in Int /\ q \in Int /\ a = Factor * q + r
  BY FactorAssumption
<1> HIDE DEF a, q, r
<1>2. a % Factor = r
  BY <1>1, DivIs
<1> QED
  BY <1>2 DEF Skip, a, r

\* Where the parts of a file are: the last of them is always the last part
\* of the storage block.
LEMMA Places ==
  ASSUME NEW f \in Files, NEW k \in 1..Length(f)
  PROVE  /\ From(f) + k - 1 \in From(f)..To(f)
         /\ From(f) + k - 1 \in 1..Len(JobBlocks[f[1]])
         /\ Part(f, From(f) + k - 1) = Factor - Length(f) + k - 1
<1>1. f[1] \in Jobs /\ Factor \in Nat \ {0} /\ Skew(f[1]) \in 0..(Factor - 1)
      /\ Len(JobBlocks[f[1]]) \in Nat
  BY FileFacts, JobFacts
<1>2. /\ From(f) \in 1..Len(JobBlocks[f[1]]) /\ To(f) \in 1..Len(JobBlocks[f[1]])
      /\ Length(f) = To(f) - From(f) + 1
      /\ f[2] # 1 => Length(f) = Factor
      /\ f[2] = 1 => Length(f) = Factor - Skew(f[1])
  BY Bounds DEF Length
<1>3. /\ From(f) + k - 1 \in From(f)..To(f)
      /\ From(f) + k - 1 \in 1..Len(JobBlocks[f[1]])
  <2> DEFINE a == From(f)
             b == To(f)
             n == Len(JobBlocks[f[1]])
             l == Length(f)
  <2>1. a \in 1..n /\ b \in 1..n /\ n \in Nat /\ l = b - a + 1 /\ k \in 1..l
    BY <1>1, <1>2
  <2> HIDE DEF a, b, n, l
  <2>2. a + k - 1 \in a..b /\ a + k - 1 \in 1..n
    BY <2>1
  <2> QED
    BY <2>2 DEF a, b, n
<1> DEFINE p == Part(f, From(f) + k - 1)
<1>4. p = Factor - Length(f) + k - 1
  <2>1. CASE f[2] = 1
    <3>1. p = Skew(f[1]) + k - 1
      BY <1>1, <2>1 DEF Part, From
    <3> QED
      BY <1>1, <1>2, <2>1, <3>1
  <2>2. CASE f[2] # 1
    <3> DEFINE y == (f[2] - 1) * Factor
    <3>1. y \in Int
      <4>1. f[2] - 1 \in Int /\ Factor \in Int
        BY <1>1, FileFacts, JobFacts
      <4>2. \A a, b \in Int : a * b \in Int
        OBVIOUS
      <4> QED
        BY <4>1, <4>2, Zenon
    <3>2. From(f) = y - Skew(f[1]) + 1 /\ p = Skew(f[1]) + (From(f) + k - 1) - 1 - y
      BY <2>2 DEF From, Part
    <3>3. /\ From(f) \in Int /\ Skew(f[1]) \in Int /\ k \in Int
          /\ Length(f) = Factor /\ Factor \in Int
      BY <1>1, <1>2, <2>2
    <3> HIDE DEF y, p
    <3> QED
      BY <3>1, <3>2, <3>3
  <2> QED
    BY <2>1, <2>2
<1> QED
  BY <1>3, <1>4

\* A store gathers each part from the place that holds it.
LEMMA StoreParts ==
  ASSUME NEW f \in Files, IsStore(f[1])
  PROVE  LET m == StoreMapping(f, ChunkOf(f))
         IN  /\ DOMAIN m = 1..Factor /\ Length(f) = Factor
             /\ \A k \in 1..Factor : /\ m[k].from[1] = JobBlocks[f[1]][From(f) + k - 1]
                                     /\ m[k].to = <<f, k - 1>>
<1> DEFINE c == ChunkOf(f)
           m == StoreMapping(f, c)
<1>1. /\ f[1] \in Jobs /\ Factor \in Nat \ {0} /\ Skew(f[1]) = 0
      /\ Length(f) = Factor
  <2>1. f[1] \in Jobs /\ Factor \in Nat \ {0} /\ Skew(f[1]) = 0
    BY FileFacts, JobFacts
  <2>2. (f[2] # 1 => Length(f) = Factor) /\ (f[2] = 1 => Length(f) = Factor - Skew(f[1]))
    BY Bounds
  <2> QED
    BY <2>1, <2>2
<1>2. Len(c) = Factor /\ \A k \in 1..Factor : c[k] = JobBlocks[f[1]][From(f) + k - 1]
  BY <1>1, ChunkIs
<1> HIDE DEF c
<1>3. \A k \in 1..Factor : Expand(c, 1, 0)[k] = <<c[k], 0>>
  BY <1>1, <1>2, ExpandWhole
<1>4. \A k \in 1..Factor : Expand(<<f>>, Factor, 0)[k] = <<f, k - 1>>
  <2>1. 0 \in 0..(Factor - 1) /\ Factor - 0 = Factor
    BY <1>1
  <2>2. \A k \in 1..(Factor - 0) : Expand(<<f>>, Factor, 0)[k] = <<f, k - 1 + 0>>
    BY <2>1, ExpandOne
  <2> QED
    BY <1>1, <2>1, <2>2
<1>5. m = [k \in 1..Factor |-> [from |-> Expand(c, 1, 0)[k], to |-> Expand(<<f>>, Factor, 0)[k]]]
  <2>1. Len(<<f>>) * Factor = Factor
    BY <1>1, OneIs
  <2> QED
    BY <2>1, StoreSkip DEF StoreMapping, Mapping
<1> HIDE DEF m
<1>6. ASSUME NEW k \in 1..Factor PROVE m[k].from[1] = c[k] /\ m[k].to = <<f, k - 1>>
  <2>1. m[k] = [from |-> Expand(c, 1, 0)[k], to |-> Expand(<<f>>, Factor, 0)[k]]
    BY <1>5
  <2>2. m[k].from = <<c[k], 0>> /\ m[k].to = <<f, k - 1>>
    BY <1>3, <1>4, <2>1
  <2> QED
    BY <2>2
<1>7. DOMAIN m = 1..Factor
  BY <1>5
<1> QED
  BY <1>1, <1>2, <1>6, <1>7 DEF m, c

\* A load scatters each part to the place that is meant to hold it.
LEMMA LoadParts ==
  ASSUME NEW f \in Files
  PROVE  LET m == LoadMapping(f, ChunkOf(f))
         IN  /\ DOMAIN m = 1..Length(f)
             /\ \A k \in 1..Length(f) :
                  /\ m[k].to[1] = JobBlocks[f[1]][From(f) + k - 1]
                  /\ m[k].from[2] = Part(f, From(f) + k - 1)
<1> DEFINE c == ChunkOf(f)
           m == LoadMapping(f, c)
           skip == Factor - Length(f)
<1>1. Factor \in Nat \ {0} /\ Length(f) \in 1..Factor /\ skip \in 0..(Factor - 1)
      /\ Length(f) \in Nat
  BY FactorAssumption, Bounds
<1>2. Len(c) = Length(f) /\ \A k \in 1..Length(f) : c[k] = JobBlocks[f[1]][From(f) + k - 1]
  BY ChunkIs
<1> HIDE DEF c
<1>3. \A k \in 1..Length(f) : Expand(c, 1, 0)[k] = <<c[k], 0>>
  BY <1>1, <1>2, ExpandWhole
<1>4. \A k \in 1..Length(f) : Expand(<<f>>, Factor, skip)[k] = <<f, k - 1 + skip>>
  <2>1. Factor - skip = Length(f)
    BY <1>1
  <2> HIDE DEF skip
  <2> QED
    BY <1>1, <2>1, ExpandOne
<1>5. m = [k \in 1..Length(f) |->
             [from |-> Expand(<<f>>, Factor, skip)[k], to |-> Expand(c, 1, 0)[k]]]
  <2>1. Len(c) * 1 = Length(f) /\ Skip(<<f>>, Factor, c) = skip
    BY <1>1, <1>2, LoadSkip
  <2> QED
    BY <2>1 DEF LoadMapping, Mapping
<1> HIDE DEF m
<1>6. DOMAIN m = 1..Length(f)
      /\ \A k \in 1..Length(f) : m[k].from[2] = k - 1 + skip /\ m[k].to[1] = c[k]
  <2> HIDE DEF skip
  <2> QED
    BY <1>3, <1>4, <1>5
<1>7. \A k \in 1..Length(f) : k - 1 + skip = Part(f, From(f) + k - 1)
  BY <1>1, Places
<1> QED
  BY <1>2, <1>6, <1>7 DEF m, c

\* The two checks that transfer.py makes, that the blocks of a job fill its
\* files and that those of a file fill its part of the storage block, refuse
\* no job whose hashes are those of the storage blocks it spans.
THEOREM CopiesLineUp ==
  \A j \in Jobs :
    /\ SplitLinesUp(JobBlocks[j], Len(JobHashes[j]), SplitFrom(j))
    /\ \A f \in Transfer!FilesOf(j) :
         IF IsStore(j) THEN LinesUp(ChunkOf(f), 1, <<f>>, Factor)
         ELSE LinesUp(<<f>>, Factor, ChunkOf(f), 1)
<1> TAKE j \in Jobs
<1>1. /\ Factor \in Nat \ {0} /\ Len(JobHashes[j]) \in Nat /\ Len(JobBlocks[j]) \in Nat
      /\ Skew(j) \in 0..(Factor - 1) /\ (IsStore(j) => Skew(j) = 0)
      /\ Len(JobHashes[j]) # 0 => Skew(j) + Len(JobBlocks[j]) = Len(JobHashes[j]) * Factor
  BY JobFacts
<1>2. SplitLinesUp(JobBlocks[j], Len(JobHashes[j]), SplitFrom(j))
  <2> DEFINE m == Len(JobHashes[j])
             f == <<j, m>>
  <2>1. CASE m = 0
    BY <2>1 DEF SplitLinesUp
  <2>2. CASE m # 0
    <3>1. f[1] = j /\ f[2] = m /\ m \in 1..m /\ f \in Transfer!FilesOf(j)
      BY <1>1, <2>2 DEF Transfer!FilesOf
    <3>2. f \in Files
      BY <3>1, FilesFacts
    <3> HIDE DEF f
    <3>3. ChunkEnd(JobBlocks[j], SplitFrom(j), m) = m * Factor - Skew(j)
      BY <3>1, <3>2, ChunkEnds
    <3> DEFINE x == m * Factor
    <3>4. Skew(j) + Len(JobBlocks[j]) = x /\ ChunkEnd(JobBlocks[j], SplitFrom(j), m) = x - Skew(j)
      BY <1>1, <2>2, <3>3
    <3> HIDE DEF x
    <3>5. ChunkEnd(JobBlocks[j], SplitFrom(j), m) = Len(JobBlocks[j])
      BY <1>1, <3>4
    <3> QED
      BY <3>5 DEF SplitLinesUp
  <2> QED
    BY <2>1, <2>2
<1>3. ASSUME NEW f \in Transfer!FilesOf(j), IsStore(j)
      PROVE  LinesUp(ChunkOf(f), 1, <<f>>, Factor)
  <2>1. f \in Files /\ f[1] = j
    BY FilesFacts
  <2>2. Len(ChunkOf(f)) = Factor
    BY <1>3, <2>1, StoreParts, ChunkIs
  <2> QED
    BY <1>1, <2>2, OneIs, StoreSkip DEF LinesUp
<1>4. ASSUME NEW f \in Transfer!FilesOf(j)
      PROVE  LinesUp(<<f>>, Factor, ChunkOf(f), 1)
  <2>1. f \in Files /\ f[1] = j
    BY FilesFacts
  <2>2. Len(ChunkOf(f)) \in 1..Factor
    BY <2>1, ChunkIs, Bounds
  <2>3. Skip(<<f>>, Factor, ChunkOf(f)) = Factor - Len(ChunkOf(f))
    BY <2>2, LoadSkip
  <2> QED
    BY <1>1, <2>2, <2>3, OneIs DEF LinesUp
<1> QED
  BY <1>2, <1>3, <1>4

-----------------------------------------------------------------------------
(* What a copy leaves behind.                                               *)

\* File f of a load has filled its GPU blocks.
Filled(f) == \A k \in From(f)..To(f) : gpu[JobBlocks[f[1]][k]] = Meant(f[1], k)

\* A store whose blocks hold what they should gathers the whole block.
LEMMA GatheredIs ==
  ASSUME NEW f \in Files, IsStore(f[1]), Holds(f[1])
  PROVE  Gathered(f) = Whole(Block(f))
<1> DEFINE m == StoreMapping(f, ChunkOf(f))
           from(p) == CHOOSE i \in DOMAIN m : m[i].to = <<f, p>>
<1>1. /\ DOMAIN m = 1..Factor /\ Length(f) = Factor /\ Factor \in Nat \ {0}
      /\ \A k \in 1..Factor : /\ m[k].from[1] = JobBlocks[f[1]][From(f) + k - 1]
                              /\ m[k].to = <<f, k - 1>>
  BY StoreParts, FactorAssumption
<1>2. Gathered(f) = [p \in Parts |-> gpu[m[from(p)].from[1]]]
  BY DEF Gathered
<1> HIDE DEF m
<1>3. ASSUME NEW p \in Parts PROVE gpu[m[from(p)].from[1]] = <<Block(f), p>>
  <2>1. p + 1 \in 1..Factor /\ (p + 1) - 1 = p
    BY <1>1 DEF Parts
  <2>2. \A i \in 1..Factor : m[i].to = <<f, p>> <=> i = p + 1
    BY <1>1, <2>1
  <2>3. from(p) = p + 1
    BY <1>1, <2>1, <2>2
  <2> DEFINE k == From(f) + (p + 1) - 1
  <2>4. /\ k \in From(f)..To(f) /\ k \in 1..Len(JobBlocks[f[1]])
        /\ Part(f, k) = Factor - Length(f) + (p + 1) - 1
    BY <1>1, <2>1, Places
  <2>5. m[from(p)].from[1] = JobBlocks[f[1]][k]
    BY <1>1, <2>1, <2>3
  <2> HIDE DEF k
  <2>6. Part(f, k) = p
    BY <1>1, <2>1, <2>4
  <2>7. Meant(f[1], k) = <<Block(f), p>>
    BY <2>4, <2>6, MeantIs
  <2>8. gpu[JobBlocks[f[1]][k]] = Meant(f[1], k)
    BY <2>4, FileFacts, JobFacts DEF Holds
  <2> QED
    BY <2>5, <2>7, <2>8
<1> QED
  BY <1>2, <1>3 DEF Whole

\* A published block is scattered to where its parts are meant to be.
LEMMA ScatteredIs ==
  ASSUME NEW f \in Files, data[Block(f)] = Whole(Block(f)), NEW k \in From(f)..To(f)
  PROVE  /\ Scattered(f, JobBlocks[f[1]][k]) = Meant(f[1], k)
         /\ JobBlocks[f[1]][k] \in Range(ChunkOf(f))
<1> DEFINE m == LoadMapping(f, ChunkOf(f))
           b == JobBlocks[f[1]][k]
           at == CHOOSE i \in DOMAIN m : m[i].to[1] = b
           x == k - From(f) + 1
<1>1. /\ DOMAIN m = 1..Length(f)
      /\ \A i \in 1..Length(f) : /\ m[i].to[1] = JobBlocks[f[1]][From(f) + i - 1]
                                 /\ m[i].from[2] = Part(f, From(f) + i - 1)
  BY LoadParts
<1>2. Scattered(f, b) = data[Block(f)][m[at].from[2]]
  BY DEF Scattered
<1> HIDE DEF m
<1>3. /\ From(f) \in Nat /\ To(f) \in Nat /\ Length(f) = To(f) - From(f) + 1
      /\ f[1] \in Jobs /\ Part(f, k) \in Parts
  BY Bounds, FileFacts DEF Length
<1>4. x \in 1..Length(f) /\ From(f) + x - 1 = k
  BY <1>3
<1>5. m[x].to[1] = b /\ m[x].from[2] = Part(f, k)
  BY <1>1, <1>4
<1>6. ASSUME NEW i \in 1..Length(f), m[i].to[1] = b PROVE i = x
  <2>1. JobBlocks[f[1]][From(f) + i - 1] = JobBlocks[f[1]][k]
    BY <1>1, <1>6
  <2>2. From(f) + i - 1 \in 1..Len(JobBlocks[f[1]]) /\ k \in 1..Len(JobBlocks[f[1]])
    BY <1>4, Places
  <2>3. From(f) + i - 1 = k
    BY <1>3, <2>1, <2>2, JobFacts
  <2> QED
    BY <1>3, <2>3
<1>7. at = x
  BY <1>1, <1>4, <1>5, <1>6
<1>8. b \in Range(ChunkOf(f))
  <2>1. ChunkOf(f)[x] = b /\ DOMAIN ChunkOf(f) = 1..Length(f)
    BY <1>4, ChunkIs, LenProperties
  <2> QED
    BY <1>4, <2>1 DEF Range
<1> HIDE DEF at, x, b
<1>9. data[Block(f)][Part(f, k)] = <<Block(f), Part(f, k)>>
  BY <1>3 DEF Whole
<1> QED
  BY <1>2, <1>5, <1>7, <1>8, <1>9, MeantIs DEF b

\* A file writes to blocks of its own job only.
LEMMA ChunkInside ==
  ASSUME NEW f \in Files
  PROVE  Range(ChunkOf(f)) \subseteq Range(JobBlocks[f[1]])
<1>1. ASSUME NEW b \in Range(ChunkOf(f)) PROVE b \in Range(JobBlocks[f[1]])
  <2>1. PICK k \in 1..Length(f) : ChunkOf(f)[k] = b
    <3>1. DOMAIN ChunkOf(f) = 1..Length(f)
      BY ChunkIs, LenProperties
    <3> QED
      BY <1>1, <3>1 DEF Range
  <2>2. From(f) + k - 1 \in 1..Len(JobBlocks[f[1]])
    BY Places
  <2>3. b = JobBlocks[f[1]][From(f) + k - 1]
    BY <2>1, ChunkIs
  <2>4. DOMAIN JobBlocks[f[1]] = 1..Len(JobBlocks[f[1]])
    BY FileFacts, JobFacts
  <2> QED
    BY <2>2, <2>3, <2>4 DEF Range
<1> QED
  BY <1>1

\* A load all of whose files have filled their blocks holds what it should.
LEMMA AllFilled ==
  ASSUME NEW j \in Jobs, \A f \in Transfer!FilesOf(j) : Filled(f)
  PROVE  Holds(j)
<1> SUFFICES ASSUME NEW k \in DOMAIN JobBlocks[j] PROVE gpu[JobBlocks[j][k]] = Meant(j, k)
  BY DEF Holds
<1>1. k \in 1..Len(JobBlocks[j])
  BY JobFacts
<1>2. PICK f \in Transfer!FilesOf(j) : k \in From(f)..To(f)
  BY <1>1, EveryPlace
<1>3. f[1] = j
  BY FilesFacts
<1> QED
  BY <1>2, <1>3 DEF Filled

-----------------------------------------------------------------------------
(* The inductive invariant.                                                 *)

Status == {"none", "pending", "ok", "error", "declined"}

Types ==
  /\ future \in [Jobs -> Status] /\ file \in [Files -> {"new", "moving", "held", "over"}]
  /\ DOMAIN staged = Files /\ DOMAIN data = Hashes /\ DOMAIN gpu = GpuBlocks
  /\ stored \subseteq Hashes /\ done \subseteq Files
  /\ active \subseteq Jobs /\ reported \subseteq Jobs /\ freed \subseteq reported

\* The blocks of a job are its own from the submission until they are used
\* again.
Live(j) == future[j] # "none" /\ j \notin freed

\* Until the shutdown the table and the results have every job that was
\* submitted.  The blocks of a job that may still move a file are its own.
Table ==
  /\ ~isShutdown => \A j \in Jobs : future[j] # "none" <=> j \in active \cup reported
  /\ \A j \in reported : Done(j)
  /\ \A j \in freed : future[j] \in {"ok", "declined"}
  /\ \A i, j \in Jobs :
       i # j /\ Live(i) /\ Live(j) => Range(JobBlocks[i]) \cap Range(JobBlocks[j]) = {}

\* The state of a file and what is gathered for it.
FileStages ==
  \A f \in Files :
    /\ future[f[1]] \in {"none", "declined"} => file[f] = "new"
    /\ future[f[1]] = "ok" => f \in done
    /\ f \in done => file[f] = "over"
    /\ file[f] = "held" => IsStore(f[1]) /\ staged[f] = Whole(Block(f))

\* Blocks that are published are whole; the GPU blocks of a store hold what
\* they should until the job is over, those of a load once a file is done.
Contents ==
  /\ PublishedRight
  /\ \A j \in Jobs : IsStore(j) /\ Live(j) => Holds(j)
  /\ \A f \in done : ~IsStore(f[1]) /\ Live(f[1]) => Filled(f)

\* The blocks of a load that was declined are to be recomputed.
Declines ==
  \A j \in reported \ freed :
    ~IsStore(j) /\ future[j] = "declined" => Range(JobBlocks[j]) \subseteq declinedBlocks \cup told

Inv == Types /\ Table /\ FileStages /\ Contents /\ Declines

\* A file that moves or is held is one of a job whose blocks are its own.
LEMMA BusyIsLive ==
  ASSUME Inv, NEW f \in Files, file[f] \in {"moving", "held"}
  PROVE  future[f[1]] \in {"pending", "error"} /\ Live(f[1]) /\ f \notin done
<1>1. f[1] \in Jobs
  BY FileFacts
<1>2. f \notin done /\ future[f[1]] \notin {"none", "declined", "ok"}
  BY DEF Inv, FileStages
<1>3. future[f[1]] \in Status
  BY <1>1 DEF Inv, Types
<1> QED
  BY <1>2, <1>3 DEF Status, Live, Inv, Table

LEMMA InitInv == Init => Inv
<1> SUFFICES ASSUME Init PROVE Inv
  OBVIOUS
<1>1. /\ future = [j \in Jobs |-> "none"] /\ done = {} /\ stored = OnDisk
      /\ file = [f \in Files |-> "new"]
      /\ active = {} /\ reported = {} /\ freed = {}
      /\ data = [h \in Hashes |-> Whole(IF h \in OnDisk THEN h ELSE Junk)]
  BY DEF Init, Transfer!Init
<1>2. OnDisk \subseteq Hashes
  BY HandlerAssumption
<1>3. Types
  BY <1>1, <1>2 DEF Types, Init, Status
<1>4. Table
  BY <1>1 DEF Table, Live
<1>5. FileStages
  BY <1>1, FileFacts DEF FileStages
<1>6. Contents
  BY <1>1, <1>2 DEF Contents, PublishedRight, Live
<1>7. Declines
  BY <1>1 DEF Declines
<1> QED
  BY <1>3, <1>4, <1>5, <1>6, <1>7 DEF Inv

-----------------------------------------------------------------------------
(* What the steps of files do to the table.                                 *)

\* Futures are answered, never taken back or declined.
Answers ==
  /\ future' \in [Jobs -> Status]
  /\ \A j \in Jobs : \/ future'[j] = future[j]
                     \/ future[j] = "pending" /\ future'[j] \in {"ok", "error"}

LEMMA CompleteAnswers ==
  ASSUME Types, NEW f \in Files, Transfer!Complete(f[1], f)
  PROVE  /\ Answers /\ future[f[1]] \in {"pending", "error"} /\ f \notin done /\ done' = done \cup {f}
         /\ \A j \in Jobs : future'[j] = "ok" /\ future[j] # "ok" => Transfer!FilesOf(j) \subseteq done'
<1>1. f[1] \in Jobs /\ future \in [Jobs -> Status]
  BY FileFacts DEF Types
<1>2. /\ future[f[1]] \in {"pending", "error"} /\ f \notin done /\ done' = done \cup {f}
      /\ future' = IF future[f[1]] = "pending" /\ Transfer!FilesOf(f[1]) \subseteq done'
                     THEN [future EXCEPT ![f[1]] = "ok"] ELSE future
  BY DEF Transfer!Complete, Transfer!Taken
<1>3. CASE future[f[1]] = "pending" /\ Transfer!FilesOf(f[1]) \subseteq done'
  <2>1. future' = [future EXCEPT ![f[1]] = "ok"]
    BY <1>2, <1>3
  <2> QED
    BY <1>1, <1>2, <1>3, <2>1 DEF Answers, Status
<1>4. CASE ~(future[f[1]] = "pending" /\ Transfer!FilesOf(f[1]) \subseteq done')
  <2>1. future' = future
    BY <1>2, <1>4
  <2> QED
    BY <1>1, <1>2, <2>1 DEF Answers
<1> QED
  BY <1>3, <1>4

LEMMA FailAnswers ==
  ASSUME Types, NEW J, J \subseteq Jobs, Transfer!Fail(J)
  PROVE  Answers /\ done' = done /\ \A j \in Jobs : future'[j] = "ok" => future[j] = "ok"
BY DEF Types, Status, Answers, Transfer!Fail

LEMMA AnswersKeep ==
  ASSUME Inv, Answers, UNCHANGED <<table, reported, freed, told>>
  PROVE  Table' /\ Declines' /\ \A j \in Jobs : Live(j)' <=> Live(j)
<1>1. \A j \in Jobs : Live(j)' <=> Live(j)
  BY DEF Answers, Live
<1>2. \A j \in reported : j \in Jobs /\ future'[j] = future[j]
  BY DEF Inv, Types, Table, Done, Answers
<1>3. freed \subseteq reported
  BY DEF Inv, Types
<1>4. \A j \in Jobs : future'[j] = "none" <=> future[j] = "none"
  BY DEF Answers
<1>5. Table'
  BY <1>1, <1>2, <1>3, <1>4 DEF Inv, Table, table, Done
<1>6. Declines'
  BY <1>2 DEF Inv, Declines, table
<1> QED
  BY <1>1, <1>5, <1>6

\* What happens to blocks outside a job is nothing to it.
Same(j) == \A b \in Range(JobBlocks[j]) : gpu'[b] = gpu[b]

LEMMA SameKeeps ==
  ASSUME NEW j \in Jobs, Same(j)
  PROVE  /\ Holds(j) => Holds(j)'
         /\ \A f \in Transfer!FilesOf(j) : Filled(f) => Filled(f)'
<1>1. \A k \in 1..Len(JobBlocks[j]) : gpu'[JobBlocks[j][k]] = gpu[JobBlocks[j][k]]
  BY JobFacts DEF Same, Range
<1>2. Holds(j) => Holds(j)'
  BY <1>1, JobFacts DEF Holds
<1>3. ASSUME NEW f \in Transfer!FilesOf(j), Filled(f) PROVE Filled(f)'
  <2>1. f \in Files /\ f[1] = j
    BY FilesFacts
  <2>2. \A k \in From(f)..To(f) : k \in 1..Len(JobBlocks[j])
    BY <2>1, Bounds, JobFacts
  <2> QED
    BY <1>1, <1>3, <2>1, <2>2 DEF Filled
<1> QED
  BY <1>2, <1>3

-----------------------------------------------------------------------------
(* The steps of files.                                                      *)

LEMMA ScheduleInv == ASSUME Inv, NEW f \in Files, Schedule(f) PROVE Inv'
<1>1. /\ future[f[1]] = "pending" /\ file[f] = "new" /\ file' = [file EXCEPT ![f] = "moving"]
      /\ UNCHANGED <<transfer, table, staged, data, worker, preload>>
  BY DEF Schedule
<1>2. UNCHANGED <<future, done, stored, active, declinedBlocks, isShutdown, staged, data, gpu,
                  reported, freed, told>>
  BY <1>1 DEF transfer, table, worker
<1>3. Types'
  BY <1>1, <1>2 DEF Inv, Types
<1>4. \A j \in Jobs : Live(j)' <=> Live(j)
  BY <1>2 DEF Live
<1>5. Table' /\ Declines'
  BY <1>2, <1>4 DEF Inv, Table, Declines, Done
<1>6. FileStages'
  <2> SUFFICES ASSUME NEW g \in Files
               PROVE  /\ future[g[1]] \in {"none", "declined"} => file'[g] = "new"
                      /\ future[g[1]] = "ok" => g \in done
                      /\ g \in done => file'[g] = "over"
                      /\ file'[g] = "held" => IsStore(g[1]) /\ staged[g] = Whole(Block(g))
    BY <1>2 DEF FileStages
  <2>1. file'[g] = IF g = f THEN "moving" ELSE file[g]
    BY <1>1 DEF Inv, Types
  <2> QED
    BY <1>1, <2>1 DEF Inv, FileStages
<1>7. Contents'
  <2>1. PublishedRight' /\ \A j \in Jobs : IsStore(j) /\ Live(j)' => Holds(j)'
    BY <1>2, <1>4 DEF Inv, Contents, PublishedRight, Holds
  <2>2. \A g \in done : ~IsStore(g[1]) /\ Live(g[1])' => Filled(g)'
    BY <1>2 DEF Inv, Contents, Filled, Live
  <2> QED
    BY <1>2, <2>1, <2>2 DEF Contents
<1> QED
  BY <1>3, <1>5, <1>6, <1>7 DEF Inv

LEMMA GatherInv == ASSUME Inv, NEW f \in Files, Gather(f) PROVE Inv'
<1>1. /\ IsStore(f[1]) /\ file[f] = "moving" /\ file' = [file EXCEPT ![f] = "held"]
      /\ staged' = [staged EXCEPT ![f] = Gathered(f)]
  BY DEF Gather
<1>2. UNCHANGED <<future, done, stored, active, declinedBlocks, isShutdown, data, gpu,
                  reported, freed, told>>
  BY DEF Gather, transfer, table, worker
<1>3. future[f[1]] \in {"pending", "error"} /\ Live(f[1]) /\ f \notin done
  BY <1>1, BusyIsLive
<1>4. Types'
  BY <1>1, <1>2 DEF Inv, Types
<1>5. \A j \in Jobs : Live(j)' <=> Live(j)
  BY <1>2 DEF Live
<1>6. Table' /\ Declines'
  BY <1>2, <1>5 DEF Inv, Table, Declines, Done
<1>7. Gathered(f) = Whole(Block(f))
  <2>1. Holds(f[1])
    BY <1>1, <1>3, FileFacts DEF Inv, Contents
  <2> QED
    BY <1>1, <2>1, GatheredIs
<1>8. FileStages'
  <2> SUFFICES ASSUME NEW g \in Files
               PROVE  /\ future[g[1]] \in {"none", "declined"} => file'[g] = "new"
                      /\ future[g[1]] = "ok" => g \in done
                      /\ g \in done => file'[g] = "over"
                      /\ file'[g] = "held" => IsStore(g[1]) /\ staged'[g] = Whole(Block(g))
    BY <1>2 DEF FileStages
  <2>1. /\ file'[g] = IF g = f THEN "held" ELSE file[g]
        /\ staged'[g] = IF g = f THEN Gathered(f) ELSE staged[g]
    BY <1>1 DEF Inv, Types
  <2> QED
    BY <1>1, <1>3, <1>7, <2>1 DEF Inv, FileStages
<1>9. Contents'
  <2>1. PublishedRight' /\ \A j \in Jobs : IsStore(j) /\ Live(j)' => Holds(j)'
    BY <1>2, <1>5 DEF Inv, Contents, PublishedRight, Holds
  <2>2. \A g \in done : ~IsStore(g[1]) /\ Live(g[1])' => Filled(g)'
    BY <1>2 DEF Inv, Contents, Filled, Live
  <2> QED
    BY <1>2, <2>1, <2>2 DEF Contents
<1> QED
  BY <1>4, <1>6, <1>8, <1>9 DEF Inv

\* A file is over, done or failed.
LEMMA OverStages ==
  ASSUME Inv, NEW f \in Files, file[f] \in {"moving", "held"}, Answers,
         file' = [file EXCEPT ![f] = "over"], staged' = staged, done' \in {done, done \cup {f}},
         \A j \in Jobs : future'[j] = "ok" /\ future[j] # "ok" => Transfer!FilesOf(j) \subseteq done'
  PROVE  FileStages'
<1> SUFFICES ASSUME NEW g \in Files
             PROVE  /\ future'[g[1]] \in {"none", "declined"} => file'[g] = "new"
                    /\ future'[g[1]] = "ok" => g \in done'
                    /\ g \in done' => file'[g] = "over"
                    /\ file'[g] = "held" => IsStore(g[1]) /\ staged[g] = Whole(Block(g))
  BY DEF FileStages
<1>1. file'[g] = IF g = f THEN "over" ELSE file[g]
  BY DEF Inv, Types
<1>2. g[1] \in Jobs /\ g \in Transfer!FilesOf(g[1])
  BY FileFacts
<1>3. \/ future'[g[1]] = future[g[1]]
      \/ future[g[1]] = "pending" /\ future'[g[1]] \in {"ok", "error"}
  BY <1>2 DEF Answers
<1>4. /\ future[g[1]] \in {"none", "declined"} => file[g] = "new"
      /\ future[g[1]] = "ok" => g \in done
      /\ g \in done => file[g] = "over"
      /\ file[g] = "held" => IsStore(g[1]) /\ staged[g] = Whole(Block(g))
  BY DEF Inv, FileStages
<1>5. future'[g[1]] \in {"none", "declined"} => file'[g] = "new"
  BY <1>1, <1>3, <1>4
<1>6. future'[g[1]] = "ok" => g \in done'
  BY <1>2, <1>3, <1>4
<1> QED
  BY <1>1, <1>4, <1>5, <1>6

\* The first link of a block that a held file makes.
LEMMA LinkKeeps ==
  ASSUME Inv, NEW f \in Files, file[f] = "held", stored' = stored \cup {Block(f)}, Link(f)
  PROVE  PublishedRight' /\ DOMAIN data' = Hashes /\ stored' \subseteq Hashes
<1>1. Block(f) \in Hashes /\ staged[f] = Whole(Block(f)) /\ DOMAIN data = Hashes /\ stored \subseteq Hashes
  BY FileFacts DEF Inv, FileStages, Types
<1>2. \A h \in stored : data[h] = Whole(h)
  BY DEF Inv, Contents, PublishedRight
<1>3. CASE Block(f) \in stored
  <2>1. data' = data /\ stored' = stored
    BY <1>3 DEF Link
  <2> QED
    BY <1>1, <1>2, <2>1 DEF PublishedRight
<1>4. CASE Block(f) \notin stored
  <2>1. data' = [data EXCEPT ![Block(f)] = staged[f]]
    BY <1>4 DEF Link
  <2> QED
    BY <1>1, <1>2, <2>1 DEF PublishedRight
<1> QED
  BY <1>3, <1>4

LEMMA PublishInv == ASSUME Inv, NEW f \in Files, Publish(f) PROVE Inv'
<1>1. /\ file[f] = "held" /\ Transfer!Complete(f[1], f) /\ Link(f)
      /\ file' = [file EXCEPT ![f] = "over"]
      /\ UNCHANGED <<table, staged, worker, preload>>
  BY DEF Publish
<1>2. UNCHANGED <<staged, gpu, reported, freed, told, active, declinedBlocks, isShutdown>>
  BY <1>1 DEF table, worker
<1>3. /\ Answers /\ done' = done \cup {f}
      /\ \A j \in Jobs : future'[j] = "ok" /\ future[j] # "ok" => Transfer!FilesOf(j) \subseteq done'
  BY <1>1, CompleteAnswers DEF Inv
<1>4. IsStore(f[1])
  BY <1>1 DEF Inv, FileStages
<1>5. stored' = stored \cup {Block(f)}
  BY <1>1, <1>4 DEF Transfer!Complete, IsStore, Block
<1>6. PublishedRight' /\ DOMAIN data' = Hashes /\ stored' \subseteq Hashes
  BY <1>1, <1>5, LinkKeeps
<1>7. Table' /\ Declines' /\ \A j \in Jobs : Live(j)' <=> Live(j)
  BY <1>1, <1>2, <1>3, AnswersKeep
<1>8. FileStages'
  BY <1>1, <1>2, <1>3, OverStages
<1>9. Types'
  BY <1>1, <1>2, <1>3, <1>6 DEF Inv, Types, Answers
<1>10. Contents'
  <2>1. \A j \in Jobs : IsStore(j) /\ Live(j)' => Holds(j)'
    BY <1>2, <1>7 DEF Inv, Contents, Holds
  <2>2. ASSUME NEW g \in done', ~IsStore(g[1]), Live(g[1])' PROVE Filled(g)'
    <3>1. g \in done /\ g \in Files
      BY <1>3, <1>4, <2>2 DEF Inv, Types
    <3>2. Live(g[1])
      BY <1>7, <2>2, <3>1, FileFacts
    <3> QED
      BY <1>2, <2>2, <3>1, <3>2 DEF Inv, Contents, Filled
  <2> QED
    BY <1>6, <2>1, <2>2 DEF Contents
<1> QED
  BY <1>7, <1>8, <1>9, <1>10 DEF Inv

LEMMA FileFailsInv == ASSUME Inv, NEW f \in Files, FileFails(f) PROVE Inv'
<1> DEFINE J == {f[1]} \cap {j \in Jobs : future[j] = "pending"}
<1>1. /\ file[f] \in {"moving", "held"} /\ Transfer!Fail(J)
      /\ \/ UNCHANGED <<stored, data>>
         \/ file[f] = "held" /\ stored' = stored \cup {Block(f)} /\ Link(f)
      /\ file' = [file EXCEPT ![f] = "over"]
      /\ UNCHANGED <<table, staged, worker, preload>>
  BY DEF FileFails
<1>2. UNCHANGED <<staged, gpu, reported, freed, told, active, declinedBlocks, isShutdown>>
  BY <1>1 DEF table, worker
<1>3. Answers /\ done' = done /\ \A j \in Jobs : future'[j] = "ok" => future[j] = "ok"
  <2>1. J \subseteq Jobs
    OBVIOUS
  <2> HIDE DEF J
  <2> QED
    BY <1>1, <2>1, FailAnswers DEF Inv
<1>4. PublishedRight' /\ DOMAIN data' = Hashes /\ stored' \subseteq Hashes
  <2>1. CASE UNCHANGED <<stored, data>>
    BY <2>1 DEF Inv, Contents, PublishedRight, Types
  <2>2. CASE file[f] = "held" /\ stored' = stored \cup {Block(f)} /\ Link(f)
    BY <2>2, LinkKeeps
  <2> QED
    BY <1>1, <2>1, <2>2
<1>5. Table' /\ Declines' /\ \A j \in Jobs : Live(j)' <=> Live(j)
  BY <1>1, <1>2, <1>3, AnswersKeep
<1>6. FileStages'
  BY <1>1, <1>2, <1>3, OverStages
<1>7. Types'
  BY <1>1, <1>2, <1>3, <1>4 DEF Inv, Types, Answers
<1>8. Contents'
  <2>1. \A j \in Jobs : IsStore(j) /\ Live(j)' => Holds(j)'
    BY <1>2, <1>5 DEF Inv, Contents, Holds
  <2>2. ASSUME NEW g \in done', ~IsStore(g[1]), Live(g[1])' PROVE Filled(g)'
    <3>1. g \in done /\ g \in Files
      BY <1>3, <2>2 DEF Inv, Types
    <3>2. Live(g[1])
      BY <1>5, <2>2, <3>1, FileFacts
    <3> QED
      BY <1>2, <2>2, <3>1, <3>2 DEF Inv, Contents, Filled
  <2> QED
    BY <1>4, <2>1, <2>2 DEF Contents
<1> QED
  BY <1>5, <1>6, <1>7, <1>8 DEF Inv

\* What a scattered file leaves at a place of its job is what was there or
\* what is meant to be there.
LEMMA ScatterWrites ==
  ASSUME NEW f \in Files, data[Block(f)] = Whole(Block(f)), NEW k \in 1..Len(JobBlocks[f[1]]),
         gpu' = [b \in GpuBlocks |-> IF b \in Range(ChunkOf(f)) THEN Scattered(f, b) ELSE gpu[b]]
  PROVE  /\ \/ gpu'[JobBlocks[f[1]][k]] = gpu[JobBlocks[f[1]][k]]
            \/ gpu'[JobBlocks[f[1]][k]] = Meant(f[1], k)
         /\ k \in From(f)..To(f) => gpu'[JobBlocks[f[1]][k]] = Meant(f[1], k)
<1> DEFINE b == JobBlocks[f[1]][k]
<1>1. f[1] \in Jobs /\ b \in GpuBlocks
  BY FileFacts, JobFacts
<1>2. gpu'[b] = IF b \in Range(ChunkOf(f)) THEN Scattered(f, b) ELSE gpu[b]
  BY <1>1
<1>3. ASSUME k \in From(f)..To(f) PROVE gpu'[b] = Meant(f[1], k)
  BY <1>2, <1>3, ScatteredIs
<1>4. ASSUME b \in Range(ChunkOf(f)) PROVE k \in From(f)..To(f)
  <2>1. PICK x \in 1..Length(f) : ChunkOf(f)[x] = b
    <3>1. DOMAIN ChunkOf(f) = 1..Length(f)
      BY ChunkIs, LenProperties
    <3> QED
      BY <1>4, <3>1 DEF Range
  <2>2. /\ JobBlocks[f[1]][From(f) + x - 1] = JobBlocks[f[1]][k]
        /\ From(f) + x - 1 \in From(f)..To(f) /\ From(f) + x - 1 \in 1..Len(JobBlocks[f[1]])
    BY <2>1, ChunkIs, Places
  <2>3. From(f) + x - 1 = k
    BY <1>1, <2>2, JobFacts
  <2> QED
    BY <2>2, <2>3
<1> QED
  BY <1>2, <1>3, <1>4

LEMMA ScatterInv == ASSUME Inv, NEW f \in Files, Scatter(f) PROVE Inv'
<1>1. /\ ~IsStore(f[1]) /\ file[f] = "moving" /\ Transfer!Complete(f[1], f)
      /\ file' = [file EXCEPT ![f] = "over"]
      /\ gpu' = [b \in GpuBlocks |-> IF b \in Range(ChunkOf(f)) THEN Scattered(f, b) ELSE gpu[b]]
      /\ UNCHANGED <<table, staged, data, reported, freed, told, preload>>
  BY DEF Scatter
<1>2. UNCHANGED <<staged, data, reported, freed, told, active, declinedBlocks, isShutdown>>
  BY <1>1 DEF table
<1>3. /\ Answers /\ done' = done \cup {f}
      /\ \A j \in Jobs : future'[j] = "ok" /\ future[j] # "ok" => Transfer!FilesOf(j) \subseteq done'
  BY <1>1, CompleteAnswers DEF Inv
<1>4. Block(f) \in stored /\ stored' = stored
  BY <1>1 DEF Transfer!Complete, IsStore, Block
<1>5. data[Block(f)] = Whole(Block(f)) /\ f[1] \in Jobs
  BY <1>4, FileFacts DEF Inv, Contents, PublishedRight
<1>6. Table' /\ Declines' /\ \A j \in Jobs : Live(j)' <=> Live(j)
  BY <1>1, <1>2, <1>3, AnswersKeep
<1>7. FileStages'
  BY <1>1, <1>2, <1>3, OverStages
<1>8. Types'
  BY <1>1, <1>2, <1>3, <1>4 DEF Inv, Types, Answers
<1>9. ASSUME NEW j \in Jobs, j # f[1], Live(j) PROVE Same(j)
  <2>1. Live(f[1])
    BY <1>1, BusyIsLive
  <2>2. Range(JobBlocks[j]) \cap Range(JobBlocks[f[1]]) = {}
    BY <1>5, <1>9, <2>1 DEF Inv, Table
  <2>3. ASSUME NEW b \in Range(JobBlocks[j]) PROVE gpu'[b] = gpu[b]
    <3>1. b \notin Range(ChunkOf(f))
      BY <2>2, ChunkInside
    <3>2. b \in GpuBlocks
      BY JobFacts DEF Range
    <3> QED
      BY <1>1, <3>1, <3>2
  <2> QED
    BY <2>3 DEF Same
<1>10. Contents'
  <2>1. PublishedRight'
    BY <1>2, <1>4 DEF Inv, Contents, PublishedRight
  <2>2. ASSUME NEW j \in Jobs, IsStore(j), Live(j)' PROVE Holds(j)'
    <3>1. Live(j) /\ j # f[1]
      BY <1>1, <1>6, <2>2
    <3> QED
      BY <1>9, <2>2, <3>1, SameKeeps DEF Inv, Contents
  <2>3. ASSUME NEW g \in done', ~IsStore(g[1]), Live(g[1])' PROVE Filled(g)'
    <3>1. g \in Files /\ g[1] \in Jobs /\ g \in Transfer!FilesOf(g[1])
      BY <1>8, FileFacts DEF Types
    <3>2. Live(g[1])
      BY <1>6, <2>3, <3>1
    <3>3. CASE g[1] # f[1]
      <4>1. g \in done /\ Filled(g)
        BY <1>3, <2>3, <3>2, <3>3 DEF Inv, Contents
      <4>2. Same(g[1])
        BY <1>9, <3>1, <3>2, <3>3
      <4> QED
        BY <3>1, <4>1, <4>2, SameKeeps, Zenon
    <3>4. CASE g[1] = f[1]
      <4> SUFFICES ASSUME NEW k \in From(g)..To(g) PROVE gpu'[JobBlocks[g[1]][k]] = Meant(g[1], k)
        BY DEF Filled
      <4>1. k \in 1..Len(JobBlocks[f[1]])
        BY <3>1, <3>4, Bounds, JobFacts
      <4>2. CASE g = f
        BY <1>1, <1>5, <3>4, <4>1, <4>2, ScatterWrites
      <4>3. CASE g # f
        <5>1. Filled(g)
          BY <1>3, <2>3, <3>2, <4>3 DEF Inv, Contents
        <5>2. gpu[JobBlocks[g[1]][k]] = Meant(g[1], k)
          BY <5>1 DEF Filled
        <5> QED
          BY <1>1, <1>5, <3>4, <4>1, <5>2, ScatterWrites
      <4> QED
        BY <4>2, <4>3
    <3> QED
      BY <3>3, <3>4
  <2> QED
    BY <2>1, <2>2, <2>3 DEF Contents
<1> QED
  BY <1>6, <1>7, <1>8, <1>10 DEF Inv

-----------------------------------------------------------------------------
(* The steps of the worker and of the handler.                              *)

\* Steps that touch neither files nor contents.
LEMMA QuietKeeps ==
  ASSUME Inv, UNCHANGED <<future, done, stored, file, staged, data, gpu, freed>>
  PROVE  FileStages' /\ Contents' /\ \A j \in Jobs : Live(j)' <=> Live(j)
<1>1. \A j \in Jobs : Live(j)' <=> Live(j)
  BY DEF Live
<1>2. FileStages'
  BY DEF Inv, FileStages
<1>3. PublishedRight' /\ \A j \in Jobs : IsStore(j) /\ Live(j)' => Holds(j)'
  BY <1>1 DEF Inv, Contents, PublishedRight, Holds
<1>4. \A f \in done' : ~IsStore(f[1]) /\ Live(f[1])' => Filled(f)'
  BY DEF Inv, Contents, Filled, Live
<1> QED
  BY <1>1, <1>2, <1>3, <1>4 DEF Contents

LEMMA QuietInv ==
  ASSUME Inv, UNCHANGED <<transfer, copies, gpu, reported, freed>>,
         active' \in {active, {}}, isShutdown' = isShutdown \/ isShutdown',
         ~isShutdown' => ~isShutdown /\ active' = active,
         declinedBlocks \cup told \subseteq declinedBlocks' \cup told'
  PROVE  Inv'
<1>1. UNCHANGED <<future, done, stored, file, staged, data, gpu, reported, freed>>
  BY DEF transfer, copies
<1>2. FileStages' /\ Contents' /\ \A j \in Jobs : Live(j)' <=> Live(j)
  BY <1>1, QuietKeeps
<1>3. Types'
  BY <1>1 DEF Inv, Types
<1>4. Table'
  BY <1>1, <1>2 DEF Inv, Table, Done
<1>5. Declines'
  BY <1>1 DEF Inv, Declines
<1> QED
  BY <1>2, <1>3, <1>4, <1>5 DEF Inv

LEMMA GetFinishedInv == ASSUME Inv, GetFinished PROVE Inv'
<1> DEFINE ready == {j \in active : Done(j)}
           declined == {j \in ready : future[j] = "declined"}
<1>1. /\ active' = active \ ready /\ reported' = reported \cup ready
      /\ declinedBlocks' = declinedBlocks \cup UNION {Range(JobBlocks[j]) : j \in declined}
      /\ UNCHANGED <<transfer, isShutdown, copies, gpu, freed, told, preload>>
  BY DEF GetFinished
<1>2. UNCHANGED <<future, done, stored, file, staged, data, gpu, freed, told, isShutdown>>
  BY <1>1 DEF transfer, copies
<1>3. FileStages' /\ Contents' /\ \A j \in Jobs : Live(j)' <=> Live(j)
  BY <1>2, QuietKeeps
<1>4. Types'
  BY <1>1, <1>2 DEF Inv, Types
<1>5. Table'
  <2>1. active' \cup reported' = active \cup reported
    BY <1>1
  <2>2. \A j \in reported' : Done(j)'
    BY <1>1, <1>2 DEF Inv, Table, Done
  <2> QED
    BY <1>2, <1>3, <2>1, <2>2 DEF Inv, Table
<1>6. Declines'
  <2> SUFFICES ASSUME NEW j \in reported' \ freed, ~IsStore(j), future[j] = "declined"
               PROVE  Range(JobBlocks[j]) \subseteq declinedBlocks' \cup told
    BY <1>2 DEF Declines
  <2>1. CASE j \in reported
    BY <1>1, <2>1 DEF Inv, Declines
  <2>2. CASE j \notin reported
    <3>1. j \in declined
      BY <1>1, <2>2
    <3> QED
      BY <1>1, <3>1
  <2> QED
    BY <2>1, <2>2
<1> QED
  BY <1>3, <1>4, <1>5, <1>6 DEF Inv

LEMMA TransferAsyncInv == ASSUME Inv, NEW j \in Jobs, TransferAsync(j) PROVE Inv'
<1>1. /\ ~isShutdown /\ j \notin active \cup reported /\ Range(JobBlocks[j]) \cap InUse = {}
      /\ Transfer!Submit(j) /\ active' = active \cup {j}
      /\ UNCHANGED <<declinedBlocks, declinedReqs, isShutdown, copies, reported, freed, told, preload>>
  BY DEF TransferAsync
<1>2. PICK r \in {"pending", "ok", "error", "declined"} :
        /\ r = "ok" => JobHashes[j] = <<>>
        /\ r = "declined" => JobKind[j] = "load"
        /\ future' = [future EXCEPT ![j] = r]
  BY <1>1 DEF Transfer!Submit
<1>3. /\ UNCHANGED <<done, stored, file, staged, data, reported, freed, told, isShutdown, declinedBlocks>>
      /\ future[j] = "none"
  BY <1>1 DEF Transfer!Submit, copies
<1>4. \A i \in Jobs : future'[i] = IF i = j THEN r ELSE future[i]
  BY <1>2 DEF Inv, Types
<1>5. j \notin freed /\ ~Live(j) /\ Live(j)' /\ \A i \in Jobs : i # j => (Live(i)' <=> Live(i))
  BY <1>1, <1>3, <1>4 DEF Inv, Types, Live
<1>6. ASSUME NEW i \in Jobs, Live(i) PROVE i # j /\ Range(JobBlocks[i]) \cap Range(JobBlocks[j]) = {}
  <2>1. i # j
    BY <1>5, <1>6
  <2>2. i \in (active \cup reported) \ freed
    BY <1>1, <1>6 DEF Inv, Table, Live
  <2>3. Range(JobBlocks[i]) \subseteq InUse
    BY <2>2 DEF InUse
  <2> QED
    BY <1>1, <2>1, <2>3
<1>7. DOMAIN gpu' = GpuBlocks /\ \A b \in GpuBlocks : b \notin Range(JobBlocks[j]) => gpu'[b] = gpu[b]
  <2>1. CASE IsStore(j)
    <3>1. gpu' = [b \in GpuBlocks |->
                    IF \E k \in DOMAIN JobBlocks[j] : JobBlocks[j][k] = b
                      THEN Meant(j, CHOOSE k \in DOMAIN JobBlocks[j] : JobBlocks[j][k] = b)
                      ELSE gpu[b]]
      BY <2>1 DEF TransferAsync
    <3> QED
      BY <3>1 DEF Range
  <2>2. CASE ~IsStore(j)
    BY <2>2 DEF TransferAsync, Inv, Types
  <2> QED
    BY <2>1, <2>2
<1>8. ASSUME NEW i \in Jobs, Live(i) PROVE Same(i)
  <2> SUFFICES ASSUME NEW b \in Range(JobBlocks[i]) PROVE gpu'[b] = gpu[b]
    BY DEF Same
  <2>1. b \in GpuBlocks
    BY JobFacts DEF Range
  <2>2. b \notin Range(JobBlocks[j])
    BY <1>6, <1>8
  <2> QED
    BY <1>7, <2>1, <2>2
<1>9. \A f \in Files : f[1] = j => file[f] = "new" /\ f \notin done /\ r # "ok"
  <2> SUFFICES ASSUME NEW f \in Files, f[1] = j PROVE file[f] = "new" /\ f \notin done /\ r # "ok"
    OBVIOUS
  <2>1. f[2] \in 1..Len(JobHashes[j]) /\ Len(<<>>) = 0
    BY FileFacts, EmptySeq
  <2> QED
    BY <1>2, <1>3, <2>1 DEF Inv, FileStages
<1>10. Types'
  BY <1>1, <1>2, <1>3, <1>7 DEF Inv, Types, Status
<1>11. Table'
  <2>1. ~isShutdown => \A i \in Jobs : future'[i] # "none" <=> i \in active' \cup reported
    BY <1>1, <1>4 DEF Inv, Table
  <2>2. \A i \in reported : Done(i)'
    BY <1>1, <1>4 DEF Inv, Table, Types, Done
  <2>3. \A i \in freed : future'[i] \in {"ok", "declined"}
    BY <1>4, <1>5 DEF Inv, Table, Types
  <2>4. ASSUME NEW i \in Jobs, NEW k \in Jobs, i # k, Live(i)', Live(k)'
        PROVE  Range(JobBlocks[i]) \cap Range(JobBlocks[k]) = {}
    <3>1. CASE i = j
      <4>1. Range(JobBlocks[k]) \cap Range(JobBlocks[j]) = {}
        BY <1>5, <1>6, <2>4, <3>1
      <4> QED
        BY <3>1, <4>1
    <3>2. CASE k = j
      BY <1>5, <1>6, <2>4, <3>2
    <3>3. CASE i # j /\ k # j
      BY <1>5, <2>4, <3>3 DEF Inv, Table
    <3> QED
      BY <3>1, <3>2, <3>3
  <2> QED
    BY <1>3, <2>1, <2>2, <2>3, <2>4 DEF Table
<1>12. FileStages'
  <2> SUFFICES ASSUME NEW f \in Files
               PROVE  /\ future'[f[1]] \in {"none", "declined"} => file[f] = "new"
                      /\ future'[f[1]] = "ok" => f \in done
                      /\ f \in done => file[f] = "over"
                      /\ file[f] = "held" => IsStore(f[1]) /\ staged[f] = Whole(Block(f))
    BY <1>3 DEF FileStages
  <2>1. future'[f[1]] = IF f[1] = j THEN r ELSE future[f[1]]
    BY <1>4, FileFacts
  <2> QED
    BY <1>9, <2>1 DEF Inv, FileStages
<1>13. Contents'
  <2>1. PublishedRight'
    BY <1>3 DEF Inv, Contents, PublishedRight
  <2>2. ASSUME NEW i \in Jobs, IsStore(i), Live(i)' PROVE Holds(i)'
    <3>1. CASE i = j
      <4> SUFFICES ASSUME NEW k \in 1..Len(JobBlocks[j]) PROVE gpu'[JobBlocks[j][k]] = Meant(j, k)
        BY <3>1, JobFacts DEF Holds
      <4>1. gpu' = [b \in GpuBlocks |->
                      IF \E x \in DOMAIN JobBlocks[j] : JobBlocks[j][x] = b
                        THEN Meant(j, CHOOSE x \in DOMAIN JobBlocks[j] : JobBlocks[j][x] = b)
                        ELSE gpu[b]]
        BY <2>2, <3>1 DEF TransferAsync
      <4>2. /\ JobBlocks[j][k] \in GpuBlocks /\ DOMAIN JobBlocks[j] = 1..Len(JobBlocks[j])
            /\ \A x \in 1..Len(JobBlocks[j]) : JobBlocks[j][x] = JobBlocks[j][k] => x = k
        BY JobFacts
      <4>3. (CHOOSE x \in DOMAIN JobBlocks[j] : JobBlocks[j][x] = JobBlocks[j][k]) = k
        BY <4>2
      <4> QED
        BY <4>1, <4>2, <4>3
    <3>2. CASE i # j
      <4>1. Live(i) /\ Holds(i)
        BY <1>5, <2>2, <3>2 DEF Inv, Contents
      <4> QED
        BY <1>8, <4>1, SameKeeps
    <3> QED
      BY <3>1, <3>2
  <2>3. ASSUME NEW f \in done, ~IsStore(f[1]), Live(f[1])' PROVE Filled(f)'
    <3>1. f \in Files /\ f[1] # j
      BY <1>9, <2>3 DEF Inv, Types
    <3>2. f[1] \in Jobs /\ f \in Transfer!FilesOf(f[1])
      BY <3>1, FileFacts
    <3>3. Live(f[1]) /\ Filled(f)
      BY <1>5, <2>3, <3>1, <3>2 DEF Inv, Contents
    <3> QED
      BY <1>8, <3>2, <3>3, SameKeeps
  <2> QED
    BY <1>3, <2>1, <2>2, <2>3 DEF Contents
<1>14. Declines'
  <2>1. \A i \in reported : future'[i] = future[i]
    BY <1>1, <1>4 DEF Inv, Types
  <2> QED
    BY <1>3, <2>1 DEF Inv, Declines
<1> QED
  BY <1>10, <1>11, <1>12, <1>13, <1>14 DEF Inv

\* Nothing of a job moves any more when its blocks are used again, unless the
\* job has failed.
LEMMA ReuseInv ==
  ASSUME Inv, FreeOnFailure = FALSE, NEW j \in Jobs, Reuse(j)
  PROVE  Inv'
<1>1. /\ j \in reported \ freed /\ (future[j] = "error" => FreeOnFailure)
      /\ freed' = freed \cup {j}
      /\ gpu' = [b \in GpuBlocks |-> IF b \in Range(JobBlocks[j]) THEN Junk ELSE gpu[b]]
      /\ told' = told \ Range(JobBlocks[j])
      /\ UNCHANGED <<transfer, table, copies, reported, preload>>
  BY DEF Reuse
<1>2. UNCHANGED <<future, done, stored, file, staged, data, reported, active, isShutdown, declinedBlocks>>
  BY <1>1 DEF transfer, table, copies
<1>3. future[j] \in {"ok", "declined"} /\ Live(j)
  BY <1>1 DEF Inv, Types, Status, Table, Done, Live
<1>4. ~Live(j)' /\ \A i \in Jobs : i # j => (Live(i)' <=> Live(i))
  BY <1>1, <1>2 DEF Live
<1>5. ASSUME NEW i \in Jobs, Live(i)'
      PROVE  i # j /\ Live(i) /\ Range(JobBlocks[i]) \cap Range(JobBlocks[j]) = {} /\ Same(i)
  <2>1. i # j /\ Live(i)
    BY <1>4, <1>5
  <2>2. Range(JobBlocks[i]) \cap Range(JobBlocks[j]) = {}
    BY <1>3, <2>1 DEF Inv, Table
  <2>3. \A b \in Range(JobBlocks[i]) : b \in GpuBlocks
    BY JobFacts DEF Range
  <2>4. Same(i)
    BY <1>1, <2>2, <2>3 DEF Same
  <2> QED
    BY <2>1, <2>2, <2>4
<1>6. Types'
  BY <1>1, <1>2 DEF Inv, Types
<1>7. Table'
  <2>1. \A i, k \in Jobs : i # k /\ Live(i)' /\ Live(k)'
          => Range(JobBlocks[i]) \cap Range(JobBlocks[k]) = {}
    BY <1>5 DEF Inv, Table
  <2> QED
    BY <1>1, <1>2, <1>3, <2>1 DEF Inv, Table, Done
<1>8. FileStages'
  BY <1>2 DEF Inv, FileStages
<1>9. Contents'
  <2>1. PublishedRight'
    BY <1>2 DEF Inv, Contents, PublishedRight
  <2>2. \A i \in Jobs : IsStore(i) /\ Live(i)' => Holds(i)'
    BY <1>5, SameKeeps DEF Inv, Contents
  <2>3. ASSUME NEW f \in done, ~IsStore(f[1]), Live(f[1])' PROVE Filled(f)'
    <3>1. f[1] \in Jobs /\ f \in Transfer!FilesOf(f[1])
      BY <2>3, FileFacts DEF Inv, Types
    <3>2. Filled(f)
      BY <1>5, <2>3, <3>1 DEF Inv, Contents
    <3> QED
      BY <1>5, <2>3, <3>1, <3>2, SameKeeps
  <2> QED
    BY <1>2, <2>1, <2>2, <2>3 DEF Contents
<1>10. Declines'
  <2> SUFFICES ASSUME NEW i \in reported \ freed', ~IsStore(i), future[i] = "declined"
               PROVE  Range(JobBlocks[i]) \subseteq declinedBlocks \cup told'
    BY <1>2 DEF Declines
  <2>1. i \in Jobs /\ Live(i)'
    BY <1>2 DEF Inv, Types, Live
  <2>2. Range(JobBlocks[i]) \cap Range(JobBlocks[j]) = {}
    BY <1>5, <2>1
  <2>3. Range(JobBlocks[i]) \subseteq declinedBlocks \cup told
    BY <1>1 DEF Inv, Declines
  <2> QED
    BY <1>1, <2>2, <2>3
<1> QED
  BY <1>6, <1>7, <1>8, <1>9, <1>10 DEF Inv

LEMMA NextInv == ASSUME Inv, FreeOnFailure = FALSE, [Next]_vars PROVE Inv'
<1>1. ASSUME NEW j \in Jobs, TransferAsync(j) PROVE Inv'
  BY <1>1, TransferAsyncInv
<1>2. ASSUME NEW j \in Jobs, Reuse(j) PROVE Inv'
  BY <1>2, ReuseInv
<1>3. CASE GetFinished
  BY <1>3, GetFinishedInv
<1>4. CASE GetDeclinedBlockIds
  <2>1. declinedBlocks' = {} /\ told' = told \cup declinedBlocks
        /\ UNCHANGED <<transfer, active, isShutdown, copies, gpu, reported, freed>>
    BY <1>4 DEF GetDeclinedBlockIds
  <2> QED
    BY <2>1, QuietInv
<1>5. CASE GetDeclinedReqIds
  <2>1. UNCHANGED <<transfer, active, declinedBlocks, isShutdown, copies, gpu, reported, freed, told>>
    BY <1>5 DEF GetDeclinedReqIds, worker
  <2> QED
    BY <2>1, QuietInv
<1>6. CASE Shutdown
  <2>1. /\ isShutdown' = TRUE /\ active' = {}
        /\ declinedBlocks \cup told \subseteq declinedBlocks' \cup told'
        /\ UNCHANGED <<transfer, copies, gpu, reported, freed>>
    BY <1>6 DEF Shutdown, worker
  <2> QED
    BY <2>1, QuietInv
<1>7. ASSUME NEW f \in Files, FileStep(f) PROVE Inv'
  BY <1>7, ScheduleInv, GatherInv, PublishInv, ScatterInv, FileFailsInv DEF FileStep
<1>8. ASSUME NEW p \in Preloads, PreloadAsync(p) PROVE Inv'
  <2>1. UNCHANGED <<transfer, active, declinedBlocks, isShutdown, copies, gpu, reported, freed, told>>
    BY <1>8 DEF PreloadAsync, worker, table
  <2> QED
    BY <2>1, QuietInv
<1>9. CASE UNCHANGED vars
  <2>1. UNCHANGED <<transfer, active, declinedBlocks, isShutdown, copies, gpu, reported, freed, told>>
    BY <1>9 DEF vars, worker, table
  <2> QED
    BY <2>1, QuietInv
<1> QED
  BY <1>1, <1>2, <1>3, <1>4, <1>5, <1>6, <1>7, <1>8, <1>9 DEF Next

LEMMA InvHolds == ASSUME FreeOnFailure = FALSE PROVE Spec => []Inv
<1>1. Inv /\ [Next]_vars => Inv'
  BY NextInv
<1> QED
  BY <1>1, InitInv, PTL DEF Spec

-----------------------------------------------------------------------------
(* The data is right.                                                       *)

\* As long as the worker keeps the blocks of a failed job for itself, every
\* block ever published holds the parts of its hash in their order, whatever
\* becomes of the jobs (run `early' shows what happens otherwise).
THEOREM PublishedRightHolds == ASSUME FreeOnFailure = FALSE PROVE Spec => []PublishedRight
<1>1. Inv => PublishedRight
  BY DEF Inv, Contents
<1> QED
  BY <1>1, InvHolds, PTL

\* The blocks of a load that is reported as done hold what they are meant to
\* hold, wherever in a storage block it began, or are listed to be recomputed.
THEOREM LoadedRightHolds == ASSUME FreeOnFailure = FALSE PROVE Spec => []LoadedRight
<1>1. Inv => LoadedRight
  <2> SUFFICES ASSUME Inv, NEW j \in reported \ freed, ~IsStore(j)
               PROVE  /\ future[j] = "ok" => Holds(j)
                      /\ future[j] = "declined" => Range(JobBlocks[j]) \subseteq declinedBlocks \cup told
    BY DEF LoadedRight
  <2>1. j \in Jobs
    BY DEF Inv, Types
  <2>2. ASSUME future[j] = "ok" PROVE Holds(j)
    <3> SUFFICES ASSUME NEW f \in Transfer!FilesOf(j) PROVE Filled(f)
      BY <2>1, AllFilled
    <3>1. f \in Files /\ f[1] = j
      BY <2>1, FilesFacts
    <3> QED
      BY <2>2, <3>1 DEF Inv, FileStages, Contents, Live
  <2> QED
    BY <2>2 DEF Inv, Declines
<1> QED
  BY <1>1, InvHolds, PTL

-----------------------------------------------------------------------------
(* The preload ids.                                                         *)

Later(ms, i, p) == \E k \in (i + 1)..Len(ms) : ms[k] = p

\* The ids that are kept stand in the order of their last mentions ...
Newest(ids, ms) ==
  \A p \in Range(ids) : \E i \in 1..Len(ms) :
    ms[i] = p /\ \A k \in (i + 1)..Len(ms) : Before(ids, p, ms[k])
InTurn(ids, ms) ==
  \A p, r : Before(ids, p, r) => \A i \in 1..Len(ms) : ms[i] = p => Later(ms, i, r)

\* ... and whoever is forgotten has as many of them behind each mention.
Forgotten(ids, ms) ==
  \A i \in 1..Len(ms) :
    ms[i] \notin Range(ids) =>
      Len(ids) = MaxPreloadIds /\ \A p \in Range(ids) : Later(ms, i, p)

Kept(ids, ms) == Newest(ids, ms) /\ InTurn(ids, ms) /\ Forgotten(ids, ms)

Dedup ==
  /\ mentions \in Seq(Preloads)
  /\ IsList(preloadIds, Preloads) /\ Len(preloadIds) <= MaxPreloadIds
  /\ ~isShutdown => Kept(preloadIds, mentions)

\* One more mention.
LEMMA LaterGrows ==
  ASSUME NEW ms \in Seq(Preloads), NEW p \in Preloads
  PROVE  LET mm == Append(ms, p)
         IN  /\ mm \in Seq(Preloads) /\ Len(ms) \in Nat /\ Len(mm) = Len(ms) + 1
             /\ \A i \in 1..Len(ms) : mm[i] = ms[i]
             /\ mm[Len(ms) + 1] = p
             /\ \A i \in 1..Len(ms) : Later(mm, i, p)
             /\ \A r : \A i \in 1..Len(ms) : Later(ms, i, r) => Later(mm, i, r)
<1> DEFINE mm == Append(ms, p)
           n == Len(ms)
<1>1. /\ mm \in Seq(Preloads) /\ n \in Nat /\ Len(mm) = n + 1
      /\ \A i \in 1..n : mm[i] = ms[i]
      /\ mm[n + 1] = p
  BY AppendProperties, LenProperties
<1> HIDE DEF mm
<1>2. \A i \in 1..n : Later(mm, i, p)
  BY <1>1 DEF Later
<1>3. ASSUME NEW i \in 1..n, NEW r, Later(ms, i, r) PROVE Later(mm, i, r)
  <2>1. PICK k \in (i + 1)..n : ms[k] = r
    BY <1>3 DEF Later
  <2>2. k \in (i + 1)..Len(mm) /\ k \in 1..n
    BY <1>1, <2>1
  <2> QED
    BY <1>1, <2>1, <2>2 DEF Later
<1> QED
  BY <1>1, <1>2, <1>3 DEF mm

\* What move_to_end does to an order that is right: mid is what it leaves.
LEMMA MentionKeeps ==
  ASSUME NEW ids, NEW ms \in Seq(Preloads), NEW p \in Preloads,
         IsList(ids, Preloads), Kept(ids, ms)
  PROVE  LET mid == ToEnd(ids, p)
             mm == Append(ms, p)
         IN  /\ Newest(mid, mm) /\ InTurn(mid, mm)
             /\ \A i \in 1..Len(mm) :
                  mm[i] \notin Range(mid) =>
                    Len(ids) = MaxPreloadIds /\ \A r \in Range(mid) : Later(mm, i, r)
<1> DEFINE mid == ToEnd(ids, p)
           mm == Append(ms, p)
           n == Len(ms)
<1>1. /\ mm \in Seq(Preloads) /\ n \in Nat /\ Len(mm) = n + 1
      /\ \A i \in 1..n : mm[i] = ms[i]
      /\ mm[n + 1] = p
      /\ \A i \in 1..n : Later(mm, i, p)
      /\ \A r : \A i \in 1..n : Later(ms, i, r) => Later(mm, i, r)
  BY LaterGrows
<1>2. /\ Range(mid) = Range(ids) \cup {p}
      /\ \A x, y : Before(mid, x, y) <=> \/ Before(ids, x, y) /\ x # p /\ y # p
                                         \/ x \in Range(ids) /\ x # p /\ y = p
  BY ToEndFacts, ToEndOrder
<1> HIDE DEF mid, mm, n
<1>3. \A i \in 1..(n + 1) : i \in 1..n \/ i = n + 1
  BY <1>1
<1>4. ASSUME NEW q \in Range(mid)
      PROVE  \E i \in 1..Len(mm) : mm[i] = q /\ \A k \in (i + 1)..Len(mm) : Before(mid, q, mm[k])
  <2>1. CASE q = p
    <3>1. n + 1 \in 1..Len(mm) /\ mm[n + 1] = q /\ \A k \in (n + 2)..Len(mm) : FALSE
      BY <1>1, <2>1
    <3>2. (n + 1) + 1 = n + 2
      BY <1>1
    <3> QED
      BY <3>1, <3>2
  <2>2. CASE q # p
    <3>1. q \in Range(ids)
      BY <1>2, <2>2
    <3>2. PICK i \in 1..n : ms[i] = q /\ \A k \in (i + 1)..n : Before(ids, q, ms[k])
      BY <3>1 DEF Kept, Newest, n
    <3>3. ASSUME NEW k \in (i + 1)..(n + 1) PROVE Before(mid, q, mm[k])
      <4>1. CASE k = n + 1
        BY <1>1, <1>2, <2>2, <3>1, <4>1
      <4>2. CASE k # n + 1
        <5>1. k \in (i + 1)..n /\ k \in 1..n
          BY <1>1, <4>2
        <5>2. Before(ids, q, ms[k]) /\ mm[k] = ms[k]
          BY <1>1, <3>2, <5>1
        <5> QED
          BY <1>2, <2>2, <3>1, <5>2
      <4> QED
        BY <4>1, <4>2
    <3>4. i \in 1..Len(mm) /\ mm[i] = q
      BY <1>1, <3>2
    <3> QED
      BY <1>1, <3>3, <3>4
  <2> QED
    BY <2>1, <2>2
<1>5. ASSUME NEW q, NEW r, Before(mid, q, r), NEW i \in 1..Len(mm), mm[i] = q PROVE Later(mm, i, r)
  <2>1. q # p /\ i \in 1..n /\ ms[i] = q
    BY <1>1, <1>2, <1>3, <1>5
  <2>2. CASE r = p
    BY <1>1, <2>1, <2>2
  <2>3. CASE r # p
    <3>1. Before(ids, q, r)
      BY <1>2, <1>5, <2>3
    <3>2. Later(ms, i, r)
      BY <2>1, <3>1 DEF Kept, InTurn, n
    <3> QED
      BY <1>1, <2>1, <3>2
  <2> QED
    BY <2>2, <2>3
<1>6. ASSUME NEW i \in 1..Len(mm), mm[i] \notin Range(mid)
      PROVE  Len(ids) = MaxPreloadIds /\ \A r \in Range(mid) : Later(mm, i, r)
  <2>1. mm[i] # p /\ mm[i] \notin Range(ids)
    BY <1>2, <1>6
  <2>2. i \in 1..n /\ ms[i] \notin Range(ids)
    BY <1>1, <1>3, <2>1
  <2>3. Len(ids) = MaxPreloadIds /\ \A r \in Range(ids) : Later(ms, i, r)
    BY <2>2 DEF Kept, Forgotten, n
  <2> QED
    BY <1>1, <1>2, <2>2, <2>3
<1>7. Newest(mid, mm)
  BY <1>4 DEF Newest
<1>8. InTurn(mid, mm)
  BY <1>5 DEF InTurn
<1> QED
  BY <1>6, <1>7, <1>8 DEF mid, mm

LEMMA RememberKeeps ==
  ASSUME NEW p \in Preloads, mentions \in Seq(Preloads), IsList(preloadIds, Preloads),
         Len(preloadIds) <= MaxPreloadIds
  PROVE  /\ IsList(Remember(p), Preloads) /\ Len(Remember(p)) <= MaxPreloadIds
         /\ Kept(preloadIds, mentions) => Kept(Remember(p), Append(mentions, p))
<1> DEFINE mid == ToEnd(preloadIds, p)
           mm == Append(mentions, p)
<1>1. /\ IsList(mid, Preloads) /\ Range(mid) = Range(preloadIds) \cup {p}
      /\ p \notin Range(preloadIds) => Len(mid) = Len(preloadIds) + 1
      /\ p \in Range(preloadIds) => Len(mid) = Len(preloadIds)
  <2>1. /\ IsList(mid, Preloads) /\ Range(mid) = Range(preloadIds) \cup {p}
        /\ p \notin Range(preloadIds) => mid = Append(preloadIds, p)
        /\ p \in Range(preloadIds) => Len(mid) = Len(preloadIds)
    BY ToEndFacts
  <2>2. p \notin Range(preloadIds) => Len(Append(preloadIds, p)) = Len(preloadIds) + 1
    BY AppendFacts
  <2> QED
    BY <2>1, <2>2
<1>2. MaxPreloadIds \in Nat /\ MaxPreloadIds # 0 /\ Len(preloadIds) \in Nat /\ Len(mid) \in Nat
  BY <1>1, HandlerAssumption, ListFacts
<1>3. Kept(preloadIds, mentions) =>
        /\ Newest(mid, mm) /\ InTurn(mid, mm)
        /\ \A i \in 1..Len(mm) :
             mm[i] \notin Range(mid) =>
               Len(preloadIds) = MaxPreloadIds /\ \A r \in Range(mid) : Later(mm, i, r)
  BY MentionKeeps
<1>4. Remember(p) = IF Len(mid) > MaxPreloadIds THEN Tail(mid) ELSE mid
  BY DEF Remember
<1> HIDE DEF mid, mm
<1>5. CASE ~(Len(mid) > MaxPreloadIds)
  <2>1. Remember(p) = mid /\ Len(mid) <= MaxPreloadIds
    BY <1>2, <1>4, <1>5
  <2>2. ASSUME Kept(preloadIds, mentions) PROVE Forgotten(mid, mm)
    <3> SUFFICES ASSUME NEW i \in 1..Len(mm), mm[i] \notin Range(mid)
                 PROVE  Len(mid) = MaxPreloadIds /\ \A r \in Range(mid) : Later(mm, i, r)
      BY DEF Forgotten
    <3>1. Len(preloadIds) = MaxPreloadIds /\ \A r \in Range(mid) : Later(mm, i, r)
      BY <1>3, <2>2
    <3> QED
      BY <1>1, <1>2, <2>1, <3>1
  <2> QED
    BY <1>1, <1>3, <2>1, <2>2 DEF Kept, mm
<1>6. CASE Len(mid) > MaxPreloadIds
  <2> DEFINE t == Tail(mid)
             old == mid[1]
  <2>1. mid # <<>>
    BY <1>2, <1>6, EmptySeq
  <2>2. /\ IsList(t, Preloads) /\ Len(t) = Len(mid) - 1
        /\ old \in Range(mid) /\ Range(t) = Range(mid) \ {old}
        /\ \A y \in Range(mid) : y # old => Before(mid, old, y)
        /\ \A x, y : Before(t, x, y) <=> Before(mid, x, y) /\ x # old
    BY <1>1, <2>1, TailFacts
  <2>3. Remember(p) = t
    BY <1>4, <1>6
  <2> HIDE DEF t, old
  <2>4. Len(t) = MaxPreloadIds
    BY <1>1, <1>2, <1>6, <2>2
  <2>5. ASSUME Kept(preloadIds, mentions) PROVE Newest(t, mm) /\ InTurn(t, mm) /\ Forgotten(t, mm)
    <3>1. Newest(mid, mm) /\ InTurn(mid, mm)
      BY <1>3, <2>5
    <3>2. InTurn(t, mm)
      BY <2>2, <3>1 DEF InTurn
    <3>3. ASSUME NEW q \in Range(t)
          PROVE  \E i \in 1..Len(mm) : mm[i] = q /\ \A k \in (i + 1)..Len(mm) : Before(t, q, mm[k])
      <4>1. q \in Range(mid) /\ q # old
        BY <2>2
      <4>2. PICK i \in 1..Len(mm) : mm[i] = q /\ \A k \in (i + 1)..Len(mm) : Before(mid, q, mm[k])
        BY <3>1, <4>1 DEF Newest
      <4> QED
        BY <2>2, <4>1, <4>2
    <3>4. Newest(t, mm)
      BY <3>3 DEF Newest
    <3>5. ASSUME NEW i \in 1..Len(mm), mm[i] \notin Range(t), NEW r \in Range(t)
          PROVE  Later(mm, i, r)
      <4>1. r \in Range(mid) /\ r # old
        BY <2>2
      <4>2. CASE mm[i] \notin Range(mid)
        BY <1>3, <2>5, <4>1, <4>2
      <4>3. CASE mm[i] \in Range(mid)
        <5>1. mm[i] = old
          BY <2>2, <3>5, <4>3
        <5>2. Before(mid, mm[i], r)
          BY <2>2, <4>1, <5>1
        <5> QED
          BY <3>1, <5>2 DEF InTurn
      <4> QED
        BY <4>2, <4>3
    <3>6. Forgotten(t, mm)
      BY <2>4, <3>5 DEF Forgotten
    <3> QED
      BY <3>2, <3>4, <3>6
  <2> QED
    BY <1>2, <2>2, <2>3, <2>4, <2>5 DEF Kept, mm
<1> QED
  BY <1>5, <1>6

LEMMA InitDedup == Init => Dedup
<1> SUFFICES ASSUME Init PROVE Dedup
  OBVIOUS
<1>1. preloadIds = <<>> /\ mentions = <<>>
  BY DEF Init
<1>2. IsList(<<>>, Preloads) /\ Range(<<>>) = {} /\ Len(<<>>) = 0 /\ <<>> \in Seq(Preloads)
  BY EmptySeq DEF IsList, IsInjective, Range
<1>3. Kept(<<>>, <<>>)
  <2>1. \A x, y : ~Before(<<>>, x, y)
    BY <1>2 DEF Before, Range
  <2> QED
    BY <1>2, <2>1 DEF Kept, Newest, InTurn, Forgotten
<1> QED
  BY <1>1, <1>2, <1>3, HandlerAssumption DEF Dedup

LEMMA NextDedup == ASSUME Dedup, [Next]_vars PROVE Dedup'
<1>1. ASSUME NEW p \in Preloads, PreloadAsync(p) PROVE Dedup'
  <2>1. /\ ~isShutdown /\ isShutdown' = isShutdown /\ mentions' = Append(mentions, p)
        /\ preloadIds' = Remember(p)
    BY <1>1 DEF PreloadAsync, table
  <2>2. Append(mentions, p) \in Seq(Preloads)
    BY AppendProperties DEF Dedup
  <2> QED
    BY <2>1, <2>2, RememberKeeps DEF Dedup
<1>2. CASE Shutdown
  <2>1. isShutdown' = TRUE /\ preloadIds' = <<>> /\ mentions' = mentions
    BY <1>2 DEF Shutdown
  <2>2. IsList(<<>>, Preloads) /\ Len(<<>>) = 0
    BY EmptySeq DEF IsList, IsInjective
  <2> QED
    BY <2>1, <2>2, HandlerAssumption DEF Dedup
<1>3. ASSUME UNCHANGED <<preload, isShutdown>> PROVE Dedup'
  BY <1>3 DEF Dedup, preload
<1>4. ASSUME NEW j \in Jobs, TransferAsync(j) \/ Reuse(j) PROVE Dedup'
  BY <1>3, <1>4 DEF TransferAsync, Reuse, table
<1>5. ASSUME GetFinished \/ GetDeclinedBlockIds \/ GetDeclinedReqIds PROVE Dedup'
  BY <1>3, <1>5 DEF GetFinished, GetDeclinedBlockIds, GetDeclinedReqIds
<1>6. ASSUME NEW f \in Files, FileStep(f) PROVE Dedup'
  BY <1>3, <1>6 DEF FileStep, Schedule, Gather, Publish, Scatter, FileFails, table
<1>7. CASE UNCHANGED vars
  BY <1>3, <1>7 DEF vars, table
<1> QED
  BY <1>1, <1>2, <1>4, <1>5, <1>6, <1>7 DEF Next

\* The mentions after one of them, as a set, and how many they are.
LEMMA AfterFinite ==
  ASSUME NEW ms \in Seq(Preloads), NEW i \in 1..Len(ms), NEW p
  PROVE  IsFiniteSet({ms[k] : k \in (i + 1)..Len(ms)} \ {p})
<1> DEFINE a == i + 1
           b == Len(ms)
           S == {ms[k] : k \in a..b}
           g == [k \in a..b |-> ms[k]]
<1>1. a \in Int /\ b \in Int
  BY LenProperties
<1> HIDE DEF a, b
<1>2. IsFiniteSet(a..b)
  BY <1>1, FS_Interval
<1>3. g \in Surjection(a..b, S)
  BY DEF Surjection
<1> HIDE DEF g, S
<1>4. IsFiniteSet(S)
  BY <1>2, <1>3, FS_Surjection, Zenon
<1>5. IsFiniteSet(S \ {p})
  BY <1>4, FS_Subset
<1> QED
  BY <1>5 DEF S, a, b

\* An id is known exactly as long as fewer than MaxPreloadIds others have been
\* mentioned since, however often each of them was.
KnownIsRecent ==
  ~isShutdown =>
    \A p \in Preloads :
      p \in Range(preloadIds)
        <=> \E i \in DOMAIN mentions :
              /\ mentions[i] = p
              /\ Cardinality({mentions[k] : k \in (i + 1)..Len(mentions)} \ {p})
                   < MaxPreloadIds

LEMMA DedupRemembers == Dedup => KnownIsRecent
<1> SUFFICES ASSUME Dedup, ~isShutdown, NEW p \in Preloads
             PROVE  p \in Range(preloadIds) <=>
                      \E i \in DOMAIN mentions :
                        /\ mentions[i] = p
                        /\ Cardinality({mentions[k] : k \in (i + 1)..Len(mentions)} \ {p})
                             < MaxPreloadIds
  BY DEF KnownIsRecent
<1> DEFINE After(i) == {mentions[k] : k \in (i + 1)..Len(mentions)} \ {p}
           R == Range(preloadIds)
<1>1. /\ mentions \in Seq(Preloads) /\ IsList(preloadIds, Preloads)
      /\ Len(preloadIds) <= MaxPreloadIds /\ Kept(preloadIds, mentions)
      /\ Len(mentions) \in Nat /\ DOMAIN mentions = 1..Len(mentions)
      /\ MaxPreloadIds \in Nat /\ Len(preloadIds) \in Nat
  BY HandlerAssumption, LenProperties, ListFacts DEF Dedup
<1>2. IsFiniteSet(R) /\ Cardinality(R) = Len(preloadIds)
  BY <1>1, LenOfList
<1>3. \A i \in 1..Len(mentions) : IsFiniteSet(After(i)) /\ Cardinality(After(i)) \in Nat
  BY <1>1, AfterFinite, FS_CardinalityType
<1>4. ASSUME p \in R
      PROVE  \E i \in 1..Len(mentions) : mentions[i] = p /\ Cardinality(After(i)) < MaxPreloadIds
  <2>1. PICK i \in 1..Len(mentions) :
          mentions[i] = p /\ \A k \in (i + 1)..Len(mentions) : Before(preloadIds, p, mentions[k])
    BY <1>1, <1>4 DEF Kept, Newest
  <2>2. \A y : Before(preloadIds, p, y) => y \in R
    BY DEF Before, Range
  <2>3. After(i) \subseteq R \ {p}
    BY <2>1, <2>2
  <2>4. IsFiniteSet(R \ {p}) /\ Cardinality(R \ {p}) = Cardinality(R) - 1
    BY <1>2, <1>4, FS_RemoveElement
  <2>5. Cardinality(After(i)) <= Cardinality(R \ {p})
    <3> HIDE DEF After
    <3> QED
      BY <2>3, <2>4, FS_Subset
  <2>6. Cardinality(After(i)) < MaxPreloadIds
    <3> HIDE DEF After, R
    <3> QED
      BY <1>1, <1>2, <1>3, <2>4, <2>5
  <2> QED
    BY <2>1, <2>6
<1>5. ASSUME p \notin R, NEW i \in 1..Len(mentions), mentions[i] = p
      PROVE  ~(Cardinality(After(i)) < MaxPreloadIds)
  <2>1. Len(preloadIds) = MaxPreloadIds /\ \A r \in R : Later(mentions, i, r)
    BY <1>1, <1>5 DEF Kept, Forgotten
  <2>2. R \subseteq After(i)
    BY <1>5, <2>1 DEF Later
  <2>3. Cardinality(R) <= Cardinality(After(i))
    <3> HIDE DEF After
    <3> QED
      BY <1>3, <2>2, FS_Subset
  <2> HIDE DEF After, R
  <2> QED
    BY <1>1, <1>2, <1>3, <2>1, <2>3
<1> QED
  BY <1>1, <1>4, <1>5

\* A call whose id is known goes no further, all others do.
PassedOn == passed \subseteq DOMAIN mentions /\ PassedOnWhenForgotten

\* The other ids that calls k + 1 to i - 1 of a history name.
Others(ms, k, i) == {ms[m] : m \in (k + 1)..(i - 1)} \ {ms[i]}

\* What is said of the earlier calls is not changed by one more.
LEMMA OthersKept ==
  ASSUME NEW ms \in Seq(Preloads), NEW p \in Preloads
  PROVE  LET n == Len(ms)
             mm == Append(ms, p)
         IN  /\ n \in Nat /\ DOMAIN ms = 1..n /\ DOMAIN mm = 1..(n + 1)
             /\ \A i \in 1..n : mm[i] = ms[i]
             /\ mm[n + 1] = p
             /\ \A i \in 1..n, k \in 1..n : Others(mm, k, i) = Others(ms, k, i)
             /\ \A k \in 1..n : Others(mm, k, n + 1) = {ms[m] : m \in (k + 1)..n} \ {p}
<1> DEFINE n == Len(ms)
           mm == Append(ms, p)
<1>1. /\ n \in Nat /\ mm \in Seq(Preloads) /\ Len(mm) = n + 1
      /\ \A i \in 1..n : mm[i] = ms[i]
      /\ mm[n + 1] = p
  BY AppendProperties, LenProperties
<1>2. DOMAIN ms = 1..n /\ DOMAIN mm = 1..(n + 1)
  BY <1>1, LenProperties
<1> HIDE DEF mm, n
<1>3. ASSUME NEW i \in 1..n, NEW k \in 1..n PROVE Others(mm, k, i) = Others(ms, k, i)
  <2>1. \A m \in (k + 1)..(i - 1) : mm[m] = ms[m]
    BY <1>1
  <2>2. mm[i] = ms[i]
    BY <1>1
  <2> QED
    BY <2>1, <2>2 DEF Others
<1>4. ASSUME NEW k \in 1..n
      PROVE  Others(mm, k, n + 1) = {ms[m] : m \in (k + 1)..n} \ {p}
  <2>1. \A m \in (k + 1)..n : mm[m] = ms[m]
    BY <1>1
  <2>2. (n + 1) - 1 = n /\ mm[n + 1] = p
    BY <1>1
  <2> QED
    BY <2>1, <2>2 DEF Others
<1> QED
  BY <1>1, <1>2, <1>3, <1>4 DEF n, mm

LEMMA NextPassedOn == ASSUME Dedup, PassedOn, [Next]_vars PROVE PassedOn'
<1>1. ASSUME NEW p \in Preloads, PreloadAsync(p) PROVE PassedOn'
  <2> DEFINE n == Len(mentions)
             mm == Append(mentions, p)
             After(k) == {mentions[m] : m \in (k + 1)..n} \ {p}
  <2>1. /\ ~isShutdown /\ mentions' = mm /\ mentions \in Seq(Preloads)
        /\ passed' = IF p \in Range(preloadIds) THEN passed ELSE passed \cup {n + 1}
    BY <1>1 DEF PreloadAsync, Dedup
  <2>2. /\ DOMAIN mentions = 1..n /\ n \in Nat /\ DOMAIN mm = 1..(n + 1)
        /\ \A i \in 1..n : mm[i] = mentions[i]
        /\ mm[n + 1] = p
        /\ \A i \in 1..n, k \in 1..n : Others(mm, k, i) = Others(mentions, k, i)
        /\ \A k \in 1..n : Others(mm, k, n + 1) = After(k)
    BY <2>1, OthersKept
  <2>3. p \in Range(preloadIds)
          <=> \E k \in 1..n : mentions[k] = p /\ Cardinality(After(k)) < MaxPreloadIds
    BY <2>1, <2>2, DedupRemembers DEF KnownIsRecent
  <2>4. \A k \in 1..n : Cardinality(After(k)) \in Nat
    BY <2>1, AfterFinite, FS_CardinalityType
  <2>5. MaxPreloadIds \in Nat
    BY HandlerAssumption
  <2>6. /\ passed \subseteq 1..n
        /\ \A i \in 1..n :
             i \in passed <=> \A k \in 1..(i - 1) :
               mentions[k] = mentions[i] => Cardinality(Others(mentions, k, i)) >= MaxPreloadIds
    BY <2>2 DEF PassedOn, PassedOnWhenForgotten, Between, Others
  <2> DEFINE Right(i) == i \in passed' <=>
                \A k \in 1..(i - 1) :
                  mm[k] = mm[i] => Cardinality(Others(mm, k, i)) >= MaxPreloadIds
  <2> HIDE DEF n, mm, After
  <2>7. ASSUME NEW i \in 1..n PROVE Right(i)
    <3>1. i \in passed' <=> i \in passed
      BY <2>1, <2>2
    <3>2. \A k \in 1..(i - 1) : k \in 1..n
      BY <2>2
    <3> QED
      BY <2>2, <2>6, <3>1, <3>2
  <2>8. Right(n + 1)
    <3>1. n + 1 \in passed' <=> p \notin Range(preloadIds)
      BY <2>1, <2>2, <2>6
    <3>2. 1..((n + 1) - 1) = 1..n
      BY <2>2
    <3>3. \A k \in 1..n :
            ~(Cardinality(After(k)) < MaxPreloadIds) <=> Cardinality(After(k)) >= MaxPreloadIds
      BY <2>4, <2>5
    <3> QED
      BY <2>2, <2>3, <3>1, <3>2, <3>3
  <2>9. ASSUME NEW i \in 1..(n + 1)
        PROVE  i \in passed' <=>
                 \A k \in 1..(i - 1) :
                   mm[k] = mm[i] => Cardinality(Others(mm, k, i)) >= MaxPreloadIds
    <3>1. i \in 1..n \/ i = n + 1
      BY <2>2
    <3> HIDE DEF Right
    <3>2. Right(i)
      BY <2>7, <2>8, <3>1
    <3> QED
      BY <3>2 DEF Right
  <2>10. \A i \in DOMAIN mentions' :
          i \in passed' <=>
            \A k \in 1..(i - 1) :
              mentions'[k] = mentions'[i] => Cardinality(Others(mentions', k, i)) >= MaxPreloadIds
    BY <2>1, <2>2, <2>9
  <2>11. \A i, k : Between(k, i)' = Others(mentions', k, i)
    BY DEF Between, Others
  <2>12. PassedOnWhenForgotten'
    BY <2>10, <2>11 DEF PassedOnWhenForgotten
  <2>13. (passed \subseteq DOMAIN mentions)'
    BY <2>1, <2>2, <2>6
  <2> QED
    BY <2>12, <2>13 DEF PassedOn
<1>3. ASSUME UNCHANGED <<mentions, passed>> PROVE PassedOn'
  <2>1. \A i, k : Between(k, i)' = Between(k, i)
    BY <1>3 DEF Between
  <2>2. PassedOnWhenForgotten'
    BY <1>3, <2>1 DEF PassedOn, PassedOnWhenForgotten
  <2> QED
    BY <1>3, <2>2 DEF PassedOn
<1>2. CASE Shutdown
  BY <1>2, <1>3 DEF Shutdown
<1>4. ASSUME NEW j \in Jobs, TransferAsync(j) \/ Reuse(j) PROVE PassedOn'
  BY <1>3, <1>4 DEF TransferAsync, Reuse, preload
<1>5. ASSUME GetFinished \/ GetDeclinedBlockIds \/ GetDeclinedReqIds PROVE PassedOn'
  BY <1>3, <1>5 DEF GetFinished, GetDeclinedBlockIds, GetDeclinedReqIds, preload
<1>6. ASSUME NEW f \in Files, FileStep(f) PROVE PassedOn'
  BY <1>3, <1>6 DEF FileStep, Schedule, Gather, Publish, Scatter, FileFails, preload
<1>7. CASE UNCHANGED vars
  BY <1>3, <1>7 DEF vars, preload
<1> QED
  BY <1>1, <1>2, <1>4, <1>5, <1>6, <1>7 DEF Next

\* The handler passes a preload on to the reactor exactly when its id is new
\* or at least MaxPreloadIds others have been named since it was: no
\* request's preload is swallowed for longer than that.
THEOREM PassedOnHolds == Spec => []PassedOnWhenForgotten
<1>1. Init => PassedOn
  <2>1. DOMAIN <<>> = {}
    BY EmptySeq
  <2> QED
    BY <2>1 DEF Init, PassedOn, PassedOnWhenForgotten
<1>2. Dedup /\ [Next]_vars => Dedup'
  BY NextDedup
<1>3. Dedup /\ PassedOn /\ [Next]_vars => PassedOn'
  BY NextPassedOn
<1>4. PassedOn => PassedOnWhenForgotten
  BY DEF PassedOn
<1> QED
  BY <1>1, <1>2, <1>3, <1>4, InitDedup, PTL DEF Spec
=============================================================================
