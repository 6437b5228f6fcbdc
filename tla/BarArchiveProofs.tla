-------------------------- MODULE BarArchiveProofs --------------------------
(* For every calendar, platform, universe and number of failures: what an    *)
(* interrupted writer may leave behind, which rows a file may lack or lose,  *)
(* that no file holds two rows of one bar, and that the coverage report is   *)
(* right. The dataset and the collected files have an inductive invariant    *)
(* each, DataInv and CronInv.                                                *)
EXTENDS BarArchive, BookLemmas

-----------------------------------------------------------------------------
(* Rows *)

\* What a line of a file may be: a row, or one that cannot be read (Bad, Torn).
Line == [day : Nat, slot : Nat, over : BOOLEAN]

\* No two rows of one bar.
Apart == {p \in Line \X Line : p[1] = Bad \/ p[2] = Bad \/ Key(p[1]) # Key(p[2])}

LEMMA KeysAre ==
  ASSUME NEW q
  PROVE  /\ KeysOf(q) = {Key(r) : r \in Range(q)}
         /\ DaysOf(q) = {r.day : r \in Range(q)}
  BY DEF KeysOf, DaysOf, Range

LEMMA ApartRows ==
  ASSUME NEW q \in Seq(Line), Ordered(q, Apart), Bad \notin Range(q)
  PROVE  \A i, j \in 1..Len(q) : Key(q[i]) = Key(q[j]) => i = j
<1> SUFFICES ASSUME NEW i \in 1..Len(q), NEW j \in 1..Len(q), i < j PROVE Key(q[i]) # Key(q[j])
  OBVIOUS
<1>1. <<q[i], q[j]>> \in Apart
  BY DEF Ordered
<1>2. q[i] # Bad /\ q[j] # Bad
  BY DEF Range
<1> QED
  BY <1>1, <1>2 DEF Apart

\* Sorted puts the rows of a set, which are of different bars, into a sequence.
LEMMA SortedIs ==
  ASSUME NEW S \in SUBSET Line, IsFiniteSet(S), \A r, q \in S : Key(r) = Key(q) => r = q
  PROVE  /\ Sorted(S) \in Seq(S) /\ Range(Sorted(S)) = S
         /\ Ordered(Sorted(S), Apart)
<1> DEFINE R == {p \in S \X S : InOrder(p[1], p[2])}
           n == Cardinality(S)
           At(i) == CHOOSE r \in S : Cardinality({q \in S : InOrder(q, r)}) = i - 1
           q == Sorted(S)
<1>1. \A x \in S : x.day \in Nat /\ x.slot \in Nat
  BY DEF Line
<1>2. \A x, y \in S : <<x, y>> \in R <=> InOrder(x, y)
  OBVIOUS
<1>3. /\ \A x \in S : <<x, x>> \notin R
      /\ \A x, y, z \in S : <<x, y>> \in R /\ <<y, z>> \in R => <<x, z>> \in R
      /\ \A x, y \in S : x # y => <<x, y>> \in R \/ <<y, x>> \in R
  <2> HIDE DEF R
  <2>1. \A x \in S : <<x, x>> \notin R
    BY <1>1, <1>2 DEF InOrder
  <2>2. \A x, y, z \in S : <<x, y>> \in R /\ <<y, z>> \in R => <<x, z>> \in R
    BY <1>1, <1>2 DEF InOrder
  <2>3. \A x, y \in S : x # y => <<x, y>> \in R \/ <<y, x>> \in R
    BY <1>1, <1>2 DEF InOrder, Key
  <2> QED
    BY <2>1, <2>2, <2>3
<1>4. \A x \in S : Below(S, R, x) = {y \in S : InOrder(y, x)}
  BY <1>2 DEF Below
<1> HIDE DEF R
<1>5. /\ \A x \in S : Cardinality(Below(S, R, x)) \in 0..(n - 1)
      /\ \A x, y \in S : Cardinality(Below(S, R, x)) = Cardinality(Below(S, R, y)) => x = y
      /\ \A i \in 1..n : \E x \in S : Cardinality(Below(S, R, x)) = i - 1
  BY <1>3, Ranked
<1>6. n \in Nat
  BY FS_CardinalityType
<1>7. q = [i \in 1..n |-> At(i)]
  BY DEF Sorted
<1>8. ASSUME NEW i \in 1..n
      PROVE  At(i) \in S /\ Cardinality(Below(S, R, At(i))) = i - 1
  <2>1. \E x \in S : Cardinality({y \in S : InOrder(y, x)}) = i - 1
    BY <1>4, <1>5
  <2>2. At(i) \in S /\ Cardinality({y \in S : InOrder(y, At(i))}) = i - 1
    BY <2>1
  <2> QED
    BY <1>4, <2>2
<1> HIDE DEF At, q, n
<1>9. q \in Seq(S) /\ Len(q) = n /\ DOMAIN q = 1..n /\ \A i \in 1..n : q[i] = At(i)
  BY <1>6, <1>7, <1>8
<1>10. ASSUME NEW x \in S PROVE x \in Range(q)
  <2> DEFINE c == Cardinality(Below(S, R, x))
  <2>1. c \in 0..(n - 1)
    BY <1>5
  <2>2. c + 1 \in 1..n /\ (c + 1) - 1 = c
    BY <1>6, <2>1
  <2>3. At(c + 1) = x
    <3>1. At(c + 1) \in S /\ Cardinality(Below(S, R, At(c + 1))) = (c + 1) - 1
      BY <1>8, <2>2
    <3>2. Cardinality(Below(S, R, At(c + 1))) = Cardinality(Below(S, R, x))
      BY <2>2, <3>1
    <3> HIDE DEF c
    <3> QED
      BY <1>5, <3>1, <3>2
  <2> HIDE DEF c
  <2> QED
    BY <1>9, <2>2, <2>3 DEF Range
<1>11. Range(q) = S
  <2>1. Range(q) \subseteq S
    BY <1>9 DEF Range
  <2> QED
    BY <1>10, <2>1
<1>12. Ordered(q, Apart)
  <2> SUFFICES ASSUME NEW i \in 1..n, NEW j \in 1..n, i < j PROVE <<q[i], q[j]>> \in Apart
    BY <1>9 DEF Ordered
  <2>1. q[i] \in S /\ q[j] \in S /\ q[i] \in Line /\ q[j] \in Line
    BY <1>9
  <2>2. q[i] # q[j]
    <3>1. Cardinality(Below(S, R, q[i])) = i - 1 /\ Cardinality(Below(S, R, q[j])) = j - 1
      BY <1>8, <1>9
    <3>2. i - 1 # j - 1
      BY <1>6
    <3> QED
      BY <3>1, <3>2
  <2>3. Key(q[i]) # Key(q[j])
    BY <2>1, <2>2
  <2> QED
    BY <2>1, <2>3 DEF Apart
<1> QED
  BY <1>9, <1>11, <1>12 DEF q

LEMMA GreatestIs ==
  ASSUME NEW n \in Nat, NEW T \in SUBSET (0..n), T # {}
  PROVE  GreatestOf(T) \in T /\ \A x \in T : GreatestOf(T) >= x
  BY GreatestExists DEF GreatestOf

\* The last row of every bar.
Lasts(q) == {q[i] : i \in {i \in DOMAIN q : \A j \in DOMAIN q : Key(q[j]) = Key(q[i]) => j <= i}}

\* _normalized keeps the last row of every bar, once.
LEMMA NormalizedIs ==
  ASSUME NEW q \in Seq(Line)
  PROVE  /\ Normalized(q) \in Seq(Line) /\ Range(Normalized(q)) = Lasts(q)
         /\ Ordered(Normalized(q), Apart) /\ KeysOf(Normalized(q)) = KeysOf(q)
<1> DEFINE n == Len(q)
           Places(k) == {i \in DOMAIN q : Key(q[i]) = k}
           last(k) == GreatestOf(Places(k))
           S == {q[last(k)] : k \in KeysOf(q)}
<1>1. n \in Nat /\ DOMAIN q = 1..n /\ \A i \in 1..n : q[i] \in Line
  OBVIOUS
<1> HIDE DEF n
<1>2. ASSUME NEW k \in KeysOf(q)
      PROVE  last(k) \in 1..n /\ Key(q[last(k)]) = k /\ \A i \in 1..n : Key(q[i]) = k => i <= last(k)
  <2>1. Places(k) # {} /\ Places(k) \in SUBSET (0..n) /\ Places(k) \subseteq 1..n
    BY <1>1 DEF KeysOf
  <2> DEFINE T == Places(k)
  <2> HIDE DEF T
  <2>2. GreatestOf(T) \in T /\ \A x \in T : GreatestOf(T) >= x
    BY <1>1, <2>1, GreatestIs DEF T
  <2>3. GreatestOf(T) \in 1..n
    BY <2>1, <2>2 DEF T
  <2>4. \A i \in 1..n : Key(q[i]) = k => i \in T
    BY <1>1 DEF T
  <2>5. Key(q[GreatestOf(T)]) = k
    BY <2>2 DEF T
  <2>6. \A i \in 1..n : Key(q[i]) = k => i <= GreatestOf(T)
    BY <1>1, <2>2, <2>3, <2>4
  <2> QED
    BY <2>3, <2>5, <2>6 DEF T
<1> HIDE DEF last
<1>3. S = Lasts(q)
  <2>1. ASSUME NEW r \in S PROVE r \in Lasts(q)
    <3>1. PICK k \in KeysOf(q) : r = q[last(k)]
      OBVIOUS
    <3> QED
      BY <1>1, <1>2, <3>1 DEF Lasts
  <2>2. ASSUME NEW r \in Lasts(q) PROVE r \in S
    <3>1. PICK i \in 1..n : r = q[i] /\ \A j \in 1..n : Key(q[j]) = Key(q[i]) => j <= i
      BY <1>1 DEF Lasts
    <3>2. Key(q[i]) \in KeysOf(q)
      BY <1>1 DEF KeysOf
    <3>3. last(Key(q[i])) = i
      BY <1>1, <1>2, <3>1, <3>2
    <3> QED
      BY <3>1, <3>2, <3>3
  <2> QED
    BY <2>1, <2>2
<1>4. S \in SUBSET Line /\ \A r, p \in S : Key(r) = Key(p) => r = p
  BY <1>1, <1>2
<1>5. IsFiniteSet(S)
  <2> DEFINE f == [i \in 1..n |-> q[i]]
             A == {f[i] : i \in 1..n}
  <2>1. IsFiniteSet(1..n)
    BY <1>1, FS_Interval
  <2>2. f \in Surjection(1..n, A)
    BY DEF Surjection
  <2>3. IsFiniteSet(A)
    <3> HIDE DEF f, A
    <3> QED
      BY <2>1, <2>2, FS_Surjection
  <2>4. S \in SUBSET A
    BY <1>2
  <2> HIDE DEF S, A
  <2> QED
    BY <2>3, <2>4, FS_Subset
<1>6. Normalized(q) = Sorted(S)
  BY DEF Normalized, last
<1>7. {Key(r) : r \in S} = KeysOf(q)
  BY <1>2
<1> HIDE DEF S
<1>8. Sorted(S) \in Seq(S) /\ Range(Sorted(S)) = S /\ Ordered(Sorted(S), Apart)
  BY <1>4, <1>5, SortedIs
<1>9. Sorted(S) \in Seq(Line)
  BY <1>4, <1>8
<1> QED
  BY <1>3, <1>6, <1>7, <1>8, <1>9, KeysAre

\* A set of numbers that is not empty has a least.
LEMMA LeastIs ==
  ASSUME NEW T \in SUBSET Nat, T # {}
  PROVE  LeastOf(T) \in T
  BY LeastExists DEF LeastOf

\* Rows in order, none of which is unreadable, are each the last of its bar.
LEMMA LastsOfApart ==
  ASSUME NEW q \in Seq(Line), Ordered(q, Apart), Bad \notin Range(q)
  PROVE  Lasts(q) = Range(q)
<1>1. \A i, j \in 1..Len(q) : Key(q[i]) = Key(q[j]) => i = j
  BY ApartRows
<1>2. DOMAIN q = 1..Len(q) /\ Len(q) \in Nat
  OBVIOUS
<1> QED
  BY <1>1, <1>2 DEF Lasts, Range

\* Two groups of rows merged: those of the second group, and those of the first
\* that are of other bars.
LEMMA LastsOfJoin ==
  ASSUME NEW a \in Seq(Line), NEW b \in Seq(Line)
  PROVE  Lasts(a \o b) = Lasts(b) \cup {r \in Lasts(a) : Key(r) \notin KeysOf(b)}
<1> DEFINE m == Len(a)
           n == Len(b)
           q == a \o b
           W(i) == \A j \in DOMAIN q : Key(q[j]) = Key(q[i]) => j <= i
<1>1. /\ m \in Nat /\ n \in Nat /\ DOMAIN a = 1..m /\ DOMAIN b = 1..n
      /\ DOMAIN q = 1..(m + n) /\ Len(q) = m + n
      /\ \A i \in 1..m : q[i] = a[i]
      /\ \A i \in 1..n : q[m + i] = b[i]
  OBVIOUS
<1>2. \A i \in 1..(m + n) : i \in 1..m \/ \E k \in 1..n : i = m + k
  <2> SUFFICES ASSUME NEW i \in 1..(m + n), i \notin 1..m PROVE i - m \in 1..n /\ i = m + (i - m)
    OBVIOUS
  <2> QED
    BY <1>1
<1> HIDE DEF m, n, q
<1>3. ASSUME NEW k \in 1..n
      PROVE  W(m + k) <=> \A j \in 1..n : Key(b[j]) = Key(b[k]) => j <= k
  <2>1. ASSUME W(m + k), NEW j \in 1..n, Key(b[j]) = Key(b[k]) PROVE j <= k
    <3>1. m + j \in DOMAIN q /\ Key(q[m + j]) = Key(q[m + k])
      BY <1>1, <2>1
    <3> QED
      BY <1>1, <2>1, <3>1
  <2>2. ASSUME \A j \in 1..n : Key(b[j]) = Key(b[k]) => j <= k PROVE W(m + k)
    <3> SUFFICES ASSUME NEW i \in 1..(m + n), Key(q[i]) = Key(q[m + k]) PROVE i <= m + k
      BY <1>1
    <3>1. CASE i \in 1..m
      BY <1>1, <3>1
    <3>2. ASSUME NEW j \in 1..n, i = m + j PROVE i <= m + k
      <4>1. Key(b[j]) = Key(b[k])
        BY <1>1, <3>2
      <4>2. j <= k
        BY <2>2, <4>1
      <4> QED
        BY <1>1, <3>2, <4>2
    <3> QED
      BY <1>2, <3>1, <3>2
  <2> QED
    BY <2>1, <2>2
<1>4. ASSUME NEW i \in 1..m
      PROVE  W(i) <=> /\ \A j \in 1..m : Key(a[j]) = Key(a[i]) => j <= i
                      /\ Key(a[i]) \notin KeysOf(b)
  <2>1. ASSUME W(i), NEW j \in 1..m, Key(a[j]) = Key(a[i]) PROVE j <= i
    BY <1>1, <2>1
  <2>2. ASSUME W(i), Key(a[i]) \in KeysOf(b) PROVE FALSE
    <3>1. PICK k \in 1..n : Key(b[k]) = Key(a[i])
      BY <1>1, <2>2 DEF KeysOf
    <3>2. m + k \in DOMAIN q /\ Key(q[m + k]) = Key(q[i])
      BY <1>1, <3>1
    <3>3. m + k <= i
      BY <2>2, <3>2
    <3> QED
      BY <1>1, <3>3
  <2>3. ASSUME \A j \in 1..m : Key(a[j]) = Key(a[i]) => j <= i, Key(a[i]) \notin KeysOf(b)
        PROVE  W(i)
    <3> SUFFICES ASSUME NEW j \in 1..(m + n), Key(q[j]) = Key(q[i]) PROVE j <= i
      BY <1>1
    <3>1. CASE j \in 1..m
      BY <1>1, <2>3, <3>1
    <3>2. CASE \E k \in 1..n : j = m + k
      BY <1>1, <2>3, <3>2 DEF KeysOf
    <3> QED
      BY <1>2, <3>1, <3>2
  <2> QED
    BY <2>1, <2>2, <2>3
<1>5. Lasts(q) = {q[i] : i \in {i \in 1..(m + n) : W(i)}}
  BY <1>1 DEF Lasts
<1>6. Lasts(b) = {b[k] : k \in {k \in 1..n : \A j \in 1..n : Key(b[j]) = Key(b[k]) => j <= k}}
  BY <1>1 DEF Lasts
<1>7. Lasts(a) = {a[k] : k \in {k \in 1..m : \A j \in 1..m : Key(a[j]) = Key(a[k]) => j <= k}}
  BY <1>1 DEF Lasts
<1> HIDE DEF W
<1>8. ASSUME NEW r \in Lasts(q)
      PROVE  r \in Lasts(b) \cup {x \in Lasts(a) : Key(x) \notin KeysOf(b)}
  <2>1. PICK i \in 1..(m + n) : W(i) /\ r = q[i]
    BY <1>5
  <2>2. CASE i \in 1..m
    BY <1>1, <1>4, <1>7, <2>1, <2>2
  <2>3. CASE \E k \in 1..n : i = m + k
    BY <1>1, <1>3, <1>6, <2>1, <2>3
  <2> QED
    BY <1>2, <2>2, <2>3
<1>9. ASSUME NEW r \in Lasts(b) PROVE r \in Lasts(q)
  <2>1. PICK k \in 1..n : r = b[k] /\ \A j \in 1..n : Key(b[j]) = Key(b[k]) => j <= k
    BY <1>6
  <2>2. W(m + k) /\ m + k \in 1..(m + n) /\ q[m + k] = r
    BY <1>1, <1>3, <2>1
  <2> QED
    BY <1>5, <2>2
<1>10. ASSUME NEW r \in Lasts(a), Key(r) \notin KeysOf(b) PROVE r \in Lasts(q)
  <2>1. PICK k \in 1..m : r = a[k] /\ \A j \in 1..m : Key(a[j]) = Key(a[k]) => j <= k
    BY <1>7
  <2>2. W(k) /\ k \in 1..(m + n) /\ q[k] = r
    BY <1>1, <1>4, <1>10, <2>1
  <2> QED
    BY <1>5, <2>2
<1> QED
  BY <1>8, <1>9, <1>10 DEF q

-----------------------------------------------------------------------------
(* A dataset directory *)

\* What the platform serves of a day that has n bars and is over or not.
Bars(d, n, closed) == {[day |-> d, slot |-> k, over |-> closed] : k \in 1..n}

\* What a request for a day of a symbol has been answered with, now or earlier.
Seen(s, d, R) == \/ \E n \in 1..published[s][d] : R = Bars(d, n, FALSE)
                 \/ d < today /\ R = Bars(d, published[s][d], TRUE)

OnDay(rows, d) == {r \in Range(rows) : r.day = d}

\* The rows of a sound file, or those a download collected: every bar once, and
\* every day as the platform served it at one moment.
Proper(s, rows) ==
  /\ rows \in Seq(Line) /\ Ordered(rows, Apart)
  /\ \A d \in DaysOf(rows) : d \in Days /\ Seen(s, d, OnDay(rows, d))

FilesOf == UNION {[U -> Seq(Line)] : U \in SUBSET Symbols}
JobType == [pc : {"idle", "fetch", "write", "tearing"}, incremental : BOOLEAN, first : Int,
            last : Int, todo : SUBSET (Symbols \X Days), raw : FilesOf,
            symbols : SUBSET Symbols, sums : FilesOf]

PlatformInv == /\ today \in Days /\ published \in [Symbols -> [Days -> Nat]]
               /\ \A s \in Symbols, d \in Days : published[s][d] <= Slots[s]

DataTyped ==
  /\ store \in [Symbols -> Seq(Line)] /\ manifest.symbols \subseteq Symbols
  /\ job \in JobType

\* Every file is sound or torn; what was fetched and what is to be written is sound.
DataSound ==
  /\ \A s \in Symbols : IsTorn(s) \/ Proper(s, store[s])
  /\ \A s \in DOMAIN job.raw : Proper(s, job.raw[s])
  /\ \A s \in DOMAIN job.sums : Proper(s, job.sums[s])

\* A day is fetched once; an incremental download that fetches a day of which the
\* file has rows (there was no manifest to say so) got all of their bars again.
FetchedInv ==
  /\ \A k \in job.todo : k[1] \in DOMAIN job.raw /\ k[2] \notin DaysOf(job.raw[k[1]])
  /\ job.incremental => \A s \in DOMAIN job.raw \ DOMAIN job.sums : \A r \in Range(store[s]) :
       r.day \in DaysOf(job.raw[s]) => Key(r) \in KeysOf(job.raw[s])

\* What the writer has done: the files it replaced hold what the manifest will
\* say, but for the Parquet file it is in.
WriterInv ==
  /\ job.pc \in {"idle", "fetch"} => DOMAIN job.sums = {}
  /\ job.pc = "write" => \A s \in DOMAIN job.sums : store[s] = job.sums[s]
  /\ job.pc = "tearing" => /\ format # "jsonl"
                           /\ \E t \in DOMAIN job.sums : /\ IsTorn(t)
                                \* the others are whole
                                /\ \A s \in DOMAIN job.sums \ {t} : store[s] = job.sums[s]

\* What the manifest says of a file no writer has touched since, and why a
\* download that extends a manifest never meets a torn file.
ManifestInv ==
  /\ \A s \in manifest.symbols \ (damaged \cup DOMAIN job.sums) : store[s] = manifest.sums[s]
  /\ \A s \in manifest.symbols :
       /\ manifest.sums[s] # <<Torn>>
       /\ manifest.missing[s] = (manifest.first .. manifest.last) \ DaysOf(manifest.sums[s])
  /\ HasManifest /\ job.incremental =>
       /\ job.pc = "fetch" => \A s \in DOMAIN job.raw : ~IsTorn(s)
       /\ job.pc \in {"write", "tearing"} => \A s \in Unwritten : ~IsTorn(s)

DataInv == PlatformInv /\ DataTyped /\ DataSound /\ FetchedInv /\ WriterInv /\ ManifestInv

\* The answer to a request: of every bar of its days one row.
LEMMA ServedIs ==
  ASSUME PlatformInv, NEW s \in Symbols, NEW from \in Int, NEW to \in Int
  PROVE  /\ Served(s, from, to) \in Seq(Line) /\ Ordered(Served(s, from, to), Apart)
         /\ Range(Served(s, from, to)) =
              {[day |-> k[1], slot |-> k[2], over |-> k[1] < today] :
                 k \in {k \in ((from .. to) \cap Days) \X (1 .. Slots[s]) : k[2] <= published[s][k[1]]}}
<1> DEFINE D == (from .. to) \cap Days
           have == {k \in D \X (1 .. Slots[s]) : k[2] <= published[s][k[1]]}
           bar(k) == [day |-> k[1], slot |-> k[2], over |-> k[1] < today]
           S == {bar(k) : k \in have}
<1>1. Slots[s] \in Nat /\ NumDays \in Nat /\ D \in SUBSET (1..NumDays)
  BY BarAssumption DEF Days
<1>2. IsFiniteSet(have)
  <2>1. IsFiniteSet(1..NumDays) /\ IsFiniteSet(1..Slots[s])
    BY <1>1, FS_Interval
  <2>2. IsFiniteSet(D)
    BY <1>1, <2>1, FS_Subset
  <2> DEFINE E == D \X (1..Slots[s])
  <2>3. IsFiniteSet(E)
    <3> HIDE DEF D
    <3> QED
      BY <2>1, <2>2, FS_Product
  <2>4. have \in SUBSET E
    OBVIOUS
  <2> HIDE DEF E, have
  <2> QED
    BY <2>3, <2>4, FS_Subset
<1>3. \A k \in have : k = <<k[1], k[2]>> /\ k[1] \in 1..NumDays /\ k[2] \in 1..Slots[s] /\ bar(k) \in Line
  BY <1>1 DEF Line
<1>4. S \in SUBSET Line
  BY <1>3
<1>5. IsFiniteSet(S)
  <2> DEFINE f == [k \in have |-> bar(k)]
             B == {f[k] : k \in have}
  <2> HIDE DEF have, bar
  <2>1. f \in Surjection(have, B)
    BY DEF Surjection
  <2>2. B = S
    OBVIOUS
  <2> HIDE DEF f, B, S
  <2> QED
    BY <1>2, <2>1, <2>2, FS_Surjection
<1>6. \A k \in have : bar(k).day = k[1] /\ bar(k).slot = k[2] /\ Key(bar(k)) = k
  BY <1>3 DEF Key
<1>7. \A r, q \in S : Key(r) = Key(q) => r = q
  <2> HIDE DEF have, bar
  <2> QED
    BY <1>6
<1>8. Served(s, from, to) = Sorted(S)
  BY DEF Served
<1> HIDE DEF S
<1>9. Sorted(S) \in Seq(S) /\ Range(Sorted(S)) = S /\ Ordered(Sorted(S), Apart)
  BY <1>4, <1>5, <1>7, SortedIs
<1>10. Sorted(S) \in Seq(Line)
  BY <1>4, <1>9
<1> QED
  BY <1>8, <1>9, <1>10 DEF S

\* The answer for one day: the bars the platform has of it now.
LEMMA ServedDay ==
  ASSUME PlatformInv, NEW s \in Symbols, NEW d \in Days
  PROVE  Range(Served(s, d, d)) = Bars(d, published[s][d], d < today)
<1>1. /\ d \in Int /\ today \in Int /\ published[s][d] \in Nat /\ published[s][d] <= Slots[s]
      /\ Slots[s] \in Nat /\ (d .. d) \cap Days = {d}
  BY BarAssumption DEF PlatformInv, Days
<1>2. Range(Served(s, d, d)) =
        {[day |-> k[1], slot |-> k[2], over |-> k[1] < today] :
           k \in {k \in {d} \X (1 .. Slots[s]) : k[2] <= published[s][k[1]]}}
  BY <1>1, ServedIs
<1>3. {k \in {d} \X (1 .. Slots[s]) : k[2] <= published[s][k[1]]} = {<<d, n>> : n \in 1..published[s][d]}
  <2> DEFINE A == {k \in {d} \X (1 .. Slots[s]) : k[2] <= published[s][k[1]]}
  <2>1. \A k \in A : k[2] \in 1..published[s][d] /\ k = <<d, k[2]>>
    BY <1>1
  <2>2. \A n \in 1..published[s][d] : <<d, n>> \in A
    BY <1>1
  <2> QED
    BY <2>1, <2>2
<1> DEFINE bar(k) == [day |-> k[1], slot |-> k[2], over |-> k[1] < today]
<1>4. \A n \in 1..published[s][d] :
        bar(<<d, n>>) = [day |-> d, slot |-> n, over |-> d < today]
  OBVIOUS
<1>5. {bar(k) : k \in {<<d, n>> : n \in 1..published[s][d]}} = Bars(d, published[s][d], d < today)
  <2> HIDE DEF bar
  <2> QED
    BY <1>4 DEF Bars
<1> QED
  BY <1>2, <1>3, <1>5

\* Rows of bars are rows: every day and slot counts from 1.
LEMMA BarsAre ==
  ASSUME NEW d \in Days, NEW n \in Nat, NEW closed \in BOOLEAN
  PROVE  /\ Bars(d, n, closed) \subseteq Line
         /\ \A r \in Bars(d, n, closed) : r.day = d /\ r.slot \in 1..n /\ Key(r) = <<d, r.slot>>
         /\ {Key(r) : r \in Bars(d, n, closed)} = {<<d, k>> : k \in 1..n}
<1>1. d \in Nat
  BY BarAssumption DEF Days
<1>2. \A k \in 1..n : [day |-> d, slot |-> k, over |-> closed] \in Line
  BY <1>1 DEF Line
<1>3. \A r \in Bars(d, n, closed) : \E k \in 1..n : r = [day |-> d, slot |-> k, over |-> closed]
  BY DEF Bars
<1>4. ASSUME NEW r \in Bars(d, n, closed)
      PROVE  r.day = d /\ r.slot \in 1..n /\ Key(r) = <<d, r.slot>>
  <2>1. PICK k \in 1..n : r = [day |-> d, slot |-> k, over |-> closed]
    BY <1>3
  <2> QED
    BY <2>1 DEF Key
<1>5. ASSUME NEW k \in 1..n
      PROVE  \E r \in Bars(d, n, closed) : r.slot = k
  <2>1. [day |-> d, slot |-> k, over |-> closed] \in Bars(d, n, closed)
    BY DEF Bars
  <2> QED
    BY <2>1
<1>6. {Key(r) : r \in Bars(d, n, closed)} = {<<d, k>> : k \in 1..n}
  BY <1>4, <1>5
<1>7. Bars(d, n, closed) \subseteq Line
  BY <1>2, <1>3
<1> QED
  BY <1>4, <1>6, <1>7

\* What was seen of a day: its bars up to a number that only grows.
LEMMA SeenIs ==
  ASSUME PlatformInv, NEW s \in Symbols, NEW d \in Days, NEW R, Seen(s, d, R)
  PROVE  \E n \in 0..published[s][d], closed \in BOOLEAN :
           R = Bars(d, n, closed) /\ (closed => d < today /\ n = published[s][d])
                                  /\ (~closed => n > 0)
<1>1. published[s][d] \in Nat
  BY DEF PlatformInv
<1>2. CASE \E n \in 1..published[s][d] : R = Bars(d, n, FALSE)
  <2>1. PICK n \in 1..published[s][d] : R = Bars(d, n, FALSE)
    BY <1>2
  <2>2. n \in 0..published[s][d] /\ n > 0 /\ FALSE \in BOOLEAN
    BY <1>1
  <2> QED
    BY <2>1, <2>2
<1>3. CASE d < today /\ R = Bars(d, published[s][d], TRUE)
  <2>1. published[s][d] \in 0..published[s][d] /\ TRUE \in BOOLEAN
    BY <1>1
  <2> QED
    BY <1>3, <2>1
<1> QED
  BY <1>2, <1>3 DEF Seen

\* What the platform served once it has served, whatever it publishes later.
LEMMA SeenKept ==
  ASSUME PlatformInv, [PlatformNext]_platformVars
  PROVE  /\ PlatformInv'
         /\ \A s \in Symbols, d \in Days : \A R : Seen(s, d, R) => Seen(s, d, R)'
<1>1. CASE UNCHANGED platformVars
  BY <1>1 DEF platformVars, PlatformInv, Seen
<1>2. CASE Midnight
  <2>1. today' = today + 1 /\ published' = published /\ today < NumDays /\ today \in 1..NumDays
    BY <1>2 DEF Midnight, PlatformInv, Days
  <2>2. today' \in 1..NumDays
    BY <2>1, BarAssumption
  <2>3. \A s \in Symbols, d \in Days : \A R : Seen(s, d, R) => Seen(s, d, R)'
    <3> SUFFICES ASSUME NEW s \in Symbols, NEW d \in Days, NEW R, Seen(s, d, R) PROVE Seen(s, d, R)'
      OBVIOUS
    <3>1. d < today => d < today'
      BY <2>1, BarAssumption DEF Days
    <3> QED
      BY <2>1, <3>1 DEF Seen
  <2> QED
    BY <2>1, <2>2, <2>3 DEF PlatformInv, Days
<1>3. ASSUME NEW x \in Symbols, Publish(x)
      PROVE  /\ PlatformInv'
             /\ \A s \in Symbols, d \in Days : \A R : Seen(s, d, R) => Seen(s, d, R)'
  <2>1. /\ today' = today /\ published' = [published EXCEPT ![x][today] = @ + 1]
        /\ published[x][today] < Slots[x] /\ today \in Days /\ Slots[x] \in Nat
        /\ published \in [Symbols -> [Days -> Nat]]
    BY <1>3, BarAssumption DEF Publish, PlatformInv
  <2>2. /\ published' \in [Symbols -> [Days -> Nat]]
        /\ \A s \in Symbols, d \in Days :
             /\ published'[s][d] = IF s = x /\ d = today THEN published[s][d] + 1 ELSE published[s][d]
             /\ published[s][d] \in Nat
    BY <2>1
  <2>3. \A s \in Symbols, d \in Days : published'[s][d] <= Slots[s]
    BY <2>1, <2>2 DEF PlatformInv
  <2>4. ASSUME NEW s \in Symbols, NEW d \in Days, NEW R, Seen(s, d, R) PROVE Seen(s, d, R)'
    <3>1. CASE \E n \in 1..published[s][d] : R = Bars(d, n, FALSE)
      <4>1. PICK n \in 1..published[s][d] : R = Bars(d, n, FALSE)
        BY <3>1
      <4>2. n \in 1..published'[s][d]
        BY <2>2
      <4> QED
        BY <4>1, <4>2 DEF Seen
    <3>2. CASE d < today /\ R = Bars(d, published[s][d], TRUE)
      <4>1. published'[s][d] = published[s][d]
        BY <2>1, <2>2, <3>2, BarAssumption DEF Days
      <4> QED
        BY <2>1, <3>2, <4>1 DEF Seen
    <3> QED
      BY <2>4, <3>1, <3>2 DEF Seen
  <2> QED
    BY <2>1, <2>2, <2>3, <2>4 DEF PlatformInv
<1> QED
  BY <1>1, <1>2, <1>3 DEF PlatformNext

\* The bars of a day that is over are what they are.
LEMMA PlatformGoesOn ==
  ASSUME PlatformInv, [PlatformNext]_platformVars
  PROVE  /\ today \in Int /\ today' \in Int /\ today <= today'
         /\ \A s \in Symbols, d \in Days : d < today => published'[s][d] = published[s][d]
<1>1. today \in Int /\ published \in [Symbols -> [Days -> Nat]] /\ \A d \in Days : d \in Int
  BY BarAssumption DEF PlatformInv, Days
<1>2. CASE UNCHANGED platformVars
  BY <1>1, <1>2 DEF platformVars
<1>3. CASE Midnight
  BY <1>1, <1>3 DEF Midnight
<1>4. ASSUME NEW x \in Symbols, Publish(x)
      PROVE  /\ today' = today
             /\ \A s \in Symbols, d \in Days : d < today => published'[s][d] = published[s][d]
  BY <1>1, <1>4 DEF Publish, PlatformInv
<1> QED
  BY <1>1, <1>2, <1>3, <1>4 DEF PlatformNext

LEMMA ProperKept ==
  ASSUME PlatformInv, [PlatformNext]_platformVars
  PROVE  \A s \in Symbols : \A q : Proper(s, q) => Proper(s, q)'
  BY SeenKept DEF Proper

\* A sound file is not a torn one, and every line of it can be read.
LEMMA ProperReadable ==
  ASSUME NEW s, NEW q, Proper(s, q)
  PROVE  /\ q # <<Torn>> /\ Bad \notin Range(q) /\ q \in Seq(Line)
         /\ Lasts(q) = Range(q)
<1>1. q \in Seq(Line) /\ Ordered(q, Apart) /\ \A r \in Range(q) : r.day \in Days
  BY KeysAre DEF Proper
<1>2. 0 \notin Days /\ Bad.day = 0 /\ Torn.day = 0
  BY DEF Days, Bad, Torn
<1>3. Bad \notin Range(q) /\ Torn \notin Range(q)
  BY <1>1, <1>2
<1>4. Torn \in Range(<<Torn>>)
  BY DEF Range
<1> QED
  BY <1>1, <1>3, <1>4, LastsOfApart

\* No rows are sound.
LEMMA ProperEmpty ==
  ASSUME NEW s
  PROVE  Proper(s, <<>>) /\ Range(<<>>) = {} /\ DaysOf(<<>>) = {} /\ KeysOf(<<>>) = {}
  BY DEF Proper, Ordered, DaysOf, KeysOf, Range

\* Merging new rows into a file whose days they repeat whole, or do not touch,
\* gives a sound file that lacks no bar of either.
LEMMA MergeProper ==
  ASSUME NEW s, NEW a, NEW b, Proper(s, a), Proper(s, b),
         \A r \in Range(a) : r.day \in DaysOf(b) => Key(r) \in KeysOf(b)
  PROVE  Proper(s, Normalized(a \o b))
<1> DEFINE q == Normalized(a \o b)
<1>1. a \in Seq(Line) /\ b \in Seq(Line) /\ a \o b \in Seq(Line)
  BY ProperReadable
<1>2. Range(q) = Range(b) \cup {r \in Range(a) : Key(r) \notin KeysOf(b)}
  BY <1>1, NormalizedIs, LastsOfJoin, ProperReadable
<1>3. q \in Seq(Line) /\ Ordered(q, Apart)
  BY <1>1, NormalizedIs
<1> HIDE DEF q
<1>4. /\ DaysOf(q) = {r.day : r \in Range(q)}
      /\ DaysOf(b) = {r.day : r \in Range(b)} /\ DaysOf(a) = {r.day : r \in Range(a)}
      /\ KeysOf(b) = {Key(r) : r \in Range(b)}
  BY KeysAre
<1>5. ASSUME NEW d \in DaysOf(q) PROVE d \in Days /\ Seen(s, d, OnDay(q, d))
  <2>1. CASE d \in DaysOf(b)
    <3>1. OnDay(q, d) = OnDay(b, d)
      BY <1>2, <1>4, <2>1 DEF OnDay
    <3> QED
      BY <2>1, <3>1 DEF Proper
  <2>2. CASE d \notin DaysOf(b)
    <3>1. \A r \in Range(a) : r.day = d => Key(r) \notin KeysOf(b)
      BY <1>4, <2>2 DEF Key
    <3>2. OnDay(q, d) = OnDay(a, d)
      BY <1>2, <1>4, <2>2, <3>1 DEF OnDay
    <3>3. d \in DaysOf(a)
      BY <1>2, <1>4, <1>5, <2>2
    <3> QED
      BY <3>2, <3>3 DEF Proper
  <2> QED
    BY <2>1, <2>2
<1> QED
  BY <1>3, <1>5 DEF Proper, q

\* The keys of the merged rows are those of both groups.
LEMMA MergeKeys ==
  ASSUME NEW a \in Seq(Line), NEW b \in Seq(Line)
  PROVE  KeysOf(Normalized(a \o b)) = KeysOf(a) \cup KeysOf(b)
<1>1. a \o b \in Seq(Line) /\ Range(a \o b) = Range(a) \cup Range(b)
  BY JoinRange
<1>2. KeysOf(Normalized(a \o b)) = KeysOf(a \o b)
  BY <1>1, NormalizedIs
<1> QED
  BY <1>1, <1>2, KeysAre

\* The bars of a day that is over, and those of a day that is not.
LEMMA OverOrNot ==
  ASSUME NEW d, NEW n, NEW c \in BOOLEAN
  PROVE  /\ c => Bars(d, n, c) = Bars(d, n, TRUE)
         /\ ~c => Bars(d, n, c) = Bars(d, n, FALSE)
<1>1. c = TRUE \/ c = FALSE
  OBVIOUS
<1>2. CASE c = TRUE
  BY <1>2
<1>3. CASE c = FALSE
  BY <1>3
<1> QED
  BY <1>1, <1>2, <1>3

\* A day more is fetched: the rows stay sound, and they have every bar that was
\* ever seen of the day.
LEMMA FetchProper ==
  ASSUME PlatformInv, NEW s \in Symbols, NEW d \in Days, NEW q, Proper(s, q), d \notin DaysOf(q)
  PROVE  LET p == q \o Served(s, d, d)
         IN  /\ Proper(s, p) /\ DaysOf(p) \subseteq DaysOf(q) \cup {d}
             /\ KeysOf(p) = KeysOf(q) \cup {<<d, k>> : k \in 1..published[s][d]}
<1> DEFINE v == Served(s, d, d)
           p == q \o v
           n == published[s][d]
<1>1. d \in Int /\ today \in Int /\ n \in Nat
  BY BarAssumption DEF Days, PlatformInv
<1>2. v \in Seq(Line) /\ Ordered(v, Apart) /\ Range(v) = Bars(d, n, d < today)
  BY <1>1, ServedIs, ServedDay
<1> HIDE DEF v, n
<1>14. /\ d < today => Bars(d, n, d < today) = Bars(d, n, TRUE)
       /\ ~(d < today) => Bars(d, n, d < today) = Bars(d, n, FALSE)
  <2>1. (d < today) \in BOOLEAN
    BY <1>1
  <2> QED
    BY <2>1, OverOrNot
<1>3. /\ \A r \in Range(v) : r.day = d
      /\ {Key(r) : r \in Range(v)} = {<<d, k>> : k \in 1..n}
  <2>1. Range(v) = Bars(d, n, TRUE) \/ Range(v) = Bars(d, n, FALSE)
    BY <1>2, <1>14
  <2>2. ASSUME NEW closed \in BOOLEAN
        PROVE  /\ \A r \in Bars(d, n, closed) : r.day = d
               /\ {Key(r) : r \in Bars(d, n, closed)} = {<<d, k>> : k \in 1..n}
    BY <1>1, BarsAre
  <2> QED
    BY <2>1, <2>2
<1>4. q \in Seq(Line) /\ Ordered(q, Apart)
  BY DEF Proper
<1>5. p \in Seq(Line) /\ Range(p) = Range(q) \cup Range(v)
  BY <1>2, <1>4, JoinRange
<1>6. /\ DaysOf(p) = {r.day : r \in Range(p)} /\ DaysOf(q) = {r.day : r \in Range(q)}
      /\ KeysOf(p) = {Key(r) : r \in Range(p)} /\ KeysOf(q) = {Key(r) : r \in Range(q)}
  BY KeysAre
<1>7. Range(q) \subseteq Line /\ Range(v) \subseteq Line
  BY <1>2, <1>4, RangeTypes
<1>8. \A x \in Range(q), y \in Range(v) : <<x, y>> \in Apart
  <2> SUFFICES ASSUME NEW x \in Range(q), NEW y \in Range(v) PROVE <<x, y>> \in Apart
    OBVIOUS
  <2>1. x.day # y.day
    BY <1>3, <1>6
  <2>2. Key(x) # Key(y)
    BY <2>1 DEF Key
  <2> QED
    BY <1>7, <2>2 DEF Apart
<1>9. Ordered(p, Apart)
  BY <1>2, <1>4, <1>8, OrderedJoin
<1>10. DaysOf(p) \subseteq DaysOf(q) \cup {d}
  BY <1>3, <1>5, <1>6
<1>11. KeysOf(p) = KeysOf(q) \cup {<<d, k>> : k \in 1..n}
  BY <1>3, <1>5, <1>6
<1> HIDE DEF p
<1>12. ASSUME NEW e \in DaysOf(p) PROVE e \in Days /\ Seen(s, e, OnDay(p, e))
  <2>1. CASE e = d
    <3>1. OnDay(p, e) = Range(v)
      BY <1>3, <1>5, <1>6, <2>1 DEF OnDay
    <3>2. \E r \in Range(v) : TRUE
      BY <1>5, <1>6, <1>12, <2>1
    <3>3. n \in 1..n
      BY <1>1, <1>3, <3>2
    <3>4. Seen(s, d, Bars(d, n, d < today))
      <4>1. CASE d < today
        BY <1>14, <4>1 DEF Seen, n
      <4>2. CASE ~(d < today)
        BY <1>14, <3>3, <4>2 DEF Seen, n
      <4> QED
        BY <4>1, <4>2
    <3> QED
      BY <1>2, <2>1, <3>1, <3>4
  <2>2. CASE e # d
    <3>1. e \in DaysOf(q) /\ OnDay(p, e) = OnDay(q, e)
      BY <1>3, <1>5, <1>6, <1>12, <2>2 DEF OnDay
    <3> QED
      BY <3>1 DEF Proper
  <2> QED
    BY <2>1, <2>2
<1> QED
  BY <1>5, <1>9, <1>10, <1>11, <1>12 DEF Proper, p, v, n

\* The bars a sound file has of a day are among those the platform has.
LEMMA ProperKeys ==
  ASSUME PlatformInv, NEW s \in Symbols, NEW q, Proper(s, q), NEW r \in Range(q)
  PROVE  r.day \in Days /\ \E k \in 1..published[s][r.day] : Key(r) = <<r.day, k>>
<1> DEFINE d == r.day
<1>1. d \in DaysOf(q)
  BY KeysAre
<1>2. d \in Days /\ Seen(s, d, OnDay(q, d)) /\ r \in OnDay(q, d)
  BY <1>1 DEF Proper, OnDay
<1> HIDE DEF d
<1>3. PICK n \in 0..published[s][d], closed \in BOOLEAN : OnDay(q, d) = Bars(d, n, closed)
  BY <1>2, SeenIs
<1>4. published[s][d] \in Nat
  BY <1>2 DEF PlatformInv
<1>5. n \in Nat /\ n <= published[s][d]
  BY <1>3, <1>4
<1>6. r.slot \in 1..n /\ Key(r) = <<d, r.slot>>
  BY <1>2, <1>3, <1>5, BarsAre
<1>7. r.slot \in 1..published[s][d]
  BY <1>4, <1>5, <1>6
<1> QED
  BY <1>2, <1>6, <1>7 DEF d

\* What a record of files is, and what one more file makes of it.
LEMMA FilesAre ==
  /\ \A f \in FilesOf : /\ DOMAIN f \subseteq Symbols /\ f \in [DOMAIN f -> Seq(Line)]
                        /\ \A s \in DOMAIN f : f[s] \in Seq(Line)
  /\ \A U \in SUBSET Symbols : \A f \in [U -> Seq(Line)] : f \in FilesOf
  /\ <<>> \in FilesOf /\ DOMAIN <<>> = {}
<1>1. <<>> \in [{} -> Seq(Line)] /\ DOMAIN <<>> = {}
  OBVIOUS
<1> QED
  BY <1>1 DEF FilesOf

LEMMA PutFile ==
  ASSUME NEW f \in FilesOf, NEW x \in Symbols, NEW y \in Seq(Line)
  PROVE  /\ Assigned(f, x, y) \in FilesOf /\ DOMAIN Assigned(f, x, y) = DOMAIN f \cup {x}
         /\ Assigned(f, x, y)[x] = y /\ \A s \in DOMAIN f \ {x} : Assigned(f, x, y)[s] = f[s]
<1> DEFINE U == DOMAIN f \cup {x}
           g == Assigned(f, x, y)
<1>1. U \in SUBSET Symbols /\ \A s \in DOMAIN f : f[s] \in Seq(Line)
  BY FilesAre
<1>2. g = [z \in U |-> IF z = x THEN y ELSE f[z]]
  BY DEF Assigned
<1>3. g \in [U -> Seq(Line)]
  BY <1>1, <1>2
<1> HIDE DEF g
<1> QED
  BY <1>1, <1>2, <1>3, FilesAre DEF g

LEMMA NoJobIs ==
  /\ NoJob \in JobType /\ NoJob.pc = "idle" /\ NoJob.todo = {}
  /\ DOMAIN NoJob.raw = {} /\ DOMAIN NoJob.sums = {}
  BY FilesAre DEF NoJob, JobType

LEMMA InitData == Init => DataInv
<1> SUFFICES ASSUME Init PROVE DataInv
  OBVIOUS
<1>1. PlatformInv
  <2>1. 1 \in Days /\ \A s \in Symbols : Slots[s] \in Nat
    BY BarAssumption DEF Days
  <2> QED
    BY <2>1 DEF Init, PlatformInit, PlatformInv
<1>2. /\ store = [s \in Symbols |-> <<>>] /\ manifest = NoManifest /\ job = NoJob
  BY DEF Init, StoreInit
<1>3. manifest.symbols = {}
  BY <1>2 DEF NoManifest
<1>4. \A s \in Symbols : Proper(s, store[s])
  BY <1>2, ProperEmpty
<1>5. DataTyped
  <2>1. <<>> \in Seq(Line)
    OBVIOUS
  <2> QED
    BY <1>2, <1>3, <2>1, NoJobIs DEF DataTyped
<1> QED
  BY <1>1, <1>2, <1>3, <1>4, <1>5, NoJobIs
     DEF DataInv, DataSound, FetchedInv, WriterInv, ManifestInv, HasManifest

\* The calendar and the platform go on, the archive stays as it is.
LEMMA DataRests ==
  ASSUME DataInv, [PlatformNext]_platformVars, UNCHANGED storeVars
  PROVE  DataInv'
<1>1. PlatformInv'
  BY SeenKept DEF DataInv
<1>2. DataTyped'
  BY DEF DataInv, DataTyped, storeVars
<1>3. DataSound'
  <2>1. \A s \in Symbols : \A q : Proper(s, q) => Proper(s, q)'
    BY ProperKept DEF DataInv
  <2>2. DOMAIN job.raw \subseteq Symbols /\ DOMAIN job.sums \subseteq Symbols
    BY FilesAre DEF DataInv, DataTyped, JobType
  <2>3. \A s \in Symbols : IsTorn(s)' \/ Proper(s, store[s])'
    BY <2>1 DEF DataInv, DataSound, storeVars, IsTorn
  <2>4. \A s \in DOMAIN job.raw : Proper(s, job.raw[s])'
    BY <2>1, <2>2 DEF DataInv, DataSound, storeVars
  <2>5. \A s \in DOMAIN job.sums : Proper(s, job.sums[s])'
    BY <2>1, <2>2 DEF DataInv, DataSound, storeVars
  <2> QED
    BY <2>3, <2>4, <2>5 DEF DataSound, storeVars
<1>4. FetchedInv'
  BY DEF DataInv, FetchedInv, storeVars
<1>5. WriterInv'
  BY DEF DataInv, WriterInv, storeVars, IsTorn
<1>6. ManifestInv'
  BY DEF DataInv, ManifestInv, storeVars, IsTorn, HasManifest, Unwritten
<1> QED
  BY <1>1, <1>2, <1>3, <1>4, <1>5, <1>6 DEF DataInv

\* Without a step of the platform, a file is as sound as it was.
LEMMA ProperSame ==
  ASSUME PlatformInv, UNCHANGED platformVars
  PROVE  PlatformInv' /\ \A s \in Symbols : \A q : Proper(s, q)' <=> Proper(s, q)
<1>1. PlatformInv'
  BY DEF platformVars, PlatformInv
<1>2. \A s \in Symbols : \A q : Proper(s, q)' <=> Proper(s, q)
  BY DEF Proper, Seen, platformVars
<1> QED
  BY <1>1, <1>2

\* The job ends, with or without a failure, and leaves the files as they are.
LEMMA JobEnds ==
  ASSUME DataInv, UNCHANGED platformVars, job' = NoJob, UNCHANGED <<format, store, manifest>>,
         \A s \in manifest.symbols \ damaged' : store[s] = manifest.sums[s]
  PROVE  DataInv'
<1>1. PlatformInv' /\ \A s \in Symbols : \A q : Proper(s, q)' <=> Proper(s, q)
  BY ProperSame DEF DataInv
<1>2. DataTyped'
  BY NoJobIs DEF DataInv, DataTyped
<1>3. DataSound'
  <2>1. \A s \in Symbols : IsTorn(s)' \/ Proper(s, store[s])'
    BY <1>1 DEF DataInv, DataSound, IsTorn
  <2> QED
    BY <2>1, NoJobIs DEF DataSound
<1>4. FetchedInv'
  BY NoJobIs DEF FetchedInv
<1>5. WriterInv'
  BY NoJobIs DEF WriterInv
<1>6. ManifestInv'
  <2>1. \A s \in manifest.symbols :
          /\ manifest.sums[s] # <<Torn>>
          /\ manifest.missing[s] = (manifest.first .. manifest.last) \ DaysOf(manifest.sums[s])
    BY DEF DataInv, ManifestInv
  <2> QED
    BY <2>1, NoJobIs DEF ManifestInv
<1> QED
  BY <1>1, <1>2, <1>3, <1>4, <1>5, <1>6 DEF DataInv

\* A symbol no download has written lately, if the writer has not begun.
LEMMA FetchFailsData ==
  ASSUME DataInv, UNCHANGED platformVars, FetchFails
  PROVE  DataInv'
<1>1. DOMAIN job.sums = {}
  BY DEF FetchFails, DataInv, WriterInv
<1>2. \A s \in manifest.symbols \ damaged' : store[s] = manifest.sums[s]
  BY <1>1 DEF FetchFails, DataInv, ManifestInv
<1> QED
  BY <1>2, JobEnds DEF FetchFails

LEMMA CrashData ==
  ASSUME DataInv, UNCHANGED platformVars, Crash
  PROVE  DataInv'
<1>1. \A s \in manifest.symbols \ damaged' : store[s] = manifest.sums[s]
  BY DEF Crash, DataInv, ManifestInv
<1> QED
  BY <1>1, JobEnds DEF Crash

LEMMA TornRaisesData ==
  ASSUME DataInv, UNCHANGED platformVars, TornRaises
  PROVE  DataInv'
<1>1. LeastOf(Unwritten) \in Unwritten /\ IsTorn(LeastOf(Unwritten))
  <2>1. Unwritten \in SUBSET Nat /\ Unwritten # {}
    BY BarAssumption DEF TornRaises, DataInv, DataTyped, JobType, Unwritten
  <2> HIDE DEF Unwritten
  <2> QED
    BY <2>1, LeastIs DEF TornRaises
<1>2. ~HasManifest
  BY <1>1 DEF TornRaises, DataInv, ManifestInv
<1> QED
  BY <1>2, JobEnds DEF TornRaises, HasManifest

LEMMA StartData ==
  ASSUME DataInv, UNCHANGED platformVars, NEW d \in Downloads, Start(d[1], d[2], d[3])
  PROVE  DataInv'
<1> DEFINE first == IF today - d[2] + 1 > 0 THEN today - d[2] + 1 ELSE 1
           raw == [s \in d[1] |-> <<>>]
           todo == {k \in d[1] \X (first .. today) : k[2] \notin KnownDays(k[1], d[3])}
<1>1. /\ d[1] \in SUBSET Symbols /\ d[2] \in Nat \ {0} /\ d[3] \in BOOLEAN
  BY ArchiveAssumption
<1>2. today \in Days /\ today \in Int /\ NumDays \in Nat
  BY BarAssumption DEF DataInv, PlatformInv, Days
<1>3. first \in Int /\ first .. today \subseteq Days
  BY <1>1, <1>2 DEF Days
<1>4. todo \in SUBSET (Symbols \X Days) /\ \A k \in todo : k[1] \in d[1]
  <2> HIDE DEF first
  <2> QED
    BY <1>1, <1>3
<1>5. /\ job' = [NoJob EXCEPT !.pc = "fetch", !.incremental = d[3], !.first = first,
                              !.last = today, !.raw = raw, !.todo = todo]
      /\ UNCHANGED <<format, store, manifest, faults, damaged>>
      /\ d[3] /\ HasManifest => \A s \in d[1] : ~IsTorn(s)
      /\ job.pc = "idle"
  BY DEF Start
<1>6. /\ raw \in FilesOf /\ DOMAIN raw = d[1] /\ \A s \in d[1] : raw[s] = <<>>
  <2>1. raw \in [d[1] -> Seq(Line)]
    OBVIOUS
  <2> HIDE DEF raw
  <2>2. raw \in FilesOf
    BY <1>1, <2>1, FilesAre
  <2> QED
    BY <2>1, <2>2 DEF raw
<1> HIDE DEF first, raw, todo
<1>7. job' = [pc |-> "fetch", incremental |-> d[3], first |-> first, last |-> today,
              todo |-> todo, raw |-> raw, symbols |-> {}, sums |-> <<>>]
  BY <1>5 DEF NoJob
<1>8. /\ job'.pc = "fetch" /\ job'.incremental = d[3] /\ job'.raw = raw /\ job'.todo = todo
      /\ job'.sums = <<>>
  BY <1>7
<1>9. PlatformInv' /\ \A s \in Symbols : \A q : Proper(s, q)' <=> Proper(s, q)
  BY ProperSame DEF DataInv
<1>10. DataTyped'
  <2>1. job' \in JobType
    BY <1>1, <1>2, <1>3, <1>4, <1>6, <1>7, FilesAre DEF JobType
  <2> QED
    BY <1>5, <2>1 DEF DataInv, DataTyped
<1>11. DataSound'
  <2>1. \A s \in Symbols : IsTorn(s)' \/ Proper(s, store[s])'
    BY <1>5, <1>9 DEF DataInv, DataSound, IsTorn
  <2>2. \A s \in d[1] : Proper(s, raw[s])'
    BY <1>1, <1>6, <1>9, ProperEmpty
  <2> QED
    BY <1>6, <1>8, <2>1, <2>2, FilesAre DEF DataSound
<1>12. FetchedInv'
  <2>1. \A k \in todo : k[1] \in DOMAIN raw /\ k[2] \notin DaysOf(raw[k[1]])
    BY <1>4, <1>6, ProperEmpty
  <2>2. \A s \in DOMAIN raw : DaysOf(raw[s]) = {}
    BY <1>6, ProperEmpty
  <2> QED
    BY <1>8, <2>1, <2>2 DEF FetchedInv
<1>13. WriterInv'
  BY <1>8, FilesAre DEF WriterInv
<1>14. ManifestInv'
  <2>1. DOMAIN job.sums = {}
    BY <1>5 DEF DataInv, WriterInv
  <2>2. \A s \in manifest.symbols \ damaged : store[s] = manifest.sums[s]
    BY <2>1 DEF DataInv, ManifestInv
  <2>3. \A s \in manifest.symbols :
          /\ manifest.sums[s] # <<Torn>>
          /\ manifest.missing[s] = (manifest.first .. manifest.last) \ DaysOf(manifest.sums[s])
    BY DEF DataInv, ManifestInv
  <2>4. HasManifest' /\ d[3] => \A s \in DOMAIN raw : ~IsTorn(s)'
    BY <1>5, <1>6 DEF HasManifest, IsTorn
  <2> QED
    BY <1>5, <1>8, <2>2, <2>3, <2>4 DEF ManifestInv
<1> QED
  BY <1>9, <1>10, <1>11, <1>12, <1>13, <1>14 DEF DataInv

LEMMA FetchDayData ==
  ASSUME DataInv, UNCHANGED platformVars, FetchDay
  PROVE  DataInv'
<1> DEFINE S == {k[1] : k \in job.todo}
           s == LeastOf(S)
           D == {k[2] : k \in {q \in job.todo : q[1] = s}}
           d == LeastOf(D)
           p == job.raw[s] \o Served(s, d, d)
<1>1. job \in JobType /\ store \in [Symbols -> Seq(Line)] /\ PlatformInv
  BY DEF DataInv, DataTyped
<1>2. /\ job.todo \subseteq Symbols \X Days /\ job.raw \in FilesOf /\ job.sums \in FilesOf
      /\ job.pc = "fetch" /\ job.incremental \in BOOLEAN
  BY <1>1 DEF JobType, FetchDay
<1>3. s \in S
  <2>1. S \in SUBSET Nat /\ S # {}
    BY <1>2, BarAssumption DEF FetchDay
  <2> HIDE DEF S
  <2> QED
    BY <2>1, LeastIs
<1> HIDE DEF s
<1>4. d \in D
  <2>1. D \in SUBSET Nat /\ D # {}
    BY <1>2, <1>3, BarAssumption DEF Days
  <2> HIDE DEF D
  <2> QED
    BY <2>1, LeastIs
<1> HIDE DEF d
<1>5. <<s, d>> \in job.todo /\ s \in Symbols /\ d \in Days
  BY <1>2, <1>4
<1>6. s \in DOMAIN job.raw /\ d \notin DaysOf(job.raw[s]) /\ Proper(s, job.raw[s])
  BY <1>5 DEF DataInv, FetchedInv, DataSound
<1>7. /\ Proper(s, p) /\ DaysOf(p) \subseteq DaysOf(job.raw[s]) \cup {d}
      /\ KeysOf(p) = KeysOf(job.raw[s]) \cup {<<d, k>> : k \in 1..published[s][d]}
  BY <1>1, <1>5, <1>6, FetchProper
<1>8. job' = [job EXCEPT !.raw[s] = p, !.todo = @ \ {<<s, d>>}]
  BY DEF FetchDay, s, d
<1> HIDE DEF p, S, D
<1> DEFINE raw == [job.raw EXCEPT ![s] = p]
<1>9. /\ raw \in FilesOf /\ DOMAIN raw = DOMAIN job.raw /\ raw[s] = p
      /\ \A x \in DOMAIN raw \ {s} : raw[x] = job.raw[x]
  <2>1. DOMAIN job.raw \in SUBSET Symbols /\ job.raw \in [DOMAIN job.raw -> Seq(Line)]
    BY <1>2, FilesAre
  <2>2. p \in Seq(Line)
    BY <1>7, ProperReadable
  <2>3. raw \in [DOMAIN job.raw -> Seq(Line)]
    BY <2>1, <2>2
  <2> QED
    BY <1>6, <2>1, <2>3, FilesAre
<1>10. /\ job' = [pc |-> job.pc, incremental |-> job.incremental, first |-> job.first,
                  last |-> job.last, todo |-> job.todo \ {<<s, d>>}, raw |-> raw,
                  symbols |-> job.symbols, sums |-> job.sums]
  BY <1>1, <1>8 DEF JobType
<1> HIDE DEF raw
<1>11. /\ job'.pc = "fetch" /\ job'.incremental = job.incremental /\ job'.raw = raw
       /\ job'.todo = job.todo \ {<<s, d>>} /\ job'.sums = job.sums
       /\ UNCHANGED <<format, store, manifest, faults, damaged>>
  <2>1. /\ job'.pc = job.pc /\ job'.incremental = job.incremental /\ job'.raw = raw
        /\ job'.todo = job.todo \ {<<s, d>>} /\ job'.sums = job.sums
    BY <1>10
  <2>2. UNCHANGED <<format, store, manifest, faults, damaged>>
    BY DEF FetchDay
  <2> QED
    BY <1>2, <2>1, <2>2
<1>12. PlatformInv' /\ \A x \in Symbols : \A q : Proper(x, q)' <=> Proper(x, q)
  BY ProperSame DEF DataInv
<1>13. DataTyped'
  <2>1. job' \in JobType
    BY <1>1, <1>9, <1>10 DEF JobType
  <2> QED
    BY <1>11, <2>1 DEF DataInv, DataTyped
<1>14. DOMAIN job.sums = {}
  BY <1>2 DEF DataInv, WriterInv
<1>15. DataSound'
  <2>1. \A x \in Symbols : IsTorn(x)' \/ Proper(x, store[x])'
    BY <1>11, <1>12 DEF DataInv, DataSound, IsTorn
  <2>2. \A x \in DOMAIN raw : x \in Symbols /\ Proper(x, raw[x])
    BY <1>2, <1>7, <1>9, FilesAre DEF DataInv, DataSound
  <2>3. \A x \in DOMAIN job'.raw : Proper(x, job.raw[x])'
    BY <1>11, <1>12, <2>2
  <2> QED
    BY <1>11, <1>14, <2>1, <2>3 DEF DataSound
<1>16. FetchedInv'
  <2>1. ASSUME NEW k \in job.todo \ {<<s, d>>}
        PROVE  k[1] \in DOMAIN raw /\ k[2] \notin DaysOf(raw[k[1]])
    <3>1. k[1] \in DOMAIN job.raw /\ k[2] \notin DaysOf(job.raw[k[1]])
      BY DEF DataInv, FetchedInv
    <3>2. k[1] = s => k[2] # d
      BY <1>2
    <3> QED
      BY <1>7, <1>9, <3>1, <3>2
  <2>2. ASSUME job.incremental, NEW x \in DOMAIN raw, NEW r \in Range(store[x]),
               r.day \in DaysOf(raw[x])
        PROVE  Key(r) \in KeysOf(raw[x])
    <3>1. r.day \in DaysOf(job.raw[x]) => Key(r) \in KeysOf(job.raw[x])
      BY <1>9, <1>14, <2>2 DEF DataInv, FetchedInv
    <3>2. CASE x # s
      BY <1>9, <2>2, <3>1, <3>2
    <3>3. CASE x = s /\ r.day # d
      BY <1>7, <1>9, <2>2, <3>1, <3>3
    <3>4. CASE x = s /\ r.day = d
      <4>1. ~IsTorn(s)
        <5> SUFFICES ASSUME store[s] = <<Torn>> PROVE FALSE
          BY DEF IsTorn
        <5>1. r = Torn
          BY <2>2, <3>4 DEF Range
        <5> QED
          BY <1>5, <3>4, <5>1 DEF Torn, Days
      <4>2. Proper(s, store[s])
        BY <1>5, <4>1 DEF DataInv, DataSound
      <4>3. \E k \in 1..published[s][d] : Key(r) = <<d, k>>
        BY <1>1, <1>5, <2>2, <3>4, <4>2, ProperKeys
      <4> QED
        BY <1>7, <1>9, <3>4, <4>3
    <3> QED
      BY <3>2, <3>3, <3>4
  <2> QED
    BY <1>11, <2>1, <2>2 DEF FetchedInv
<1>17. WriterInv'
  BY <1>11, <1>14 DEF WriterInv
<1>18. ManifestInv'
  BY <1>2, <1>9, <1>11 DEF DataInv, ManifestInv, IsTorn, HasManifest
<1> QED
  BY <1>12, <1>13, <1>15, <1>16, <1>17, <1>18 DEF DataInv

LEMMA BeginWriteData ==
  ASSUME DataInv, UNCHANGED platformVars, BeginWrite
  PROVE  DataInv'
<1> DEFINE extends == job.incremental /\ HasManifest
           symbols == DOMAIN job.raw \cup IF extends THEN manifest.symbols ELSE {}
<1>1. job \in JobType /\ job.pc = "fetch" /\ manifest.symbols \subseteq Symbols
  BY DEF DataInv, DataTyped, BeginWrite
<1>2. DOMAIN job.sums = {}
  BY <1>1 DEF DataInv, WriterInv
<1>3. UNCHANGED <<format, store, manifest, faults, damaged>>
  BY DEF BeginWrite
<1>4. \A s \in manifest.symbols \ damaged : store[s] = manifest.sums[s]
  BY <1>2 DEF DataInv, ManifestInv
<1>5. CASE extends /\ ~Verified
  <2>1. job' = NoJob
    BY <1>5 DEF BeginWrite
  <2> QED
    BY <1>3, <1>4, <2>1, JobEnds
<1>6. CASE ~(extends /\ ~Verified)
  <2>1. job' = [job EXCEPT !.pc = "write", !.symbols = symbols]
    BY <1>6 DEF BeginWrite
  <2>2. symbols \in SUBSET Symbols
    BY <1>1, FilesAre DEF JobType
  <2>3. extends => \A s \in symbols : ~IsTorn(s)
    <3> SUFFICES ASSUME extends, NEW s \in symbols PROVE ~IsTorn(s)
      OBVIOUS
    <3>1. CASE s \in DOMAIN job.raw
      BY <1>1, <3>1 DEF DataInv, ManifestInv
    <3>2. CASE s \in manifest.symbols
      BY <1>6, <3>2 DEF Verified, IsTorn, DataInv, ManifestInv
    <3> QED
      BY <3>1, <3>2
  <2> HIDE DEF symbols
  <2>4. /\ job' = [pc |-> "write", incremental |-> job.incremental, first |-> job.first,
                   last |-> job.last, todo |-> job.todo, raw |-> job.raw,
                   symbols |-> symbols, sums |-> job.sums]
    BY <1>1, <2>1 DEF JobType
  <2>5. /\ job'.pc = "write" /\ job'.incremental = job.incremental /\ job'.raw = job.raw
        /\ job'.todo = job.todo /\ job'.sums = job.sums /\ job'.symbols = symbols
    BY <2>4
  <2>6. PlatformInv' /\ \A s \in Symbols : \A q : Proper(s, q)' <=> Proper(s, q)
    BY ProperSame DEF DataInv
  <2>7. DataTyped'
    <3>1. job' \in JobType
      BY <1>1, <2>2, <2>4 DEF JobType
    <3> QED
      BY <1>3, <3>1 DEF DataInv, DataTyped
  <2>8. DataSound'
    <3>1. \A s \in Symbols : IsTorn(s)' \/ Proper(s, store[s])'
      BY <1>3, <2>6 DEF DataInv, DataSound, IsTorn
    <3>2. \A s \in DOMAIN job.raw : s \in Symbols /\ Proper(s, job.raw[s])'
      BY <1>1, <2>5, <2>6, FilesAre DEF DataInv, DataSound, JobType
    <3> QED
      BY <1>2, <2>5, <3>1, <3>2 DEF DataSound
  <2>9. FetchedInv'
    BY <1>3, <2>5 DEF DataInv, FetchedInv
  <2>10. WriterInv'
    BY <1>2, <2>5 DEF WriterInv
  <2>11. ManifestInv'
    <3>1. Unwritten' = symbols
      BY <1>2, <2>5 DEF Unwritten
    <3>2. HasManifest' /\ job'.incremental => \A s \in Unwritten' : ~IsTorn(s)'
      BY <1>3, <2>3, <2>5, <3>1 DEF HasManifest, IsTorn
    <3> QED
      BY <1>3, <2>5, <3>2 DEF DataInv, ManifestInv
  <2> QED
    BY <2>6, <2>7, <2>8, <2>9, <2>10, <2>11 DEF DataInv
<1> QED
  BY <1>5, <1>6

\* What a writer puts into a file is sound, and lacks no bar it is made of.
LEMMA MergedIs ==
  ASSUME DataInv, NEW s \in Symbols, s \notin DOMAIN job.sums, job.incremental => ~IsTorn(s)
  PROVE  /\ Proper(s, MergedRows(s))
         /\ job.incremental => KeysOf(store[s]) \subseteq KeysOf(MergedRows(s))
<1> DEFINE a == IF job.incremental THEN store[s] ELSE <<>>
           b == IF s \in DOMAIN job.raw THEN job.raw[s] ELSE <<>>
<1>1. Proper(s, a)
  BY ProperEmpty DEF DataInv, DataSound
<1>2. Proper(s, b)
  BY ProperEmpty DEF DataInv, DataSound
<1>3. \A r \in Range(a) : r.day \in DaysOf(b) => Key(r) \in KeysOf(b)
  <2>1. CASE job.incremental /\ s \in DOMAIN job.raw
    BY <2>1 DEF DataInv, FetchedInv
  <2>2. CASE ~job.incremental
    BY <2>2, ProperEmpty
  <2>3. CASE s \notin DOMAIN job.raw
    BY <2>3, ProperEmpty
  <2> QED
    BY <2>1, <2>2, <2>3
<1>4. MergedRows(s) = Normalized(a \o b)
  BY DEF MergedRows
<1>5. job.incremental => a = store[s]
  OBVIOUS
<1> HIDE DEF a, b
<1>6. Proper(s, Normalized(a \o b))
  BY <1>1, <1>2, <1>3, MergeProper
<1>7. KeysOf(Normalized(a \o b)) = KeysOf(a) \cup KeysOf(b)
  BY <1>1, <1>2, ProperReadable, MergeKeys
<1> QED
  BY <1>4, <1>5, <1>6, <1>7

\* The symbol a writer takes next.
LEMMA WriteSymbolNext ==
  ASSUME DataInv, WriteSymbol
  PROVE  LET s == LeastOf(Unwritten)
         IN  s \in Symbols /\ s \in Unwritten /\ s \notin DOMAIN job.sums
             /\ (job.incremental => ~IsTorn(s))
<1>1. Unwritten \in SUBSET Nat /\ Unwritten # {} /\ Unwritten \subseteq Symbols
  BY BarAssumption DEF WriteSymbol, DataInv, DataTyped, JobType, Unwritten
<1>2. LeastOf(Unwritten) \in Unwritten
  <2> HIDE DEF Unwritten
  <2> QED
    BY <1>1, LeastIs
<1> QED
  BY <1>1, <1>2 DEF WriteSymbol, Unwritten

LEMMA WriteSymbolData ==
  ASSUME DataInv, UNCHANGED platformVars, WriteSymbol
  PROVE  DataInv'
<1> DEFINE s == LeastOf(Unwritten)
           m == MergedRows(s)
           sums == Assigned(job.sums, s, m)
<1>1. job \in JobType /\ store \in [Symbols -> Seq(Line)] /\ job.pc = "write"
  BY DEF DataInv, DataTyped, WriteSymbol
<1>2. s \in Symbols /\ s \in Unwritten /\ s \notin DOMAIN job.sums /\ (job.incremental => ~IsTorn(s))
  BY WriteSymbolNext
<1>3. /\ job' = [job EXCEPT !.sums = sums, !.pc = IF format = "jsonl" THEN @ ELSE "tearing"]
      /\ store' = [store EXCEPT ![s] = IF format = "jsonl" THEN m ELSE <<Torn>>]
      /\ UNCHANGED <<format, manifest, faults, damaged>>
  BY DEF WriteSymbol
<1> HIDE DEF s
<1>4. Proper(s, m)
  BY <1>2, MergedIs
<1> HIDE DEF m
<1>5. m \in Seq(Line) /\ m # <<Torn>> /\ <<Torn>> \in Seq(Line)
  <2>1. Torn \in Line
    BY DEF Torn, Line
  <2> QED
    BY <1>4, <2>1, ProperReadable
<1>6. /\ sums \in FilesOf /\ DOMAIN sums = DOMAIN job.sums \cup {s}
      /\ sums[s] = m /\ \A x \in DOMAIN job.sums \ {s} : sums[x] = job.sums[x]
  <2>1. job.sums \in FilesOf
    BY <1>1 DEF JobType
  <2> QED
    BY <1>2, <1>5, <2>1, PutFile
<1> HIDE DEF sums
<1> DEFINE pc == IF format = "jsonl" THEN "write" ELSE "tearing"
<1>7. job' = [pc |-> pc, incremental |-> job.incremental, first |-> job.first,
              last |-> job.last, todo |-> job.todo, raw |-> job.raw,
              symbols |-> job.symbols, sums |-> sums]
  BY <1>1, <1>3 DEF JobType
<1>8. /\ job'.pc = pc /\ job'.incremental = job.incremental /\ job'.raw = job.raw
      /\ job'.todo = job.todo /\ job'.sums = sums /\ job'.symbols = job.symbols
  BY <1>7
<1>9. /\ store' \in [Symbols -> Seq(Line)]
      /\ store'[s] = IF format = "jsonl" THEN m ELSE <<Torn>>
      /\ \A x \in Symbols : x # s => store'[x] = store[x]
  BY <1>1, <1>2, <1>3, <1>5
<1>10. PlatformInv' /\ \A x \in Symbols : \A q : Proper(x, q)' <=> Proper(x, q)
  BY ProperSame DEF DataInv
<1>11. DOMAIN job.raw \subseteq Symbols /\ DOMAIN job.sums \subseteq Symbols
  BY <1>1, FilesAre DEF JobType
<1>12. DataTyped'
  <2>1. job' \in JobType
    BY <1>1, <1>6, <1>7 DEF JobType
  <2> QED
    BY <1>3, <1>9, <2>1 DEF DataInv, DataTyped
<1>13. DataSound'
  <2>1. ASSUME NEW x \in Symbols PROVE store'[x] = <<Torn>> \/ Proper(x, store[x])'
    <3>1. CASE x = s
      BY <1>2, <1>4, <1>9, <1>10, <3>1
    <3>2. CASE x # s
      <4>1. store[x] = <<Torn>> \/ Proper(x, store[x])
        BY DEF DataInv, DataSound, IsTorn
      <4> QED
        BY <1>9, <1>10, <3>2, <4>1
    <3> QED
      BY <3>1, <3>2
  <2>2. \A x \in DOMAIN job.raw : Proper(x, job.raw[x])'
    BY <1>8, <1>10, <1>11 DEF DataInv, DataSound
  <2>3. \A x \in DOMAIN sums : x \in Symbols /\ Proper(x, sums[x])
    BY <1>2, <1>4, <1>6, <1>11 DEF DataInv, DataSound
  <2>4. \A x \in DOMAIN job'.sums : Proper(x, job.sums[x])'
    BY <1>8, <1>10, <2>3
  <2> QED
    BY <1>8, <2>1, <2>2, <2>4 DEF DataSound, IsTorn
<1>14. FetchedInv'
  BY <1>6, <1>8, <1>9, <1>11 DEF DataInv, FetchedInv
<1>15. \A x \in DOMAIN job.sums : store'[x] = sums[x] /\ x # s
  BY <1>1, <1>2, <1>6, <1>9, <1>11 DEF DataInv, WriterInv
<1>16. WriterInv'
  <2>1. CASE format = "jsonl"
    <3>1. store'[s] = sums[s]
      BY <1>6, <1>9, <2>1
    <3> QED
      BY <1>6, <1>8, <1>15, <2>1, <3>1 DEF WriterInv
  <2>2. CASE format # "jsonl"
    <3>1. store'[s] = <<Torn>> /\ job'.pc = "tearing"
      BY <1>8, <1>9, <2>2
    <3> QED
      BY <1>3, <1>6, <1>8, <1>15, <2>2, <3>1 DEF WriterInv, IsTorn
  <2> QED
    BY <2>1, <2>2
<1>17. ManifestInv'
  <2>1. Unwritten' = Unwritten \ {s}
    BY <1>6, <1>8 DEF Unwritten
  <2>2. \A x \in Unwritten' : IsTorn(x)' <=> IsTorn(x)
    BY <1>1, <1>9, <2>1 DEF IsTorn, Unwritten, JobType
  <2>3. HasManifest' /\ job'.incremental => \A x \in Unwritten' : ~IsTorn(x)'
    BY <1>1, <1>3, <1>8, <2>1, <2>2 DEF DataInv, ManifestInv, HasManifest
  <2>4. \A x \in manifest.symbols \ (damaged \cup DOMAIN sums) : store'[x] = manifest.sums[x]
    BY <1>6, <1>9 DEF DataInv, ManifestInv, DataTyped
  <2> QED
    BY <1>3, <1>8, <2>3, <2>4 DEF DataInv, ManifestInv
<1> QED
  BY <1>10, <1>12, <1>13, <1>14, <1>16, <1>17 DEF DataInv

LEMMA FinishParquetData ==
  ASSUME DataInv, UNCHANGED platformVars, FinishParquet
  PROVE  DataInv'
<1> DEFINE s == CHOOSE x \in DOMAIN job.sums : IsTorn(x)
<1>1. /\ job \in JobType /\ store \in [Symbols -> Seq(Line)] /\ job.pc = "tearing"
      /\ DOMAIN job.sums \subseteq Symbols /\ DOMAIN job.raw \subseteq Symbols
  BY FilesAre DEF DataInv, DataTyped, FinishParquet, JobType
<1>2. PICK t \in DOMAIN job.sums :
        IsTorn(t) /\ \A x \in DOMAIN job.sums \ {t} : store[x] = job.sums[x]
  BY <1>1 DEF DataInv, WriterInv
<1>3. \A x \in DOMAIN job.sums : Proper(x, job.sums[x]) /\ job.sums[x] # <<Torn>>
  BY ProperReadable DEF DataInv, DataSound
<1>4. s = t
  BY <1>2, <1>3 DEF IsTorn
<1>5. /\ store' = [store EXCEPT ![t] = job.sums[t]] /\ job' = [job EXCEPT !.pc = "write"]
      /\ UNCHANGED <<format, manifest, faults, damaged>>
  BY <1>4 DEF FinishParquet
<1> HIDE DEF s
<1>6. /\ job' = [pc |-> "write", incremental |-> job.incremental, first |-> job.first,
                 last |-> job.last, todo |-> job.todo, raw |-> job.raw,
                 symbols |-> job.symbols, sums |-> job.sums]
  BY <1>1, <1>5 DEF JobType
<1>7. /\ job'.pc = "write" /\ job'.incremental = job.incremental /\ job'.raw = job.raw
      /\ job'.todo = job.todo /\ job'.sums = job.sums /\ job'.symbols = job.symbols
  BY <1>6
<1>8. /\ store' \in [Symbols -> Seq(Line)] /\ store'[t] = job.sums[t]
      /\ \A x \in Symbols : x # t => store'[x] = store[x]
  <2>1. job.sums[t] \in Seq(Line)
    BY <1>3, ProperReadable
  <2> QED
    BY <1>1, <1>5, <2>1
<1>9. PlatformInv' /\ \A x \in Symbols : \A q : Proper(x, q)' <=> Proper(x, q)
  BY ProperSame DEF DataInv
<1>10. DataTyped'
  <2>1. job' \in JobType
    BY <1>1, <1>6 DEF JobType
  <2> QED
    BY <1>5, <1>8, <2>1 DEF DataInv, DataTyped
<1>11. DataSound'
  <2>1. ASSUME NEW x \in Symbols PROVE store'[x] = <<Torn>> \/ Proper(x, store[x])'
    <3>1. store[x] = <<Torn>> \/ Proper(x, store[x])
      BY DEF DataInv, DataSound, IsTorn
    <3> QED
      BY <1>3, <1>8, <1>9, <3>1
  <2>2. \A x \in DOMAIN job.raw : Proper(x, job.raw[x])'
    BY <1>1, <1>7, <1>9 DEF DataInv, DataSound
  <2>3. \A x \in DOMAIN job.sums : Proper(x, job.sums[x])'
    BY <1>1, <1>3, <1>7, <1>9
  <2> QED
    BY <1>7, <2>1, <2>2, <2>3 DEF DataSound, IsTorn
<1>12. FetchedInv'
  BY <1>1, <1>7, <1>8 DEF DataInv, FetchedInv
<1>13. WriterInv'
  BY <1>1, <1>2, <1>7, <1>8 DEF WriterInv
<1>14. ManifestInv'
  <2>1. Unwritten' = Unwritten /\ \A x \in Unwritten : IsTorn(x)' <=> IsTorn(x)
    BY <1>1, <1>7, <1>8 DEF IsTorn, Unwritten, JobType
  <2>2. HasManifest' /\ job'.incremental => \A x \in Unwritten' : ~IsTorn(x)'
    BY <1>1, <1>5, <1>7, <2>1 DEF DataInv, ManifestInv, HasManifest
  <2>3. \A x \in manifest.symbols \ (damaged \cup DOMAIN job.sums) : store'[x] = manifest.sums[x]
    BY <1>8 DEF DataInv, ManifestInv, DataTyped
  <2> QED
    BY <1>5, <1>7, <2>2, <2>3 DEF DataInv, ManifestInv
<1> QED
  BY <1>9, <1>10, <1>11, <1>12, <1>13, <1>14 DEF DataInv

LEMMA CommitManifestData ==
  ASSUME DataInv, UNCHANGED platformVars, CommitManifest
  PROVE  DataInv'
<1>1. /\ job \in JobType /\ job.pc = "write" /\ job.symbols \subseteq DOMAIN job.sums
      /\ job' = NoJob /\ damaged' = damaged \ DOMAIN job.sums /\ UNCHANGED <<format, store, faults>>
  BY DEF DataInv, DataTyped, CommitManifest, Unwritten
<1>2. /\ manifest'.symbols = job.symbols /\ manifest'.sums = job.sums
      /\ manifest'.missing = [s \in job.symbols |->
                                (manifest'.first .. manifest'.last) \ DaysOf(job.sums[s])]
  BY DEF CommitManifest
<1>3. PlatformInv' /\ \A x \in Symbols : \A q : Proper(x, q)' <=> Proper(x, q)
  BY ProperSame DEF DataInv
<1>4. DataTyped'
  BY <1>1, <1>2, NoJobIs DEF DataInv, DataTyped, JobType
<1>5. DataSound'
  <2>1. \A x \in Symbols : IsTorn(x)' \/ Proper(x, store[x])'
    BY <1>1, <1>3 DEF DataInv, DataSound, IsTorn
  <2> QED
    BY <1>1, <2>1, NoJobIs DEF DataSound
<1>6. FetchedInv'
  BY <1>1, NoJobIs DEF FetchedInv
<1>7. WriterInv'
  BY <1>1, NoJobIs DEF WriterInv
<1>8. ManifestInv'
  <2>1. \A s \in DOMAIN job.sums : store[s] = job.sums[s] /\ job.sums[s] # <<Torn>>
    BY <1>1, ProperReadable DEF DataInv, WriterInv, DataSound
  <2>2. \A s \in manifest'.symbols :
          /\ store'[s] = manifest'.sums[s] /\ manifest'.sums[s] # <<Torn>>
          /\ manifest'.missing[s] = (manifest'.first .. manifest'.last) \ DaysOf(manifest'.sums[s])
    BY <1>1, <1>2, <2>1
  <2> QED
    BY <1>1, <2>2, NoJobIs DEF ManifestInv
<1> QED
  BY <1>3, <1>4, <1>5, <1>6, <1>7, <1>8 DEF DataInv

LEMMA NextData == DataInv /\ [Next]_vars => DataInv'
<1> SUFFICES ASSUME DataInv, [Next]_vars PROVE DataInv'
  OBVIOUS
<1>1. CASE UNCHANGED vars
  BY <1>1, DataRests DEF vars
<1>2. CASE Platform
  BY <1>2, DataRests DEF Platform
<1>3. CASE Cron(CollectorNext)
  BY <1>3, DataRests DEF Cron
<1>4. CASE Dataset(DatasetNext)
  <2>1. UNCHANGED platformVars /\ DatasetNext
    BY <1>4 DEF Dataset
  <2>2. CASE StartDownload
    BY <2>1, <2>2, StartData DEF StartDownload
  <2> QED
    BY <2>1, <2>2, FetchDayData, FetchFailsData, BeginWriteData, WriteSymbolData,
       FinishParquetData, TornRaisesData, CommitManifestData, CrashData DEF DatasetNext
<1> QED
  BY <1>1, <1>2, <1>3, <1>4 DEF Next

\* The inductive invariant of the dataset directory.
THEOREM DataInvHolds == Spec => []DataInv
<1>1. Init => DataInv
  BY InitData
<1>2. DataInv /\ [Next]_vars => DataInv'
  BY NextData
<1> QED
  BY <1>1, <1>2, PTL DEF Spec

\* For every universe, calendar and number of crashes: a file that does not match
\* the manifest, or a manifest that misstates the days the file lacks, is the mark
\* of a writer that died between its first file and the manifest (archive.py
\* write, read_manifest).
THEOREM DamageIsInterruptionHolds == Spec => []DamageIsInterruption
<1>1. DataInv => DamageIsInterruption
  <2> SUFFICES ASSUME DataInv, job.pc \notin {"write", "tearing"}
               PROVE  /\ damaged = {} => Verified
                      /\ \A s \in manifest.symbols \ damaged :
                           manifest.missing[s] = (manifest.first .. manifest.last) \ DaysOf(store[s])
    BY DEF DamageIsInterruption
  <2>1. DOMAIN job.sums = {}
    BY DEF DataInv, DataTyped, JobType, WriterInv
  <2>2. \A s \in manifest.symbols \ damaged : store[s] = manifest.sums[s]
    BY <2>1 DEF DataInv, ManifestInv
  <2> QED
    BY <2>2 DEF DataInv, ManifestInv, Verified
<1> QED
  BY <1>1, DataInvHolds, PTL

\* For every platform and whatever was fetched, merged or cut short: what a dataset
\* file holds of a day is one answer of the platform, all bars of the day if it was
\* over when it was asked for and the first of them otherwise (archive.py
\* download_symbol_bars, write, _normalized).
THEOREM DayFromOneAnswerHolds == Spec => []DayFromOneAnswer
<1>1. DataInv => DayFromOneAnswer
  <2> SUFFICES ASSUME DataInv, NEW s \in Symbols, ~IsTorn(s), NEW d \in DaysOf(store[s])
               PROVE  LET rows == {r \in Range(store[s]) : r.day = d}
                      IN \/ d < today /\ rows = Range(Served(s, d, d))
                         \/ \E n \in 1 .. published[s][d] :
                              rows = {[day |-> d, slot |-> k, over |-> FALSE] : k \in 1 .. n}
    BY DEF DayFromOneAnswer
  <2> DEFINE rows == OnDay(store[s], d)
  <2>1. Proper(s, store[s]) /\ PlatformInv
    BY DEF DataInv, DataSound
  <2>2. d \in Days /\ Seen(s, d, rows)
    BY <2>1 DEF Proper
  <2>3. CASE \E n \in 1..published[s][d] : rows = Bars(d, n, FALSE)
    BY <2>3 DEF Bars, OnDay
  <2>4. CASE d < today /\ rows = Bars(d, published[s][d], TRUE)
    <3>1. Range(Served(s, d, d)) = Bars(d, published[s][d], d < today)
      BY <2>1, <2>2, ServedDay
    <3>2. Bars(d, published[s][d], d < today) = Bars(d, published[s][d], TRUE)
      BY <2>4
    <3> QED
      BY <2>4, <3>1, <3>2 DEF OnDay
  <2> QED
    BY <2>2, <2>3, <2>4 DEF Seen
<1> QED
  BY <1>1, DataInvHolds, PTL

-----------------------------------------------------------------------------
(* The collected files *)

FileType == [lines : Seq(Line), open : BOOLEAN, decodes : BOOLEAN]

\* A file holds no two rows of one bar, and something if its last line is cut short.
Tidy(f) == f \in FileType /\ Ordered(f.lines, Apart) /\ (f.open => f.lines # <<>>)

TaskType == {t \in [kind : {"bars", "daily", "snapshot", "merge"}, of : Series] :
               /\ t.kind \in {"bars", "daily"} => t.of \in Symbols
               /\ t.kind = "snapshot" => t.of \in SnapshotLogs}

\* No task twice.
Differ == {p \in TaskType \X TaskType : p[1] # p[2]}

ItemType == [asked : SUBSET Days, missing : SUBSET Days]

RunType == [script : DOMAIN Scripts \cup {"none"}, tasks : Seq(TaskType), rows : Seq(Line),
            next : Int, end : Int,
            items : UNION {[U -> ItemType] : U \in SUBSET Series}, stamp : Nat]

\* A snapshot is filed under the number of its run, so that no two are alike.
FilesInv ==
  /\ \A t \in Trees, s \in Series : Tidy(file[t][s])
  /\ \A t \in Trees, s \in SnapshotLogs : \A r \in Range(file[t][s].lines) : r.day <= runs

\* What the running script has fetched are rows of different bars, before the day
\* it asks for next; its tasks are different.
RunInv ==
  /\ run.script = "none" => run.tasks = <<>>
  /\ Ordered(run.tasks, Differ) /\ Ordered(run.rows, Apart)
  /\ \A r \in Range(run.rows) : r # Bad /\ r.day < run.next
  /\ \A i \in DOMAIN run.tasks :
       run.tasks[i].kind = "merge" <=> run.script = "merge_missing_data_archive"

\* The run's own snapshot is not yet in the logs it still has to write.
StampInv ==
  /\ run.stamp <= runs
  /\ \A i \in DOMAIN run.tasks : run.tasks[i].kind = "snapshot" =>
       \A r \in Range(file[Plan.tree][run.tasks[i].of].lines) : r.day < run.stamp

CronTyped == /\ file \in [Trees -> [Series -> FileType]] /\ run \in RunType
             /\ runs \in Nat /\ failures \in Nat

CronInv == CronTyped /\ FilesInv /\ RunInv /\ StampInv

LEMMA RangeFinite ==
  ASSUME NEW E, NEW q \in Seq(E)
  PROVE  IsFiniteSet(Range(q))
<1>1. IsFiniteSet(1..Len(q)) /\ DOMAIN q = 1..Len(q)
  BY FS_Interval
<1>2. q \in [1..Len(q) -> Range(q)]
  BY DEF Range
<1>3. q \in Surjection(1..Len(q), Range(q))
  BY <1>1, <1>2 DEF Surjection, Range
<1> QED
  BY <1>1, <1>3, FS_Surjection

\* What can be read of a file: its lines but those that were cut short.
LEMMA ParsedIs ==
  ASSUME NEW f \in FileType
  PROVE  /\ Parsed(f) \in Seq(Line) /\ Range(Parsed(f)) = Range(f.lines) \ {Bad}
         /\ KeysOf(Parsed(f)) = {Key(r) : r \in Range(f.lines) \ {Bad}}
         /\ Ordered(f.lines, Apart) => Ordered(Parsed(f), Apart)
<1> DEFINE q == f.lines
           S == {i \in DOMAIN q : q[i] # Bad}
<1>1. q \in Seq(Line) /\ Parsed(f) = Picked(q, S)
  BY DEF FileType, Parsed
<1>2. {q[i] : i \in S \cap DOMAIN q} = Range(q) \ {Bad}
  BY DEF Range
<1> HIDE DEF q, S
<1>3. Picked(q, S) \in Seq(Line) /\ Range(Picked(q, S)) = Range(q) \ {Bad}
  BY <1>1, <1>2, PickedRange
<1>4. Ordered(q, Apart) => Ordered(Picked(q, S), Apart)
  BY <1>1, PickedOrdered
<1> QED
  BY <1>1, <1>3, <1>4, KeysAre DEF q

\* The rows a collector writes: those of bars the file does not have.
LEMMA NewRowsAre ==
  ASSUME NEW f \in FileType, NEW rows \in Seq(Line)
  PROVE  /\ NewRows(f, rows) \in Seq(Line)
         /\ Range(NewRows(f, rows)) = {r \in Range(rows) : Key(r) \notin KeysOf(Parsed(f))}
         /\ Ordered(rows, Apart) => Ordered(NewRows(f, rows), Apart)
<1> DEFINE S == {i \in DOMAIN rows : Key(rows[i]) \notin KeysOf(Parsed(f))}
<1>1. NewRows(f, rows) = Picked(rows, S)
  BY DEF NewRows
<1>2. {rows[i] : i \in S \cap DOMAIN rows} = {r \in Range(rows) : Key(r) \notin KeysOf(Parsed(f))}
  BY DEF Range
<1> HIDE DEF S
<1>3. Picked(rows, S) \in Seq(Line) /\ Range(Picked(rows, S)) = {rows[i] : i \in S \cap DOMAIN rows}
  BY PickedRange
<1>4. Ordered(rows, Apart) => Ordered(Picked(rows, S), Apart)
  BY PickedOrdered
<1> QED
  BY <1>1, <1>2, <1>3, <1>4

LEMMA BadLine == Bad \in Line /\ \A x \in Line : <<x, Bad>> \in Apart /\ <<Bad, x>> \in Apart
<1>1. Bad \in Line
  BY DEF Bad, Line
<1> QED
  BY <1>1 DEF Apart

\* A record that was cut short, behind rows.
LEMMA BadBehind ==
  ASSUME NEW a \in Seq(Line), Ordered(a, Apart)
  PROVE  LET p == a \o <<Bad>>
         IN  p \in Seq(Line) /\ Ordered(p, Apart) /\ Range(p) = Range(a) \cup {Bad}
<1> DEFINE c == <<Bad>>
           p == a \o c
<1>1. c \in Seq(Line) /\ Range(c) = {Bad} /\ Ordered(c, Apart)
  BY BadLine DEF Range, Ordered
<1> HIDE DEF c
<1>2. Range(a) \subseteq Line
  BY RangeTypes
<1>3. p \in Seq(Line) /\ Range(p) = Range(a) \cup {Bad}
  BY <1>1, JoinRange
<1>4. \A x \in Range(a), y \in Range(c) : <<x, y>> \in Apart
  BY <1>1, <1>2, BadLine
<1>5. Ordered(p, Apart)
  BY <1>1, <1>4, OrderedJoin
<1> QED
  BY <1>3, <1>5 DEF c

\* The record behind it, on the same line, and more rows.
LEMMA BadBetween ==
  ASSUME NEW a \in Seq(Line), NEW b \in Seq(Line), Ordered(a, Apart), Ordered(b, Apart),
         \A x \in Range(a), y \in Range(b) : <<x, y>> \in Apart
  PROVE  LET q == a \o <<Bad>> \o b
         IN  q \in Seq(Line) /\ Ordered(q, Apart) /\ Range(q) = Range(a) \cup {Bad} \cup Range(b)
<1> DEFINE p == a \o <<Bad>>
<1>2. Range(a) \subseteq Line /\ Range(b) \subseteq Line
  BY RangeTypes
<1>3. p \in Seq(Line) /\ Ordered(p, Apart) /\ Range(p) = Range(a) \cup {Bad}
  BY BadBehind
<1>6. \A x \in Range(p), y \in Range(b) : <<x, y>> \in Apart
  BY <1>2, <1>3, BadLine
<1> HIDE DEF p
<1>7. p \o b \in Seq(Line) /\ Range(p \o b) = Range(p) \cup Range(b) /\ Ordered(p \o b, Apart)
  BY <1>3, <1>6, JoinRange, OrderedJoin
<1> QED
  BY <1>3, <1>7 DEF p

\* A file without its last line, and rows without the first.
LEMMA FrontTail ==
  ASSUME NEW q \in Seq(Line), Ordered(q, Apart), q # <<>>
  PROVE  /\ Front(q) \in Seq(Line) /\ Range(Front(q)) \subseteq Range(q) /\ Ordered(Front(q), Apart)
         /\ Tail(q) \in Seq(Line) /\ Range(Tail(q)) \subseteq Range(q) /\ Ordered(Tail(q), Apart)
<1>1. Len(q) \in Nat \ {0} /\ DOMAIN q = 1..Len(q)
  OBVIOUS
<1>2. Front(q) \in Seq(Line) /\ Range(Front(q)) \subseteq Range(q) /\ Ordered(Front(q), Apart)
  <2>1. Front(q) = SubSeq(q, 1, Len(q) - 1)
    BY DEF Front
  <2>2. 1 \in 1..(Len(q) + 1) /\ Len(q) - 1 \in 0..Len(q)
    BY <1>1
  <2> QED
    BY <2>1, <2>2, OrderedPart
<1>3. /\ Tail(q) \in Seq(Line) /\ Len(Tail(q)) = Len(q) - 1
      /\ \A i \in 1..(Len(q) - 1) : Tail(q)[i] = q[i + 1]
  OBVIOUS
<1>4. Range(Tail(q)) \subseteq Range(q)
  BY <1>1, <1>3 DEF Range
<1>5. Ordered(Tail(q), Apart)
  BY <1>1, <1>3 DEF Ordered
<1> QED
  BY <1>2, <1>3, <1>4, <1>5

\* The records that reached the disk.
LEMMA PrefixIs ==
  ASSUME NEW q \in Seq(Line), Ordered(q, Apart), NEW n \in 0..Len(q)
  PROVE  /\ SubSeq(q, 1, n) \in Seq(Line) /\ Range(SubSeq(q, 1, n)) \subseteq Range(q)
         /\ Ordered(SubSeq(q, 1, n), Apart)
<1>1. 1 \in 1..(Len(q) + 1)
  OBVIOUS
<1> QED
  BY <1>1, OrderedPart

\* Appending rows of new bars leaves a tidy file. Nothing is lost of a file whose
\* last line is whole.
LEMMA AppendedIs ==
  ASSUME NEW f, Tidy(f), NEW rows \in Seq(Line), Ordered(rows, Apart),
         \A r \in Range(rows) : Key(r) \notin KeysOf(Parsed(f))
  PROVE  /\ Tidy(Appended(f, rows))
         /\ Range(Appended(f, rows).lines) \subseteq Range(f.lines) \cup {Bad} \cup Range(rows)
         /\ rows # <<>> => Appended(f, rows).lines # <<>>
         /\ ~f.open => Range(Appended(f, rows).lines) = Range(f.lines) \cup Range(rows)
<1> DEFINE q == f.lines
           g == Appended(f, rows)
<1>1. q \in Seq(Line) /\ Ordered(q, Apart) /\ (f.open => q # <<>>) /\ f \in FileType
      /\ f.open \in BOOLEAN /\ f.decodes \in BOOLEAN
  BY DEF Tidy, FileType
<1>2. Range(rows) \subseteq Line /\ Range(q) \subseteq Line
  BY <1>1, RangeTypes
<1>3. \A x \in Range(q), y \in Range(rows) : <<x, y>> \in Apart
  <2> SUFFICES ASSUME NEW x \in Range(q), NEW y \in Range(rows), x # Bad PROVE <<x, y>> \in Apart
    BY <1>2, BadLine
  <2>1. Key(x) \in KeysOf(Parsed(f))
    BY <1>1, ParsedIs
  <2> QED
    BY <1>2, <2>1 DEF Apart
<1>4. CASE f.open /\ rows # <<>>
  <2> DEFINE a == Front(q)
             b == Tail(rows)
  <2>1. g = [lines |-> a \o <<Bad>> \o b, open |-> FALSE, decodes |-> f.decodes]
    BY <1>4 DEF Appended
  <2>2. /\ a \in Seq(Line) /\ Range(a) \subseteq Range(q) /\ Ordered(a, Apart)
        /\ b \in Seq(Line) /\ Range(b) \subseteq Range(rows) /\ Ordered(b, Apart)
    BY <1>1, <1>4, FrontTail
  <2>3. \A x \in Range(a), y \in Range(b) : <<x, y>> \in Apart
    BY <1>3, <2>2
  <2> HIDE DEF a, b
  <2> DEFINE p == a \o <<Bad>> \o b
  <2>4. p \in Seq(Line) /\ Ordered(p, Apart) /\ Range(p) = Range(a) \cup {Bad} \cup Range(b)
    BY <2>2, <2>3, BadBetween
  <2> HIDE DEF p
  <2>5. p # <<>>
    <3>1. Range(<<>>) = {}
      BY DEF Range
    <3> QED
      BY <2>4, <3>1
  <2>6. g = [lines |-> p, open |-> FALSE, decodes |-> f.decodes]
    BY <2>1 DEF p
  <2> HIDE DEF g
  <2>7. g.lines = p /\ g.open = FALSE /\ g \in FileType
    BY <1>1, <2>4, <2>6 DEF FileType
  <2>8. Tidy(g)
    BY <2>4, <2>7 DEF Tidy
  <2>9. Range(g.lines) \subseteq Range(q) \cup {Bad} \cup Range(rows)
    BY <2>2, <2>4, <2>7
  <2> QED
    BY <1>4, <2>5, <2>7, <2>8, <2>9 DEF g
<1>5. CASE ~(f.open /\ rows # <<>>)
  <2> DEFINE p == q \o rows
  <2>1. p \in Seq(Line) /\ Range(p) = Range(q) \cup Range(rows) /\ Ordered(p, Apart)
    BY <1>1, <1>3, JoinRange, OrderedJoin
  <2>2. (q # <<>> \/ rows # <<>>) => p # <<>>
    BY <1>1
  <2> HIDE DEF p
  <2>3. g.lines = p /\ g = [lines |-> p, open |-> g.open, decodes |-> f.decodes] /\ (g.open <=> f.open /\ rows = <<>>)
    BY <1>5 DEF Appended, p
  <2>4. g.open \in BOOLEAN
    BY DEF Appended
  <2> HIDE DEF g
  <2>5. g \in FileType
    BY <1>1, <2>1, <2>3, <2>4 DEF FileType
  <2>6. Tidy(g)
    BY <1>1, <2>1, <2>2, <2>3, <2>5 DEF Tidy
  <2> QED
    BY <2>1, <2>2, <2>3, <2>6 DEF g
<1> QED
  BY <1>4, <1>5

\* A writer that dies leaves a tidy file, too.
LEMMA CutIs ==
  ASSUME NEW f, Tidy(f), NEW rows \in Seq(Line), Ordered(rows, Apart),
         \A r \in Range(rows) : Key(r) \notin KeysOf(Parsed(f)),
         NEW how \in {"whole", "torn", "garbled", "no newline"}
  PROVE  /\ Tidy(Cut(f, rows, how))
         /\ Range(Cut(f, rows, how).lines) \subseteq Range(f.lines) \cup {Bad} \cup Range(rows)
<1> DEFINE g == Appended(f, rows)
           c == Cut(f, rows, how)
<1>1. Tidy(g) /\ Range(g.lines) \subseteq Range(f.lines) \cup {Bad} \cup Range(rows)
      /\ (rows # <<>> => g.lines # <<>>)
  BY AppendedIs
<1>2. CASE rows = <<>>
  BY <1>2 DEF Cut
<1>3. CASE rows # <<>>
  <2> DEFINE p == IF how \in {"torn", "garbled"} THEN Front(g.lines) \o <<Bad>> ELSE g.lines
             good == f.decodes /\ how # "garbled"
  <2>1. c = [lines |-> p, open |-> how # "whole", decodes |-> good]
    BY <1>3 DEF Cut
  <2> HIDE DEF g
  <2>2. g.lines \in Seq(Line) /\ Ordered(g.lines, Apart) /\ g.lines # <<>>
    BY <1>1, <1>3 DEF Tidy, FileType
  <2>3. p \in Seq(Line) /\ Ordered(p, Apart) /\ p # <<>> /\ Range(p) \subseteq Range(g.lines) \cup {Bad}
    <3>1. CASE how \notin {"torn", "garbled"}
      BY <2>2, <3>1
    <3>2. CASE how \in {"torn", "garbled"}
      <4> DEFINE a == Front(g.lines)
                 b == a \o <<Bad>>
      <4>1. a \in Seq(Line) /\ Ordered(a, Apart) /\ Range(a) \subseteq Range(g.lines)
        BY <2>2, FrontTail
      <4> HIDE DEF a
      <4>2. b \in Seq(Line) /\ Ordered(b, Apart) /\ Range(b) = Range(a) \cup {Bad}
        BY <4>1, BadBehind
      <4>3. p = b
        BY <3>2 DEF a
      <4> HIDE DEF b, p
      <4>4. b # <<>>
        BY <4>2, ProperEmpty
      <4> QED
        BY <4>1, <4>2, <4>3, <4>4
    <3> QED
      BY <3>1, <3>2
  <2>4. (how # "whole") \in BOOLEAN /\ good \in BOOLEAN
    OBVIOUS
  <2> HIDE DEF p, c, good
  <2>5. c \in FileType /\ c.lines = p
    BY <2>1, <2>3, <2>4 DEF FileType
  <2>6. Tidy(c)
    BY <2>3, <2>5 DEF Tidy
  <2> QED
    BY <1>1, <2>3, <2>5, <2>6 DEF c
<1> QED
  BY <1>2, <1>3

\* The rows of a file that another one still has: all but that of an open line.
RowsKept(f, g) ==
  \A r \in Range(f.lines) : r \in Range(g.lines) \/ r = Bad \/ (f.open /\ r = Last(f.lines))

LEMMA RangeFacts ==
  ASSUME NEW S, NEW q \in Seq(S)
  PROVE  /\ \A i \in 1..Len(q) : q[i] \in Range(q)
         /\ \A r \in Range(q) : \E i \in 1..Len(q) : r = q[i]
BY DEF Range

LEMMA LenNat == \A S : \A q \in Seq(S) : Len(q) \in Nat
OBVIOUS

LEMMA EmptyBehind == \A S : \A q \in Seq(S) : q \o <<>> = q
OBVIOUS

LEMMA BeforeLast ==
  ASSUME NEW n \in Nat, NEW i \in 1..n
  PROVE  /\ i # n => i < n
         /\ i < n => n > 0 /\ i \in 1..(n - 1)
OBVIOUS

\* Where the elements of two sequences are in the one that joins them.
LEMMA JoinPlaces ==
  ASSUME NEW S, NEW a \in Seq(S), NEW b \in Seq(S)
  PROVE  /\ a \o b \in Seq(S) /\ Len(a \o b) = Len(a) + Len(b)
         /\ \A i \in 1..Len(a) : (a \o b)[i] = a[i]
         /\ \A i \in 1..Len(b) : (a \o b)[Len(a) + i] = b[i]
OBVIOUS

\* All but the last element of a sequence, with another one behind them.
LEMMA FrontPlaces ==
  ASSUME NEW S, NEW a \in Seq(S), NEW e \in S, Len(a) > 0
  PROVE  /\ Front(a) \o <<e>> \in Seq(S) /\ Len(Front(a) \o <<e>>) = Len(a)
         /\ \A i \in 1..(Len(a) - 1) : (Front(a) \o <<e>>)[i] = a[i]
<1> DEFINE f == SubSeq(a, 1, Len(a) - 1)
           b == <<e>>
<1>1. Len(a) \in Nat /\ Front(a) = f
  BY DEF Front
<1>2. f \in Seq(S) /\ Len(f) = Len(a) - 1 /\ \A i \in 1..(Len(a) - 1) : f[i] = a[i]
  <2>1. Len(a) - 1 \in Nat /\ \A i \in 1..(Len(a) - 1) : a[i] \in S
    BY <1>1
  <2>2. f = [i \in 1..(Len(a) - 1) |-> a[i]]
    BY <2>1
  <2> HIDE DEF f
  <2>3. Len(f) = Len(a) - 1 /\ f \in Seq(S)
    BY <2>1, <2>2
  <2> QED
    BY <2>2, <2>3
<1>3. b \in Seq(S) /\ Len(b) = 1
  OBVIOUS
<1> HIDE DEF f, b
<1>4. /\ f \o b \in Seq(S) /\ Len(f \o b) = Len(f) + Len(b)
      /\ \A i \in 1..Len(f) : (f \o b)[i] = f[i]
  BY <1>2, <1>3, JoinPlaces
<1>5. Front(a) \o <<e>> = f \o b
  BY <1>1 DEF b
<1> QED
  BY <1>1, <1>2, <1>3, <1>4, <1>5

\* Every line of a file but an open one stays where it is, with others behind it.
LEMMA AppendedPlaces ==
  ASSUME NEW f, Tidy(f), NEW rows \in Seq(Line), rows # <<>>,
         NEW i \in 1..Len(f.lines), i < Len(f.lines) \/ ~f.open
  PROVE  /\ i \in 1..Len(Appended(f, rows).lines) /\ Appended(f, rows).lines[i] = f.lines[i]
         /\ i < Len(Appended(f, rows).lines)
<1> DEFINE q == f.lines
           p == Appended(f, rows).lines
           c == Front(q) \o <<Bad>>
           b == Tail(rows)
<1>1. /\ q \in Seq(Line) /\ Len(q) \in Nat /\ Len(rows) \in Nat /\ Len(rows) > 0
      /\ i \in Nat /\ i >= 1 /\ i <= Len(q)
  BY DEF Tidy, FileType
<1>2. CASE f.open
  <2>1. p = c \o b
    BY <1>2 DEF Appended
  <2>2. c \in Seq(Line) /\ Len(c) = Len(q) /\ \A k \in 1..(Len(q) - 1) : c[k] = q[k]
    BY <1>1, BadLine, FrontPlaces
  <2>3. b \in Seq(Line) /\ Len(b) \in Nat
    BY <1>1
  <2> HIDE DEF b, c, p, q
  <2>4. Len(p) = Len(c) + Len(b) /\ \A k \in 1..Len(c) : p[k] = c[k]
    BY <2>1, <2>2, <2>3, JoinPlaces
  <2>5. i < Len(q)
    BY <1>2 DEF q
  <2>6. i < Len(q) /\ Len(q) <= Len(p) /\ i \in 1..(Len(q) - 1) /\ i \in 1..Len(c)
    BY <1>1, <2>2, <2>3, <2>4, <2>5
  <2>7. p[i] = q[i] /\ Len(p) \in Nat
    BY <1>1, <2>2, <2>3, <2>4, <2>6
  <2>8. i \in 1..Len(p) /\ i < Len(p)
    BY <1>1, <2>6, <2>7
  <2> QED
    BY <2>7, <2>8 DEF p, q
<1>3. CASE ~f.open
  <2>1. p = q \o rows
    BY <1>3 DEF Appended
  <2> HIDE DEF p, q
  <2>2. Len(p) = Len(q) + Len(rows) /\ \A k \in 1..Len(q) : p[k] = q[k]
    BY <1>1, <2>1, JoinPlaces
  <2>3. i \in 1..Len(p) /\ i < Len(p) /\ i \in 1..Len(q)
    BY <1>1, <2>2
  <2> QED
    BY <2>2, <2>3 DEF p, q
<1> QED
  BY <1>2, <1>3

\* A collector loses no row of a file but that of an open line, wherever it dies.
LEMMA AppendKeeps ==
  ASSUME NEW f, Tidy(f), NEW rows \in Seq(Line), Ordered(rows, Apart),
         \A r \in Range(rows) : Key(r) \notin KeysOf(Parsed(f)),
         NEW how \in {"whole", "torn", "garbled", "no newline"}
  PROVE  RowsKept(f, Appended(f, rows)) /\ RowsKept(f, Cut(f, rows, how))
<1> DEFINE q == f.lines
           g == Appended(f, rows).lines
<1>1. q \in Seq(Line) /\ f.open \in BOOLEAN /\ g \in Seq(Line) /\ Len(q) \in Nat /\ Len(g) \in Nat
  <2>1. Tidy(Appended(f, rows))
    BY AppendedIs
  <2>2. q \in Seq(Line) /\ f.open \in BOOLEAN /\ g \in Seq(Line)
    BY <2>1 DEF Tidy, FileType
  <2>3. Len(q) \in Nat /\ Len(g) \in Nat
    BY <2>2, LenNat
  <2> QED
    BY <2>2, <2>3
<1>2. CASE rows = <<>>
  <2>1. g = q \o <<>>
    BY <1>2 DEF Appended
  <2> HIDE DEF g, q
  <2>2. g = q
    BY <1>1, <2>1, EmptyBehind
  <2>3. Cut(f, rows, how) = f
    BY <1>2 DEF Cut
  <2> QED
    BY <2>2, <2>3 DEF RowsKept, g, q
<1>3. CASE rows # <<>>
  <2> DEFINE c == Cut(f, rows, how).lines
             e == Front(g) \o <<Bad>>
  <2>1. c = IF how \in {"torn", "garbled"} THEN e ELSE g
    BY <1>3 DEF Cut
  <2> SUFFICES ASSUME NEW i \in 1..Len(q), ~(f.open /\ q[i] = Last(q))
               PROVE  q[i] \in Range(g) /\ q[i] \in Range(c)
    <3>1. \A r \in Range(q) : \E i \in 1..Len(q) : r = q[i]
      BY <1>1, RangeFacts
    <3> HIDE DEF q, g, c
    <3> QED
      BY <3>1 DEF RowsKept, q, g, c
  <2>2. i < Len(q) \/ ~f.open
    <3>1. i = Len(q) => q[i] = Last(q)
      BY DEF Last
    <3>2. i # Len(q) => i < Len(q)
      BY <1>1, BeforeLast
    <3> QED
      BY <3>1, <3>2
  <2>3. i \in 1..Len(g) /\ g[i] = q[i] /\ i < Len(g)
    BY <1>3, <2>2, AppendedPlaces
  <2> HIDE DEF g, c, e, q
  <2>4. q[i] \in Range(g)
    BY <1>1, <2>3, RangeFacts
  <2>5. CASE how \in {"torn", "garbled"}
    <3>1. Len(g) > 0 /\ i \in 1..(Len(g) - 1)
      BY <1>1, <2>3, BeforeLast
    <3>2. e \in Seq(Line) /\ Len(e) = Len(g) /\ \A k \in 1..(Len(g) - 1) : e[k] = g[k]
      BY <1>1, <3>1, BadLine, FrontPlaces DEF e
    <3>3. i \in 1..Len(e) /\ e[i] = q[i]
      BY <2>3, <3>1, <3>2
    <3>4. q[i] \in Range(e)
      BY <3>2, <3>3, RangeFacts
    <3> QED
      BY <2>1, <2>4, <2>5, <3>4
  <2>6. CASE how \notin {"torn", "garbled"}
    BY <2>1, <2>4, <2>6
  <2> QED
    BY <2>5, <2>6
<1> QED
  BY <1>2, <1>3

\* The canonical rows and the others that are of new bars, in one order.
LEMMA MergedSeries ==
  ASSUME NEW s \in Series, Tidy(file["archive"][s]), Tidy(file["missing"][s])
  PROVE  /\ Merged(s) \in Seq(Line) /\ Ordered(Merged(s), Apart) /\ Bad \notin Range(Merged(s))
         /\ Range(Parsed(file["archive"][s])) \subseteq Range(Merged(s))
         /\ Range(Merged(s)) \subseteq Range(file["archive"][s].lines) \cup Range(file["missing"][s].lines)
<1> DEFINE f == file["archive"][s]
           g == file["missing"][s]
           a == Parsed(f)
           b == NewRows(f, Parsed(g))
           S == Range(a) \cup Range(b)
<1>1. f \in FileType /\ g \in FileType /\ Ordered(f.lines, Apart) /\ Ordered(g.lines, Apart)
  BY DEF Tidy
<1>2. /\ a \in Seq(Line) /\ Ordered(a, Apart) /\ Range(a) = Range(f.lines) \ {Bad}
      /\ Parsed(g) \in Seq(Line) /\ Ordered(Parsed(g), Apart) /\ Range(Parsed(g)) = Range(g.lines) \ {Bad}
  BY <1>1, ParsedIs
<1>3. /\ b \in Seq(Line) /\ Ordered(b, Apart)
      /\ Range(b) = {r \in Range(Parsed(g)) : Key(r) \notin KeysOf(a)}
  BY <1>1, <1>2, NewRowsAre
<1>4. Merged(s) = Sorted(S)
  BY DEF Merged
<1> HIDE DEF f, g, a, b
<1>5. S \in SUBSET Line /\ IsFiniteSet(S)
  <2>1. Range(a) \subseteq Line /\ Range(b) \subseteq Line
    BY <1>2, <1>3, RangeTypes
  <2>2. IsFiniteSet(Range(a)) /\ IsFiniteSet(Range(b))
    BY <1>2, <1>3, RangeFinite
  <2> QED
    BY <2>1, <2>2, FS_Union
<1>6. ASSUME NEW q \in Seq(Line), Ordered(q, Apart), Bad \notin Range(q)
      PROVE  \A x, y \in Range(q) : Key(x) = Key(y) => x = y
  <2>1. \A i, j \in 1..Len(q) : Key(q[i]) = Key(q[j]) => i = j
    BY <1>6, ApartRows
  <2> QED
    BY <2>1 DEF Range
<1>7. \A x, y \in S : Key(x) = Key(y) => x = y
  <2>1. \A x, y \in Range(a) : Key(x) = Key(y) => x = y
    BY <1>2, <1>6
  <2>2. \A x, y \in Range(b) : Key(x) = Key(y) => x = y
    BY <1>2, <1>3, <1>6
  <2>3. \A x \in Range(a), y \in Range(b) : Key(x) # Key(y)
    BY <1>3, KeysAre
  <2> QED
    BY <2>1, <2>2, <2>3
<1> DEFINE m == Sorted(S)
<1> HIDE DEF S
<1>8. m \in Seq(S) /\ Range(m) = S /\ Ordered(m, Apart)
  BY <1>5, <1>7, SortedIs
<1>9. m \in Seq(Line)
  BY <1>5, <1>8
<1> HIDE DEF m
<1> QED
  BY <1>2, <1>3, <1>4, <1>8, <1>9 DEF S, m, f, g, a

\* Every rank among numbers is taken.
LEMMA RankedNumbers ==
  ASSUME NEW S \in SUBSET Int, IsFiniteSet(S)
  PROVE  \A i \in 1..Cardinality(S) : \E x \in S : Cardinality({y \in S : y < x}) = i - 1
<1> DEFINE T == S
           R == {p \in T \X T : p[1] < p[2]}
<1>1. \A x, y \in T : <<x, y>> \in R <=> x < y
  OBVIOUS
<1>2. T = S /\ IsFiniteSet(T) /\ \A x \in T : x \in Int
  OBVIOUS
<1> HIDE DEF R, T
<1>3. \A x \in T : <<x, x>> \notin R
  BY <1>1, <1>2
<1>4. \A x, y, z \in T : <<x, y>> \in R /\ <<y, z>> \in R => <<x, z>> \in R
  BY <1>1, <1>2
<1>5. \A x, y \in T : x # y => <<x, y>> \in R \/ <<y, x>> \in R
  BY <1>1, <1>2
<1>6. IsFiniteSet(T)
  BY <1>2
<1>7. /\ \A x \in T : Cardinality(Below(T, R, x)) \in 0..(Cardinality(T) - 1)
      /\ \A x, y \in T : Cardinality(Below(T, R, x)) = Cardinality(Below(T, R, y)) => x = y
      /\ \A i \in 1..Cardinality(T) : \E x \in T : Cardinality(Below(T, R, x)) = i - 1
  BY <1>3, <1>4, <1>5, <1>6, Ranked
<1>8. \A x \in T : Below(T, R, x) = {y \in T : y < x}
  BY <1>1 DEF Below
<1> QED
  BY <1>2, <1>7, <1>8

\* A script has one task of a kind for each of its series, in their order.
LEMMA TasksOnAre ==
  ASSUME NEW kind, NEW S \in SUBSET Int, IsFiniteSet(S),
         \A s \in S : [kind |-> kind, of |-> s] \in TaskType
  PROVE  /\ TasksOn(kind, S) \in Seq(TaskType) /\ Ordered(TasksOn(kind, S), Differ)
         /\ \A t \in Range(TasksOn(kind, S)) : t.kind = kind
<1> DEFINE n == Cardinality(S)
           rank(s) == Cardinality({q \in S : q < s})
           At(i) == CHOOSE s \in S : rank(s) = i - 1
           tasks == TasksOn(kind, S)
<1>1. \A i \in 1..n : \E x \in S : rank(x) = i - 1
  BY RankedNumbers
<1>2. n \in Nat
  BY FS_CardinalityType
<1>3. tasks = [i \in 1..n |-> [kind |-> kind, of |-> At(i)]]
  BY DEF TasksOn
<1> HIDE DEF rank, n
<1>4. \A i \in 1..n : At(i) \in S /\ rank(At(i)) = i - 1
  BY <1>1
<1> HIDE DEF At, tasks
<1>5. \A i \in 1..n : [kind |-> kind, of |-> At(i)] \in TaskType
  BY <1>4
<1>6. tasks \in Seq(TaskType) /\ Len(tasks) = n /\ DOMAIN tasks = 1..n
      /\ \A i \in 1..n : tasks[i] = [kind |-> kind, of |-> At(i)]
  BY <1>2, <1>3, <1>5
<1>7. Ordered(tasks, Differ)
  <2> SUFFICES ASSUME NEW i \in 1..n, NEW j \in 1..n, i < j PROVE <<tasks[i], tasks[j]>> \in Differ
    BY <1>6 DEF Ordered
  <2>1. i - 1 # j - 1
    BY <1>2
  <2>2. tasks[i].of # tasks[j].of
    BY <1>4, <1>6, <2>1
  <2> QED
    BY <1>5, <1>6, <2>2 DEF Differ
<1>8. \A t \in Range(tasks) : t.kind = kind
  BY <1>6 DEF Range
<1> QED
  BY <1>6, <1>7, <1>8 DEF tasks

\* Tasks of different kinds follow one another.
LEMMA TasksJoin ==
  ASSUME NEW a \in Seq(TaskType), NEW b \in Seq(TaskType), Ordered(a, Differ), Ordered(b, Differ),
         \A x \in Range(a), y \in Range(b) : x.kind # y.kind
  PROVE  a \o b \in Seq(TaskType) /\ Ordered(a \o b, Differ) /\ Range(a \o b) = Range(a) \cup Range(b)
<1>1. Range(a) \subseteq TaskType /\ Range(b) \subseteq TaskType
  BY RangeTypes
<1>2. \A x \in Range(a), y \in Range(b) : <<x, y>> \in Differ
  BY <1>1 DEF Differ
<1> QED
  BY <1>2, JoinRange, OrderedJoin

\* What every script of fetch_data is made of.
LEMMA ScriptsAre ==
  ASSUME NEW script \in DOMAIN Scripts
  PROVE  /\ Scripts[script].tree \in Trees /\ Scripts[script].tasks \in Seq(TaskType)
         /\ Scripts[script].days \in Int /\ Scripts[script].ime \in Int
         /\ Ordered(Scripts[script].tasks, Differ)
         /\ \A t \in Range(Scripts[script].tasks) :
              t.kind = "merge" <=> script = "merge_missing_data_archive"
         /\ script = "collect_data" => Scripts[script].tree = "archive"
         /\ script = "merge_missing_data_archive" => Scripts[script].tree = "archive"
<1>1. /\ Symbols \subseteq Int /\ IsFiniteSet(Symbols) /\ SnapshotLogs \subseteq Int
      /\ IsFiniteSet(SnapshotLogs) /\ Contracts \subseteq Symbols /\ NumDays \in Int
      /\ Days30 \in Int /\ Days3 \in Int
  BY BarAssumption, CollectorAssumption
<1>2. IsFiniteSet(Contracts) /\ IsFiniteSet(Symbols \ Contracts) /\ IsFiniteSet(Series)
  BY <1>1, FS_Subset, FS_Union DEF Series
<1>3. /\ Funds \in Seq(TaskType) /\ Ordered(Funds, Differ) /\ \A t \in Range(Funds) : t.kind = "bars"
  <2>1. \A s \in Symbols \ Contracts : [kind |-> "bars", of |-> s] \in TaskType
    BY DEF TaskType, Series
  <2> QED
    BY <1>1, <1>2, <2>1, TasksOnAre DEF Funds
<1>4. /\ Dailies \in Seq(TaskType) /\ Ordered(Dailies, Differ)
      /\ \A t \in Range(Dailies) : t.kind = "daily"
  <2>1. \A s \in Contracts : [kind |-> "daily", of |-> s] \in TaskType
    BY <1>1 DEF TaskType, Series
  <2>2. Contracts \in SUBSET Int
    BY <1>1
  <2> QED
    BY <1>2, <2>1, <2>2, TasksOnAre DEF Dailies
<1>5. /\ Snapshots \in Seq(TaskType) /\ Ordered(Snapshots, Differ)
      /\ \A t \in Range(Snapshots) : t.kind = "snapshot"
  <2>1. \A s \in SnapshotLogs : [kind |-> "snapshot", of |-> s] \in TaskType
    BY DEF TaskType, Series
  <2> QED
    BY <1>1, <2>1, TasksOnAre DEF Snapshots
<1> DEFINE merges == TasksOn("merge", Series)
<1>6. /\ merges \in Seq(TaskType) /\ Ordered(merges, Differ) /\ \A t \in Range(merges) : t.kind = "merge"
  <2>1. \A s \in Series : [kind |-> "merge", of |-> s] \in TaskType
    BY DEF TaskType
  <2>2. Series \in SUBSET Int
    BY <1>1 DEF Series
  <2> QED
    BY <1>2, <2>1, <2>2, TasksOnAre
<1> HIDE DEF merges
<1> DEFINE fs == Funds \o Snapshots
           fsd == Funds \o Snapshots \o Dailies
           ds == Dailies \o Snapshots
           dsf == Dailies \o Snapshots \o Funds
<1>7. fs \in Seq(TaskType) /\ Ordered(fs, Differ) /\ Range(fs) = Range(Funds) \cup Range(Snapshots)
  BY <1>3, <1>5, TasksJoin
<1>8. ds \in Seq(TaskType) /\ Ordered(ds, Differ) /\ Range(ds) = Range(Dailies) \cup Range(Snapshots)
  BY <1>4, <1>5, TasksJoin
<1> HIDE DEF fs, ds
<1>9. fsd \in Seq(TaskType) /\ Ordered(fsd, Differ) /\ \A t \in Range(fsd) : t.kind # "merge"
  <2>1. fsd = fs \o Dailies
    BY DEF fs
  <2>2. \A x \in Range(fs), y \in Range(Dailies) : x.kind # y.kind
    BY <1>3, <1>4, <1>5, <1>7
  <2>3. /\ fs \o Dailies \in Seq(TaskType) /\ Ordered(fs \o Dailies, Differ)
        /\ Range(fs \o Dailies) = Range(fs) \cup Range(Dailies)
    BY <1>4, <1>7, <2>2, TasksJoin
  <2> HIDE DEF fsd
  <2> QED
    BY <1>3, <1>4, <1>5, <1>7, <2>1, <2>3
<1>10. dsf \in Seq(TaskType) /\ Ordered(dsf, Differ) /\ \A t \in Range(dsf) : t.kind # "merge"
  <2>1. dsf = ds \o Funds
    BY DEF ds
  <2>2. \A x \in Range(ds), y \in Range(Funds) : x.kind # y.kind
    BY <1>3, <1>4, <1>5, <1>8
  <2>3. /\ ds \o Funds \in Seq(TaskType) /\ Ordered(ds \o Funds, Differ)
        /\ Range(ds \o Funds) = Range(ds) \cup Range(Funds)
    BY <1>3, <1>8, <2>2, TasksJoin
  <2> HIDE DEF dsf
  <2> QED
    BY <1>3, <1>4, <1>5, <1>8, <2>1, <2>3
<1> HIDE DEF fsd, dsf
<1>11. CASE script = "collect_data"
  <2>1. Scripts[script] = [tree |-> "archive", tasks |-> fsd, raises |-> "run", days |-> Days30, ime |-> Days30]
    BY <1>11 DEF Scripts, CollectData, fsd
  <2> QED
    BY <1>1, <1>9, <1>11, <2>1 DEF Trees
<1>12. CASE script = "collect_missing_data"
  <2>1. Scripts[script] = [tree |-> "missing", tasks |-> fsd, raises |-> "run", days |-> Days30, ime |-> Days30]
    BY <1>12 DEF Scripts, CollectMissingData, fsd
  <2> QED
    BY <1>1, <1>9, <1>12, <2>1 DEF Trees
<1>13. CASE script = "minute_bar_archive"
  <2>1. Scripts[script] = [tree |-> "archive", tasks |-> Funds, raises |-> "task", days |-> Days3, ime |-> NumDays]
    BY <1>13 DEF Scripts, MinuteBarArchive
  <2> QED
    BY <1>1, <1>3, <1>13, <2>1 DEF Trees
<1>14. CASE script = "daily_archive"
  <2>1. Scripts[script] = [tree |-> "archive", tasks |-> Snapshots, raises |-> "task", days |-> 0, ime |-> 0]
    BY <1>14 DEF Scripts, DailyArchive
  <2> QED
    BY <1>5, <1>14, <2>1 DEF Trees
<1>15. CASE script = "ime_cdc_archive"
  <2>1. Scripts[script] = [tree |-> "archive", tasks |-> Dailies, raises |-> "task", days |-> 0, ime |-> NumDays]
    BY <1>15 DEF Scripts, ImeCdcArchive
  <2> QED
    BY <1>1, <1>4, <1>15, <2>1 DEF Trees
<1>16. CASE script = "run_all"
  <2>1. Scripts[script] = [tree |-> "archive", tasks |-> dsf, raises |-> "step", days |-> Days3, ime |-> NumDays]
    BY <1>16 DEF Scripts, RunAll, dsf
  <2> QED
    BY <1>1, <1>10, <1>16, <2>1 DEF Trees
<1>17. CASE script = "merge_missing_data_archive"
  <2>1. Scripts[script] = [tree |-> "archive", tasks |-> merges, raises |-> "run", days |-> 0, ime |-> 0]
    BY <1>17 DEF Scripts, MergeMissingData, merges
  <2> QED
    BY <1>6, <1>17, <2>1 DEF Trees
<1>18. script \in {"collect_data", "collect_missing_data", "minute_bar_archive", "daily_archive",
                   "ime_cdc_archive", "run_all", "merge_missing_data_archive"}
  BY DEF Scripts
<1> QED
  BY <1>11, <1>12, <1>13, <1>14, <1>15, <1>16, <1>17, <1>18

LEMMA NoneIsNoScript == "none" \notin DOMAIN Scripts
  BY DEF Scripts

\* The same run with other tasks left.
LEMMA OntoIs ==
  ASSUME NEW r \in RunType, r.script \in DOMAIN Scripts, NEW tasks \in Seq(TaskType), today \in Int
  PROVE  /\ Onto(r, tasks) \in RunType /\ Onto(r, tasks).script = r.script
         /\ Onto(r, tasks).tasks = tasks /\ Onto(r, tasks).rows = <<>>
         /\ Onto(r, tasks).items = r.items /\ Onto(r, tasks).stamp = r.stamp
<1> DEFINE plan == Scripts[r.script]
           more == /\ plan.raises # "task" /\ r.tasks # <<>> /\ tasks # <<>>
                   /\ Head(tasks).kind = Head(r.tasks).kind
           end == IF more THEN r.end ELSE today
           next == Floor(end - plan.days)
<1>1. plan.days \in Int
  BY ScriptsAre
<1>2. end \in Int
  BY DEF RunType
<1> HIDE DEF end, more, plan
<1>3. next \in Int
  BY <1>1, <1>2 DEF Floor
<1>4. Onto(r, tasks) = [r EXCEPT !.tasks = tasks, !.rows = <<>>, !.end = end, !.next = next]
  BY DEF Onto, end, more, plan
<1> HIDE DEF next
<1>5. Onto(r, tasks) = [script |-> r.script, tasks |-> tasks, rows |-> <<>>, next |-> next,
                        end |-> end, items |-> r.items, stamp |-> r.stamp]
  BY <1>4 DEF RunType
<1>6. <<>> \in Seq(Line)
  OBVIOUS
<1>7. Onto(r, tasks) \in RunType
  BY <1>2, <1>3, <1>5, <1>6 DEF RunType
<1> QED
  BY <1>5, <1>7

LEMMA IdleIs == /\ Idle \in RunType /\ Idle.script = "none" /\ Idle.tasks = <<>> /\ Idle.rows = <<>>
                /\ Idle.stamp = 0 /\ Idle.items = <<>>
<1>1. <<>> \in [{} -> ItemType] /\ <<>> \in Seq(TaskType) /\ <<>> \in Seq(Line)
  OBVIOUS
<1>2. <<>> \in UNION {[U -> ItemType] : U \in SUBSET Series}
  BY <1>1
<1> QED
  BY <1>1, <1>2 DEF Idle, RunType

\* The task a running script is at, and those behind it.
LEMMA TaskIs ==
  ASSUME CronInv, run.tasks # <<>>
  PROVE  /\ Task \in TaskType /\ Task.of \in Series /\ run.script \in DOMAIN Scripts
         /\ Plan.tree \in Trees /\ Tidy(Target) /\ run \in RunType
         /\ Task.kind = "merge" <=> run.script = "merge_missing_data_archive"
         /\ Task.kind = "snapshot" => \A r \in Range(Target.lines) : r.day < run.stamp
         /\ Tail(run.tasks) \in Seq(TaskType) /\ Ordered(Tail(run.tasks), Differ)
         /\ \A t \in Range(Tail(run.tasks)) : t \in Range(run.tasks) /\ t # Task
<1> DEFINE q == run.tasks
<1>1. q \in Seq(TaskType) /\ q # <<>> /\ Ordered(q, Differ) /\ run \in RunType
  BY DEF CronInv, CronTyped, RunType, RunInv
<1>2. run.script \in DOMAIN Scripts
  BY DEF CronInv, CronTyped, RunType, RunInv
<1> HIDE DEF q
<1>3. /\ Len(q) \in Nat \ {0} /\ DOMAIN q = 1..Len(q) /\ 1 \in DOMAIN q
      /\ Head(q) = q[1] /\ q[1] \in TaskType /\ Len(Tail(q)) = Len(q) - 1
      /\ Tail(q) \in Seq(TaskType) /\ \A i \in 1..(Len(q) - 1) : Tail(q)[i] = q[i + 1]
  BY <1>1
<1>4. Ordered(Tail(q), Differ)
  BY <1>1, <1>3 DEF Ordered
<1>5. \A t \in Range(Tail(q)) : t \in Range(q) /\ t # q[1]
  <2> SUFFICES ASSUME NEW i \in 1..(Len(q) - 1) PROVE q[i + 1] \in Range(q) /\ q[i + 1] # q[1]
    BY <1>3 DEF Range
  <2>1. i + 1 \in 1..Len(q) /\ 1 \in 1..Len(q) /\ 1 < i + 1
    BY <1>3
  <2>2. <<q[1], q[i + 1]>> \in Differ
    BY <1>1, <2>1 DEF Ordered
  <2> QED
    BY <1>3, <2>1, <2>2 DEF Differ, Range
<1>6. Task = q[1]
  BY <1>3 DEF Task, q
<1>7. Task \in TaskType /\ Task.of \in Series
  BY <1>3, <1>6 DEF TaskType
<1>8. Plan.tree \in Trees
  BY <1>2, ScriptsAre DEF Plan
<1>9. Tidy(Target)
  BY <1>7, <1>8 DEF Target, CronInv, FilesInv
<1>10. Task.kind = "merge" <=> run.script = "merge_missing_data_archive"
  BY <1>3, <1>6 DEF CronInv, RunInv, q
<1>11. Task.kind = "snapshot" => \A r \in Range(Target.lines) : r.day < run.stamp
  BY <1>3, <1>6 DEF CronInv, StampInv, Target, q
<1> QED
  BY <1>1, <1>2, <1>3, <1>4, <1>5, <1>6, <1>7, <1>8, <1>9, <1>10, <1>11 DEF q

\* One file is written.
LEMMA FileWritten ==
  ASSUME CronTyped, FilesInv, NEW t \in Trees, NEW s \in Series, NEW g, Tidy(g),
         file' = [file EXCEPT ![t][s] = g], runs' = runs,
         s \in SnapshotLogs => \A r \in Range(g.lines) : r.day <= runs
  PROVE  /\ FilesInv' /\ file' \in [Trees -> [Series -> FileType]] /\ file'[t][s] = g
         /\ \A u \in Trees, x \in Series : u # t \/ x # s => file'[u][x] = file[u][x]
<1>1. g \in FileType
  BY DEF Tidy
<1>2. /\ file' \in [Trees -> [Series -> FileType]] /\ file'[t][s] = g
      /\ \A u \in Trees, x \in Series : u # t \/ x # s => file'[u][x] = file[u][x]
  BY <1>1 DEF CronTyped
<1>3. \A u \in Trees, x \in Series : Tidy(file'[u][x])
  BY <1>2 DEF FilesInv
<1>4. \A u \in Trees, x \in SnapshotLogs : \A r \in Range(file'[u][x].lines) : r.day <= runs'
  <2> SUFFICES ASSUME NEW u \in Trees, NEW x \in SnapshotLogs
               PROVE  \A r \in Range(file'[u][x].lines) : r.day <= runs
    OBVIOUS
  <2>1. CASE u = t /\ x = s
    BY <1>2, <2>1
  <2>2. CASE u # t \/ x # s
    BY <1>2, <2>2 DEF FilesInv, Series
  <2> QED
    BY <2>1, <2>2
<1> QED
  BY <1>2, <1>3, <1>4 DEF FilesInv

\* A run goes on with fewer tasks.
LEMMA GoesOn ==
  ASSUME CronInv, today \in Int, NEW r \in RunType, run.script \in DOMAIN Scripts,
         r.script = run.script, r.stamp = run.stamp,
         NEW tasks \in Seq(TaskType), Ordered(tasks, Differ),
         \A t \in Range(tasks) : t \in Range(run.tasks),
         run' = Onto(r, tasks), runs' = runs, failures' \in Nat,
         FilesInv', file' \in [Trees -> [Series -> FileType]],
         \A t \in Range(tasks) : t.kind = "snapshot" =>
           \A x \in Range(file'[Plan.tree][t.of].lines) : x.day < run.stamp
  PROVE  CronInv'
<1>1. /\ run' \in RunType /\ run'.script = run.script /\ run'.tasks = tasks /\ run'.rows = <<>>
      /\ run'.stamp = run.stamp
  BY OntoIs
<1>2. CronTyped'
  BY <1>1 DEF CronInv, CronTyped
<1>3. \A i \in DOMAIN tasks : tasks[i] \in Range(tasks)
  BY DEF Range
<1>4. RunInv'
  <2>1. Ordered(<<>>, Apart) /\ Range(<<>>) = {}
    BY ProperEmpty DEF Proper
  <2>2. \A t \in Range(run.tasks) : t.kind = "merge" <=> run.script = "merge_missing_data_archive"
    BY DEF CronInv, RunInv, Range
  <2>3. run.script # "none"
    BY NoneIsNoScript
  <2> QED
    BY <1>1, <1>3, <2>1, <2>2, <2>3 DEF RunInv
<1>5. StampInv'
  <2>1. Plan' = Plan
    BY <1>1 DEF Plan
  <2> QED
    BY <1>1, <1>3, <2>1 DEF CronInv, StampInv
<1> QED
  BY <1>2, <1>4, <1>5 DEF CronInv

\* A task is done: its file is written, and the others of the run are not.
LEMMA TaskDone ==
  ASSUME CronInv, today \in Int, run.tasks # <<>>, NEW g, Tidy(g),
         file' = [file EXCEPT ![Plan.tree][Task.of] = g], UNCHANGED <<runs, failures>>,
         Task.of \in SnapshotLogs => \A x \in Range(g.lines) : x.day <= runs,
         NEW r \in RunType, r.script = run.script, r.stamp = run.stamp,
         run' = Onto(r, Tail(run.tasks))
  PROVE  CronInv'
<1> DEFINE tasks == Tail(run.tasks)
<1>1. /\ Task \in TaskType /\ Task.of \in Series /\ run.script \in DOMAIN Scripts /\ Plan.tree \in Trees
      /\ tasks \in Seq(TaskType) /\ Ordered(tasks, Differ)
      /\ \A t \in Range(tasks) : t \in Range(run.tasks) /\ t # Task
      /\ Task.kind = "merge" <=> run.script = "merge_missing_data_archive"
  BY TaskIs
<1>2. /\ FilesInv' /\ file' \in [Trees -> [Series -> FileType]]
      /\ \A x \in Series : x # Task.of => file'[Plan.tree][x] = file[Plan.tree][x]
  BY <1>1, FileWritten DEF CronInv
<1> HIDE DEF tasks
<1>3. ASSUME NEW t \in Range(tasks), t.kind = "snapshot"
      PROVE  \A x \in Range(file'[Plan.tree][t.of].lines) : x.day < run.stamp
  <2>1. t \in TaskType /\ t # Task /\ t.of \in SnapshotLogs /\ t.of \in Series
    BY <1>1, <1>3, RangeTypes DEF TaskType, Series
  <2>2. PICK i \in DOMAIN run.tasks : t = run.tasks[i]
    BY <1>1 DEF Range
  <2>3. Task.kind # "merge"
    BY <1>1, <1>3, <2>2 DEF CronInv, RunInv
  <2>4. t.of # Task.of
    BY <1>1, <1>3, <2>1, <2>3, CollectorAssumption DEF TaskType
  <2> QED
    BY <1>2, <1>3, <2>1, <2>2, <2>4 DEF CronInv, StampInv
<1>4. failures' \in Nat
  BY DEF CronInv, CronTyped
<1>5. run' = Onto(r, tasks)
  BY DEF tasks
<1> QED
  BY <1>1, <1>2, <1>3, <1>4, <1>5, GoesOn

\* A run ends, or its process dies.
LEMMA RunOver ==
  ASSUME CronInv, run' = Idle, runs' = runs, failures' \in Nat,
         FilesInv', file' \in [Trees -> [Series -> FileType]]
  PROVE  CronInv'
<1>1. Ordered(<<>>, Apart) /\ Range(<<>>) = {} /\ DOMAIN <<>> = {}
  BY ProperEmpty, FilesAre DEF Proper
<1>2. Ordered(<<>>, Differ)
  BY DEF Ordered
<1> QED
  BY <1>1, <1>2, IdleIs DEF CronInv, CronTyped, RunInv, StampInv

LEMMA InitCron == Init => CronInv
<1> SUFFICES ASSUME Init PROVE CronInv
  OBVIOUS
<1>1. /\ file = [t \in Trees |-> [s \in Series |-> NoFile]] /\ run = Idle /\ runs = 0 /\ failures = 0
  BY DEF Init, CollectorInit
<1>2. Ordered(<<>>, Apart) /\ Range(<<>>) = {} /\ DOMAIN <<>> = {} /\ <<>> \in Seq(Line)
  BY ProperEmpty, FilesAre DEF Proper
<1>3. Tidy(NoFile) /\ NoFile \in FileType /\ NoFile.lines = <<>>
  BY <1>2 DEF Tidy, NoFile, FileType
<1>4. \A t \in Trees, s \in Series : file[t][s] = NoFile
  BY <1>1
<1>5. CronTyped
  BY <1>1, <1>3, IdleIs DEF CronTyped
<1>6. FilesInv
  BY <1>2, <1>3, <1>4 DEF FilesInv, Series
<1>7. Ordered(<<>>, Differ)
  BY DEF Ordered
<1> QED
  BY <1>1, <1>2, <1>5, <1>6, <1>7, IdleIs DEF CronInv, RunInv, StampInv

LEMMA FilesRest ==
  ASSUME CronInv, UNCHANGED <<file, runs>>
  PROVE  FilesInv' /\ file' \in [Trees -> [Series -> FileType]]
  BY DEF CronInv, CronTyped, FilesInv

LEMMA CronRests ==
  ASSUME CronInv, UNCHANGED collectorVars
  PROVE  CronInv'
  BY DEF CronInv, CronTyped, FilesInv, RunInv, StampInv, Plan, collectorVars

LEMMA BeginCron ==
  ASSUME CronInv, today \in Int, NEW script \in DOMAIN Scripts, Begin(script)
  PROVE  CronInv'
<1> DEFINE tasks == Scripts[script].tasks
           snaps == \E i \in DOMAIN tasks : tasks[i].kind = "snapshot"
           r == [Idle EXCEPT !.script = script, !.stamp = runs']
<1>1. /\ tasks \in Seq(TaskType) /\ Ordered(tasks, Differ) /\ Scripts[script].tree \in Trees
      /\ \A t \in Range(tasks) : t.kind = "merge" <=> script = "merge_missing_data_archive"
  BY ScriptsAre
<1>2. /\ runs' = (IF snaps THEN runs + 1 ELSE runs) /\ run' = Onto(r, tasks) /\ UNCHANGED <<file, failures>>
  BY DEF Begin
<1>3. runs \in Nat /\ runs' \in Nat /\ runs <= runs' /\ (snaps => runs < runs')
  BY <1>2 DEF CronInv, CronTyped
<1> HIDE DEF tasks
<1>4. r \in RunType /\ r.script = script /\ r.stamp = runs'
  BY <1>3, IdleIs DEF Idle, RunType
<1> HIDE DEF r
<1>5. /\ run' \in RunType /\ run'.script = script /\ run'.tasks = tasks /\ run'.rows = <<>>
      /\ run'.stamp = runs'
  BY <1>1, <1>2, <1>4, OntoIs
<1>6. CronTyped'
  BY <1>2, <1>3, <1>5 DEF CronInv, CronTyped
<1>7. FilesInv'
  <2>1. \A t \in Trees, s \in SnapshotLogs : \A x \in Range(file[t][s].lines) : x.day <= runs'
    <3> SUFFICES ASSUME NEW t \in Trees, NEW s \in SnapshotLogs, NEW x \in Range(file[t][s].lines)
                 PROVE  x.day <= runs'
      OBVIOUS
    <3>1. s \in Series
      BY DEF Series
    <3>2. file[t][s].lines \in Seq(Line)
      BY <3>1 DEF CronInv, FilesInv, Tidy, FileType
    <3>3. x \in Line
      BY <3>2, RangeTypes
    <3>4. x.day \in Nat /\ x.day <= runs
      BY <3>3 DEF CronInv, FilesInv, Line
    <3> QED
      BY <1>3, <3>4
  <2> QED
    BY <1>2, <2>1 DEF CronInv, FilesInv
<1>8. \A i \in DOMAIN tasks : tasks[i] \in Range(tasks) /\ tasks[i] \in TaskType
  BY <1>1 DEF Range
<1>9. RunInv'
  <2>1. Ordered(<<>>, Apart) /\ Range(<<>>) = {}
    BY ProperEmpty DEF Proper
  <2>2. script # "none"
    BY NoneIsNoScript
  <2> QED
    BY <1>1, <1>5, <1>8, <2>1, <2>2 DEF RunInv
<1>10. StampInv'
  <2>1. ASSUME NEW i \in DOMAIN tasks, tasks[i].kind = "snapshot",
               NEW x \in Range(file[Scripts[script].tree][tasks[i].of].lines)
        PROVE  x.day < runs'
    <3>1. tasks[i].of \in SnapshotLogs /\ tasks[i].of \in Series
      BY <1>8, <2>1 DEF TaskType
    <3>2. file[Scripts[script].tree][tasks[i].of].lines \in Seq(Line)
      BY <1>1, <3>1 DEF CronInv, FilesInv, Tidy, FileType
    <3>3. x \in Line
      BY <2>1, <3>2, RangeTypes
    <3>4. x.day \in Nat /\ x.day <= runs
      BY <1>1, <2>1, <3>1, <3>3 DEF CronInv, FilesInv, Line
    <3> QED
      BY <1>3, <2>1, <3>4
  <2>2. Plan' = Scripts[script]
    BY <1>5 DEF Plan
  <2> QED
    BY <1>2, <1>3, <1>5, <2>1, <2>2 DEF StampInv
<1> QED
  BY <1>6, <1>7, <1>9, <1>10 DEF CronInv

LEMMA FetchChunkCron ==
  ASSUME CronInv, PlatformInv, FetchChunk
  PROVE  CronInv'
<1> DEFINE to == ChunkEnd(run.next, run.end, Span)
           v == Served(Task.of, run.next, to)
           rows == run.rows \o v
<1>1. /\ run \in RunType /\ Task.kind = "bars" /\ Task \in TaskType /\ run.next <= run.end
  BY TaskIs DEF FetchChunk, Busy
<1>2. run.next \in Int /\ run.end \in Int /\ run.rows \in Seq(Line) /\ Task.of \in Symbols /\ Span \in Nat
  BY <1>1, CollectorAssumption DEF RunType, TaskType
<1>3. to \in Int /\ run.next <= to
  BY <1>1, <1>2 DEF ChunkEnd
<1>4. run' = [run EXCEPT !.rows = rows, !.next = to + 1] /\ UNCHANGED <<file, runs, failures>>
  BY DEF FetchChunk
<1> HIDE DEF to
<1>5. /\ v \in Seq(Line) /\ Ordered(v, Apart)
      /\ \A r \in Range(v) : r # Bad /\ r.day >= run.next /\ r.day < to + 1
  <2>1. v \in Seq(Line) /\ Ordered(v, Apart)
    BY <1>2, <1>3, ServedIs
  <2>2. \A r \in Range(v) : \E d \in (run.next .. to) \cap Days : r.day = d
    BY <1>2, <1>3, ServedIs
  <2>3. 0 \notin Days /\ Bad.day = 0
    BY BarAssumption DEF Days, Bad
  <2> HIDE DEF v
  <2> QED
    BY <1>2, <1>3, <2>1, <2>2, <2>3
<1> HIDE DEF v
<1>6. Ordered(run.rows, Apart) /\ \A r \in Range(run.rows) : r # Bad /\ r.day < run.next
  BY DEF CronInv, RunInv
<1>7. Range(run.rows) \subseteq Line /\ Range(v) \subseteq Line
  BY <1>2, <1>5, RangeTypes
<1>8. \A x \in Range(run.rows), y \in Range(v) : <<x, y>> \in Apart
  <2> SUFFICES ASSUME NEW x \in Range(run.rows), NEW y \in Range(v) PROVE <<x, y>> \in Apart
    OBVIOUS
  <2>1. x \in Line /\ y \in Line /\ x.day \in Nat /\ y.day \in Nat
    BY <1>7 DEF Line
  <2>2. x.day < run.next /\ y.day >= run.next
    BY <1>5, <1>6
  <2>3. x.day # y.day
    BY <1>2, <2>1, <2>2
  <2> QED
    BY <2>1, <2>3 DEF Apart, Key
<1>9. rows \in Seq(Line) /\ Ordered(rows, Apart) /\ Range(rows) = Range(run.rows) \cup Range(v)
  BY <1>2, <1>5, <1>6, <1>8, JoinRange, OrderedJoin
<1> HIDE DEF rows
<1>10. \A r \in Range(rows) : r # Bad /\ r.day < to + 1
  <2> SUFFICES ASSUME NEW r \in Range(run.rows) PROVE r.day < to + 1
    BY <1>5, <1>6, <1>9
  <2>1. r.day \in Nat /\ r.day < run.next
    BY <1>6, <1>7 DEF Line
  <2> QED
    BY <1>2, <1>3, <2>1
<1>11. run' = [script |-> run.script, tasks |-> run.tasks, rows |-> rows, next |-> to + 1,
               end |-> run.end, items |-> run.items, stamp |-> run.stamp]
  BY <1>1, <1>4 DEF RunType
<1>12. run' \in RunType
  BY <1>1, <1>3, <1>9, <1>11 DEF RunType
<1>13. /\ run'.script = run.script /\ run'.tasks = run.tasks /\ run'.rows = rows /\ run'.next = to + 1
       /\ run'.stamp = run.stamp
  BY <1>11
<1>14. RunInv'
  BY <1>9, <1>10, <1>13 DEF CronInv, RunInv
<1>15. StampInv'
  BY <1>4, <1>13 DEF CronInv, StampInv, Plan
<1>16. CronTyped' /\ FilesInv'
  BY <1>4, <1>12, FilesRest DEF CronInv, CronTyped
<1> QED
  BY <1>14, <1>15, <1>16 DEF CronInv

LEMMA FetchStatsCron ==
  ASSUME CronInv, PlatformInv, FetchStats
  PROVE  CronInv'
<1> DEFINE from == Floor(today - Plan.ime)
           v == Served(Task.of, from, today)
<1>1. /\ run \in RunType /\ Task.kind = "daily" /\ Task \in TaskType /\ run.script \in DOMAIN Scripts
  BY TaskIs DEF FetchStats, Busy
<1>2. today \in Int /\ Plan.ime \in Int /\ Task.of \in Symbols
  <2>1. today \in Int
    BY BarAssumption DEF PlatformInv, Days
  <2>2. Plan.ime \in Int
    BY <1>1, ScriptsAre DEF Plan
  <2>3. Task.of \in Symbols
    BY <1>1 DEF TaskType
  <2> QED
    BY <2>1, <2>2, <2>3
<1>3. from \in Int
  BY <1>2 DEF Floor
<1>4. run' = [run EXCEPT !.rows = v, !.next = today + 1] /\ UNCHANGED <<file, runs, failures>>
  BY DEF FetchStats
<1> HIDE DEF from
<1>5. v \in Seq(Line) /\ Ordered(v, Apart) /\ \A r \in Range(v) : r # Bad /\ r.day < today + 1
  <2>1. v \in Seq(Line) /\ Ordered(v, Apart)
    BY <1>2, <1>3, ServedIs
  <2>2. \A r \in Range(v) : \E d \in (from .. today) \cap Days : r.day = d
    BY <1>2, <1>3, ServedIs
  <2>3. 0 \notin Days /\ Bad.day = 0
    BY BarAssumption DEF Days, Bad
  <2> HIDE DEF v
  <2> QED
    BY <1>2, <1>3, <2>1, <2>2, <2>3
<1> HIDE DEF v
<1>6. run' = [script |-> run.script, tasks |-> run.tasks, rows |-> v, next |-> today + 1,
              end |-> run.end, items |-> run.items, stamp |-> run.stamp]
  BY <1>1, <1>4 DEF RunType
<1>7. run' \in RunType
  BY <1>1, <1>2, <1>5, <1>6 DEF RunType
<1>8. /\ run'.script = run.script /\ run'.tasks = run.tasks /\ run'.rows = v
      /\ run'.next = today + 1 /\ run'.stamp = run.stamp
  BY <1>6
<1>9. RunInv'
  BY <1>5, <1>8 DEF CronInv, RunInv
<1>10. StampInv'
  BY <1>4, <1>8 DEF CronInv, StampInv, Plan
<1>11. CronTyped' /\ FilesInv'
  BY <1>4, <1>7, FilesRest DEF CronInv, CronTyped
<1> QED
  BY <1>9, <1>10, <1>11 DEF CronInv

\* What is appended to the file of a task of bars, and what is reported.
LEMMA AppendRowsIs ==
  ASSUME CronInv, run.tasks # <<>>, Task.kind \in {"bars", "daily"}
  PROVE  LET new == NewRows(Target, run.rows)
         IN  /\ new \in Seq(Line) /\ Ordered(new, Apart) /\ Bad \notin Range(new)
             /\ \A r \in Range(new) : Key(r) \notin KeysOf(Parsed(Target))
             /\ Tidy(Target) /\ Task.of \in Symbols /\ Task.of \notin SnapshotLogs
<1> DEFINE new == NewRows(Target, run.rows)
<1>1. Tidy(Target) /\ Target \in FileType /\ run \in RunType /\ Task \in TaskType
  BY TaskIs DEF Tidy
<1>2. run.rows \in Seq(Line) /\ Ordered(run.rows, Apart) /\ Bad \notin Range(run.rows)
  BY <1>1 DEF RunType, CronInv, RunInv
<1>3. /\ new \in Seq(Line) /\ Ordered(new, Apart)
      /\ Range(new) = {r \in Range(run.rows) : Key(r) \notin KeysOf(Parsed(Target))}
  BY <1>1, <1>2, NewRowsAre
<1>4. Task.of \in Symbols
  BY <1>1 DEF TaskType
<1>5. Task.of \notin SnapshotLogs
  BY <1>4, CollectorAssumption
<1> HIDE DEF new
<1>6. Bad \notin Range(new) /\ \A r \in Range(new) : Key(r) \notin KeysOf(Parsed(Target))
  BY <1>2, <1>3
<1> QED
  BY <1>1, <1>3, <1>4, <1>5, <1>6 DEF new

LEMMA ItemsAre ==
  ASSUME NEW r \in RunType, NEW s \in Series, NEW item \in ItemType
  PROVE  Assigned(r.items, s, item) \in UNION {[U -> ItemType] : U \in SUBSET Series}
<1>1. PICK U \in SUBSET Series : r.items \in [U -> ItemType]
  BY DEF RunType
<1>2. Assigned(r.items, s, item) \in [U \cup {s} -> ItemType]
  BY <1>1 DEF Assigned
<1>3. U \cup {s} \in SUBSET Series
  OBVIOUS
<1> QED
  BY <1>2, <1>3

LEMMA AppendRowsCron ==
  ASSUME CronInv, today \in Int, run.tasks # <<>>, Task.kind \in {"bars", "daily"},
         NEW missing \in {"all", "new", "none"}, AppendRows(missing)
  PROVE  CronInv'
<1> DEFINE new == NewRows(Target, run.rows)
           g == Appended(Target, new)
           s == Task.of
           items == CASE missing = "all" -> Assigned(run.items, s, [asked |-> Asked, missing |-> Unexplained(new)])
                      [] missing = "new" -> Assigned(run.items, s, [asked |-> Asked, missing |-> NewMissing(new)])
                      [] OTHER -> run.items
           r == [run EXCEPT !.items = items]
<1>1. /\ new \in Seq(Line) /\ Ordered(new, Apart) /\ Tidy(Target)
      /\ \A x \in Range(new) : Key(x) \notin KeysOf(Parsed(Target))
      /\ s \in Symbols /\ s \notin SnapshotLogs
  BY AppendRowsIs
<1>2. /\ file' = [file EXCEPT ![Plan.tree][s] = g] /\ run' = Onto(r, Tail(run.tasks))
      /\ UNCHANGED <<runs, failures>>
  BY DEF AppendRows, Target
<1> HIDE DEF new
<1>3. Tidy(g)
  BY <1>1, AppendedIs
<1> HIDE DEF g
<1>4. run \in RunType /\ s \in Series
  BY <1>1, TaskIs DEF Series
<1>5. items \in UNION {[U -> ItemType] : U \in SUBSET Series}
  <2>1. /\ [asked |-> Asked, missing |-> Unexplained(new)] \in ItemType
        /\ [asked |-> Asked, missing |-> NewMissing(new)] \in ItemType
    BY DEF ItemType, Asked, Unexplained, NewMissing
  <2>2. run.items \in UNION {[U -> ItemType] : U \in SUBSET Series}
    BY <1>4 DEF RunType
  <2>3. CASE missing = "all"
    <3>1. items = Assigned(run.items, s, [asked |-> Asked, missing |-> Unexplained(new)])
      BY <2>3
    <3> HIDE DEF items, s
    <3> QED
      BY <1>4, <2>1, <3>1, ItemsAre
  <2>4. CASE missing = "new"
    <3>1. items = Assigned(run.items, s, [asked |-> Asked, missing |-> NewMissing(new)])
      BY <2>4
    <3> HIDE DEF items, s
    <3> QED
      BY <1>4, <2>1, <3>1, ItemsAre
  <2>5. CASE missing = "none"
    BY <2>2, <2>5
  <2> QED
    BY <2>3, <2>4, <2>5
<1> HIDE DEF items
<1>6. r \in RunType /\ r.script = run.script /\ r.stamp = run.stamp
  BY <1>4, <1>5 DEF RunType
<1> HIDE DEF r, s
<1> QED
  BY <1>1, <1>2, <1>3, <1>6, TaskDone DEF s

\* The record of a run, which is in no log yet.
LEMMA SnapshotIs ==
  ASSUME CronInv, run.tasks # <<>>, Task.kind = "snapshot"
  PROVE  LET q == <<Snapshot>>
         IN  /\ q \in Seq(Line) /\ Ordered(q, Apart) /\ Range(q) = {Snapshot} /\ Snapshot # Bad
             /\ \A r \in Range(q) : Key(r) \notin KeysOf(Parsed(Target)) /\ r.day <= runs
             /\ \A r \in Range(Target.lines) \cup {Bad} \cup Range(q) : r.day <= runs
             /\ Tidy(Target)
<1> DEFINE q == <<Snapshot>>
<1>1. /\ run \in RunType /\ Tidy(Target) /\ Target \in FileType /\ Target.lines \in Seq(Line)
      /\ \A r \in Range(Target.lines) : r.day < run.stamp
  BY TaskIs DEF Tidy, FileType
<1>2. run.stamp \in Nat /\ run.stamp <= runs /\ runs \in Nat
  BY <1>1 DEF RunType, CronInv, StampInv, CronTyped
<1>3. Snapshot \in Line /\ Snapshot.day = run.stamp /\ Snapshot # Bad
  BY <1>2 DEF Snapshot, Line, Bad
<1>4. q \in Seq(Line) /\ Ordered(q, Apart) /\ Range(q) = {Snapshot}
  BY <1>3 DEF Ordered, Range
<1>5. Key(Snapshot) \notin KeysOf(Parsed(Target))
  <2> SUFFICES ASSUME NEW x \in Range(Target.lines) PROVE Key(x) # Key(Snapshot)
    BY <1>1, ParsedIs
  <2>1. x.day \in Nat /\ x.day < run.stamp
    <3>1. x \in Line
      BY <1>1, RangeTypes
    <3> QED
      BY <1>1, <3>1 DEF Line
  <2>2. x.day # Snapshot.day
    BY <1>2, <1>3, <2>1
  <2> QED
    BY <2>2 DEF Key
<1>6. \A r \in Range(Target.lines) : r.day <= runs
  <2> SUFFICES ASSUME NEW x \in Range(Target.lines) PROVE x.day <= runs
    OBVIOUS
  <2>1. x.day \in Nat /\ x.day < run.stamp
    <3>1. x \in Line
      BY <1>1, RangeTypes
    <3> QED
      BY <1>1, <3>1 DEF Line
  <2> QED
    BY <1>2, <2>1
<1>7. Bad.day <= runs
  BY <1>2 DEF Bad
<1> HIDE DEF q
<1> QED
  BY <1>1, <1>2, <1>3, <1>4, <1>5, <1>6, <1>7 DEF q

LEMMA AppendSnapshotCron ==
  ASSUME CronInv, today \in Int, run.tasks # <<>>, Task.kind = "snapshot", AppendSnapshot
  PROVE  CronInv'
<1> DEFINE q == <<Snapshot>>
           g == Appended(Target, q)
<1>1. /\ q \in Seq(Line) /\ Ordered(q, Apart) /\ Tidy(Target)
      /\ \A r \in Range(q) : Key(r) \notin KeysOf(Parsed(Target))
      /\ \A r \in Range(Target.lines) \cup {Bad} \cup Range(q) : r.day <= runs
  BY SnapshotIs
<1>2. /\ file' = [file EXCEPT ![Plan.tree][Task.of] = g] /\ run' = Onto(run, Tail(run.tasks))
      /\ UNCHANGED <<runs, failures>>
  BY DEF AppendSnapshot, Target
<1> HIDE DEF q
<1>3. Tidy(g) /\ Range(g.lines) \subseteq Range(Target.lines) \cup {Bad} \cup Range(q)
  BY <1>1, AppendedIs
<1> HIDE DEF g
<1>4. run \in RunType
  BY TaskIs
<1> QED
  BY <1>1, <1>2, <1>3, <1>4, TaskDone

\* A task raises: it is skipped, or others with it, or the run is over.
LEMMA RaisedCron ==
  ASSUME CronInv, today \in Int, run.tasks # <<>>, run' = Raised, UNCHANGED <<file, runs>>,
         failures' \in Nat
  PROVE  CronInv'
<1> DEFINE rest == Tail(run.tasks)
           others == Picked(run.tasks, {i \in DOMAIN run.tasks : run.tasks[i].kind # Task.kind})
<1>1. /\ run.tasks # <<>> /\ UNCHANGED <<file, runs>> /\ failures' \in Nat
      /\ run' = Onto(run, rest) \/ run' = Idle \/ run' = Onto(run, others)
  BY DEF Raised
<1>2. /\ run \in RunType /\ run.script \in DOMAIN Scripts /\ Plan.tree \in Trees
      /\ rest \in Seq(TaskType) /\ Ordered(rest, Differ)
      /\ \A t \in Range(rest) : t \in Range(run.tasks)
  BY <1>1, TaskIs
<1>3. /\ others \in Seq(TaskType) /\ Ordered(others, Differ)
      /\ \A t \in Range(others) : t \in Range(run.tasks)
  <2> DEFINE S == {i \in DOMAIN run.tasks : run.tasks[i].kind # Task.kind}
  <2>1. run.tasks \in Seq(TaskType) /\ Ordered(run.tasks, Differ)
    BY <1>2 DEF RunType, CronInv, RunInv
  <2>2. \A i \in S : run.tasks[i] \in Range(run.tasks)
    BY DEF Range
  <2> HIDE DEF S
  <2>3. /\ Picked(run.tasks, S) \in Seq(TaskType) /\ Ordered(Picked(run.tasks, S), Differ)
        /\ Range(Picked(run.tasks, S)) = {run.tasks[i] : i \in S \cap DOMAIN run.tasks}
    BY <2>1, PickedRange, PickedOrdered
  <2> QED
    BY <2>2, <2>3 DEF S
<1>4. FilesInv' /\ file' \in [Trees -> [Series -> FileType]]
  BY <1>1, FilesRest
<1>5. \A t \in Range(run.tasks) : t.kind = "snapshot" =>
        \A x \in Range(file'[Plan.tree][t.of].lines) : x.day < run.stamp
  BY <1>1 DEF CronInv, StampInv, Range
<1> HIDE DEF rest, others
<1>6. CASE run' = Onto(run, rest)
  BY <1>1, <1>2, <1>4, <1>5, <1>6, GoesOn
<1>7. CASE run' = Onto(run, others)
  BY <1>1, <1>2, <1>3, <1>4, <1>5, <1>7, GoesOn
<1>8. CASE run' = Idle
  BY <1>1, <1>4, <1>8, RunOver
<1> QED
  BY <1>1, <1>6, <1>7, <1>8

LEMMA RequestFailsCron ==
  ASSUME CronInv, today \in Int, RequestFails
  PROVE  CronInv'
  BY RaisedCron DEF RequestFails, Busy, CronInv, CronTyped

LEMMA ReadRaisesCron ==
  ASSUME CronInv, today \in Int, ReadRaises
  PROVE  CronInv'
  BY RaisedCron DEF ReadRaises, Busy, CronInv, CronTyped

\* What a merge makes of a series.
LEMMA MergeIs ==
  ASSUME CronInv, run.tasks # <<>>, Task.kind = "merge"
  PROVE  LET s == Task.of
             m == Merged(s)
         IN  /\ s \in Series /\ Plan.tree = "archive" /\ m \in Seq(Line) /\ Ordered(m, Apart)
             /\ Bad \notin Range(m) /\ Range(Parsed(file["archive"][s])) \subseteq Range(m)
             /\ s \in SnapshotLogs => \A r \in Range(m) : r.day <= runs
<1> DEFINE s == Task.of
           m == Merged(s)
<1>1. s \in Series /\ run.script = "merge_missing_data_archive" /\ run.script \in DOMAIN Scripts
  BY TaskIs
<1>2. Plan.tree = "archive"
  BY <1>1, ScriptsAre DEF Plan
<1>3. Tidy(file["archive"][s]) /\ Tidy(file["missing"][s])
  BY <1>1 DEF CronInv, FilesInv, Trees
<1> HIDE DEF s
<1>4. /\ m \in Seq(Line) /\ Ordered(m, Apart) /\ Bad \notin Range(m)
      /\ Range(Parsed(file["archive"][s])) \subseteq Range(m)
      /\ Range(m) \subseteq Range(file["archive"][s].lines) \cup Range(file["missing"][s].lines)
  BY <1>1, <1>3, MergedSeries
<1> HIDE DEF m
<1>5. s \in SnapshotLogs => \A r \in Range(m) : r.day <= runs
  BY <1>4 DEF CronInv, FilesInv, Trees
<1> QED
  BY <1>1, <1>2, <1>4, <1>5 DEF s, m

\* A file that was truncated.
LEMMA NoFileIs == /\ Tidy(NoFile) /\ NoFile.lines = <<>> /\ Range(NoFile.lines) = {} /\ ~NoFile.open
                  /\ KeysOf(Parsed(NoFile)) = {}
<1>1. Ordered(<<>>, Apart) /\ Range(<<>>) = {} /\ <<>> \in Seq(Line)
  BY ProperEmpty DEF Proper
<1>2. NoFile \in FileType /\ NoFile.lines = <<>> /\ ~NoFile.open
  BY <1>1 DEF NoFile, FileType
<1>3. KeysOf(Parsed(NoFile)) = {}
  BY <1>1, <1>2, ParsedIs
<1> QED
  BY <1>1, <1>2, <1>3 DEF Tidy

LEMMA MergeSeriesCron ==
  ASSUME CronInv, today \in Int, MergeSeries
  PROVE  CronInv'
<1> DEFINE s == Task.of
           m == Merged(s)
           g == Appended(NoFile, m)
<1>1. /\ run.tasks # <<>> /\ Task.kind = "merge" /\ run' = Onto(run, Tail(run.tasks))
      /\ UNCHANGED <<runs, failures>>
      /\ file' = file \/ file' = [file EXCEPT !["archive"][s] = g]
  BY DEF MergeSeries, Busy
<1>2. /\ Plan.tree = "archive" /\ m \in Seq(Line) /\ Ordered(m, Apart) /\ Bad \notin Range(m)
      /\ s \in SnapshotLogs => \A r \in Range(m) : r.day <= runs
  BY <1>1, MergeIs
<1> HIDE DEF m
<1>3. run \in RunType
  BY <1>1, TaskIs
<1>4. CASE file' = [file EXCEPT !["archive"][s] = g]
  <2>1. \A r \in Range(m) : Key(r) \notin KeysOf(Parsed(NoFile))
    BY NoFileIs
  <2>2. Tidy(g) /\ Range(g.lines) = Range(NoFile.lines) \cup Range(m)
    BY <1>2, <2>1, NoFileIs, AppendedIs
  <2>3. Range(g.lines) = Range(m)
    BY <2>2, NoFileIs
  <2> HIDE DEF g
  <2> QED
    BY <1>1, <1>2, <1>3, <1>4, <2>2, <2>3, TaskDone
<1>5. CASE file' = file
  <2> DEFINE t == file["archive"][s]
  <2>1. s \in Series
    BY <1>1, TaskIs
  <2>2. Tidy(t) /\ (s \in SnapshotLogs => \A x \in Range(t.lines) : x.day <= runs)
    BY <2>1 DEF CronInv, FilesInv, Trees
  <2>3. file' = [file EXCEPT !["archive"][s] = t]
    BY <1>5, <2>1 DEF CronInv, CronTyped
  <2> HIDE DEF t
  <2> QED
    BY <1>1, <1>2, <1>3, <2>2, <2>3, TaskDone
<1> QED
  BY <1>1, <1>4, <1>5

LEMMA FinishCron ==
  ASSUME CronInv, Finish
  PROVE  CronInv'
<1>1. run' = Idle /\ UNCHANGED <<file, runs, failures>>
  BY DEF Finish
<1> QED
  BY <1>1, FilesRest, RunOver DEF CronInv, CronTyped

\* What a process that died has left of the file it was at.
DeadLeft(g) == /\ Tidy(g) /\ file' = [file EXCEPT ![Plan.tree][Task.of] = g]
               /\ Task.of \in SnapshotLogs => \A r \in Range(g.lines) : r.day <= runs
               /\ Task.kind # "merge" => RowsKept(Target, g)

\* What a process that dies leaves: one file is cut, and only a merge lost rows.
LEMMA DieIs ==
  ASSUME CronInv, Die
  PROVE  /\ run.tasks # <<>> /\ Task.of \in Series /\ Plan.tree \in Trees
         /\ run' = Idle /\ runs' = runs /\ failures' \in Nat
         /\ \E g : DeadLeft(g)
<1> DEFINE merging == Task.kind = "merge"
           s == Task.of
           rows == CASE merging -> Merged(Task.of)
                     [] Task.kind = "snapshot" -> <<Snapshot>>
                     [] OTHER -> NewRows(Target, run.rows)
           f == IF merging THEN NoFile ELSE Target
<1>1. /\ run.tasks # <<>> /\ run' = Idle /\ runs' = runs /\ failures' \in Nat
  <2>1. run.tasks # <<>> /\ run' = Idle /\ runs' = runs /\ failures' = failures + 1
    BY DEF Die
  <2> HIDE DEF merging, rows, s, f
  <2> QED
    BY <2>1 DEF CronInv, CronTyped
<1>2. /\ Task \in TaskType /\ s \in Series /\ Plan.tree \in Trees /\ Tidy(Target)
  BY <1>1, TaskIs
<1>3. \E n \in 0 .. Len(rows), how \in {"whole", "torn", "garbled", "no newline"} :
        file' = [file EXCEPT ![Plan.tree][s] = Cut(f, SubSeq(rows, 1, n), how)]
  BY ZenonT(90) DEF Die, Target
<1>4. runs \in Nat
  BY DEF CronInv, CronTyped
<1>5. /\ Tidy(f) /\ rows \in Seq(Line) /\ Ordered(rows, Apart)
      /\ \A r \in Range(rows) : Key(r) \notin KeysOf(Parsed(f))
      /\ s \in SnapshotLogs => \A r \in Range(f.lines) \cup {Bad} \cup Range(rows) : r.day <= runs
  <2>1. CASE Task.kind = "merge"
    <3>1. rows = Merged(Task.of) /\ f = NoFile
      BY <2>1
    <3>2. Bad.day = 0
      BY DEF Bad
    <3> HIDE DEF rows, f
    <3>3. /\ rows \in Seq(Line) /\ Ordered(rows, Apart)
          /\ s \in SnapshotLogs => \A r \in Range(rows) : r.day <= runs
      BY <1>1, <2>1, <3>1, MergeIs
    <3> QED
      BY <1>4, <3>1, <3>2, <3>3, NoFileIs
  <2>2. CASE Task.kind = "snapshot"
    <3>1. rows = <<Snapshot>> /\ f = Target
      BY <2>2
    <3> HIDE DEF rows, f
    <3> QED
      BY <1>1, <2>2, <3>1, SnapshotIs
  <2>3. CASE Task.kind \in {"bars", "daily"}
    <3>1. rows = NewRows(Target, run.rows) /\ f = Target
      BY <2>3
    <3> HIDE DEF rows, f
    <3> QED
      BY <1>1, <2>3, <3>1, AppendRowsIs
  <2> QED
    BY <1>2, <2>1, <2>2, <2>3 DEF TaskType
<1> HIDE DEF rows, f, merging
<1>6. PICK n \in 0 .. Len(rows), how \in {"whole", "torn", "garbled", "no newline"} :
        file' = [file EXCEPT ![Plan.tree][s] = Cut(f, SubSeq(rows, 1, n), how)]
  BY <1>3
<1> DEFINE q == SubSeq(rows, 1, n)
           c == Cut(f, q, how)
<1>7. q \in Seq(Line) /\ Range(q) \subseteq Range(rows) /\ Ordered(q, Apart)
  <2>1. rows \in Seq(Line) /\ Ordered(rows, Apart)
    BY <1>5
  <2> QED
    BY <2>1, PrefixIs
<1>8. file' = [file EXCEPT ![Plan.tree][s] = c]
  BY <1>6
<1> HIDE DEF q
<1>9. Tidy(c) /\ Range(c.lines) \subseteq Range(f.lines) \cup {Bad} \cup Range(q)
  BY <1>5, <1>7, CutIs
<1> HIDE DEF c
<1>10. s \in SnapshotLogs => \A r \in Range(c.lines) : r.day <= runs
  BY <1>5, <1>7, <1>9
<1>11. Task.kind # "merge" => RowsKept(f, Cut(f, q, how))
  <2>1. \A r \in Range(q) : Key(r) \notin KeysOf(Parsed(f))
    BY <1>5, <1>7
  <2> QED
    BY <1>5, <1>7, <2>1, AppendKeeps
<1>12. Task.kind # "merge" => RowsKept(Target, c)
  BY <1>11 DEF f, merging, c
<1> HIDE DEF s
<1> QED
  BY <1>1, <1>2, <1>8, <1>9, <1>10, <1>12 DEF s, DeadLeft

LEMMA DieCron ==
  ASSUME CronInv, Die
  PROVE  CronInv'
<1>1. /\ run.tasks # <<>> /\ Task.of \in Series /\ Plan.tree \in Trees
      /\ run' = Idle /\ runs' = runs /\ failures' \in Nat
  BY DieIs
<1>2. PICK g : DeadLeft(g)
  BY DieIs
<1>3. FilesInv' /\ file' \in [Trees -> [Series -> FileType]]
  BY <1>1, <1>2, FileWritten DEF CronInv, DeadLeft
<1> QED
  BY <1>1, <1>3, RunOver

LEMMA RunStepCron ==
  ASSUME CronInv, PlatformInv, RunStep
  PROVE  CronInv'
<1>1. today \in Int
  BY BarAssumption DEF PlatformInv, Days
<1>2. ASSUME NEW script, NEW kind \in {"bars", "daily"}, Of(script, kind),
             NEW missing \in {"all", "new", "none"}, AppendRows(missing)
      PROVE  CronInv'
  BY <1>1, <1>2, AppendRowsCron DEF Of, Busy
<1>3. ASSUME NEW script, Of(script, "snapshot"), AppendSnapshot PROVE CronInv'
  BY <1>1, <1>3, AppendSnapshotCron DEF Of, Busy
<1>4. CASE CollectFundBars
  BY <1>2, <1>4 DEF CollectFundBars
<1>5. CASE CollectFundSnapshots
  BY <1>3, <1>5 DEF CollectFundSnapshots
<1>6. CASE CollectImeDaily
  BY <1>2, <1>6 DEF CollectImeDaily
<1>7. CASE CollectMissingBars
  BY <1>2, <1>7 DEF CollectMissingBars
<1>8. CASE CollectMissingSnapshots
  BY <1>3, <1>8 DEF CollectMissingSnapshots
<1>9. CASE CollectMissingDaily
  BY <1>2, <1>9 DEF CollectMissingDaily
<1>10. CASE CaptureSymbol
  BY <1>2, <1>10 DEF CaptureSymbol
<1>11. CASE CaptureContract
  BY <1>2, <1>11 DEF CaptureContract
<1>12. CASE CaptureOnce
  BY <1>3, <1>12 DEF CaptureOnce
<1>13. CASE CaptureMinuteBarArchive
  BY <1>2, <1>13 DEF CaptureMinuteBarArchive
<1>14. CASE CaptureImeCdcArchive
  BY <1>2, <1>14 DEF CaptureImeCdcArchive
<1>15. CASE CaptureDailyArchive
  BY <1>3, <1>15 DEF CaptureDailyArchive
<1>16. CASE FetchChunk
  BY <1>16, FetchChunkCron
<1>17. CASE MergeSeries
  BY <1>1, <1>17, MergeSeriesCron
<1>18. CASE Finish
  BY <1>18, FinishCron
<1>19. CASE FetchStats
  BY <1>19, FetchStatsCron
<1>20. CASE ReadRaises
  BY <1>1, <1>20, ReadRaisesCron
<1> QED
  BY <1>4, <1>5, <1>6, <1>7, <1>8, <1>9, <1>10, <1>11, <1>12, <1>13, <1>14, <1>15, <1>16,
     <1>17, <1>18, <1>19, <1>20 DEF RunStep

LEMMA NextCron == CronInv /\ PlatformInv /\ [Next]_vars => CronInv'
<1> SUFFICES ASSUME CronInv, PlatformInv, [Next]_vars PROVE CronInv'
  OBVIOUS
<1>1. today \in Int
  BY BarAssumption DEF PlatformInv, Days
<1>2. CASE UNCHANGED collectorVars
  BY <1>2, CronRests
<1>3. CASE CollectorNext
  <2>1. ASSUME NEW script \in DOMAIN Scripts, Begin(script) PROVE CronInv'
    BY <1>1, <2>1, BeginCron
  <2> QED
    BY <1>1, <1>3, <2>1, RunStepCron, RequestFailsCron, DieCron DEF CollectorNext
<1> QED
  BY <1>2, <1>3 DEF Next, Platform, Dataset, Cron, vars

\* The inductive invariant of the collected files.
THEOREM CronInvHolds == Spec => []CronInv
<1>1. Init => CronInv
  BY InitCron
<1>2. DataInv => PlatformInv
  BY DEF DataInv
<1>3. CronInv /\ PlatformInv /\ [Next]_vars => CronInv'
  BY NextCron
<1> QED
  BY <1>1, <1>2, <1>3, DataInvHolds, PTL DEF Spec

-----------------------------------------------------------------------------
(* What the archives promise *)

LEMMA OnceOf ==
  ASSUME NEW q \in Seq(Line), Ordered(q, Apart), Bad \notin Range(q)
  PROVE  Once(q)
<1> DEFINE k == [i \in 1..Len(q) |-> Key(q[i])]
<1>1. Len(q) \in Nat /\ DOMAIN q = 1..Len(q)
  OBVIOUS
<1>2. \A i, j \in 1..Len(q) : Key(q[i]) = Key(q[j]) => i = j
  BY ApartRows
<1>3. k \in Seq(KeysOf(q)) /\ Len(k) = Len(q) /\ DOMAIN k = 1..Len(q)
  BY <1>1 DEF KeysOf
<1>4. IsInjective(k)
  BY <1>1, <1>2 DEF IsInjective
<1>5. Range(k) = KeysOf(q)
  BY <1>1 DEF Range, KeysOf
<1> HIDE DEF k
<1>6. Cardinality(Range(k)) = Len(k)
  BY <1>3, <1>4, OnceLength
<1> QED
  BY <1>3, <1>5, <1>6 DEF Once

\* For every universe, calendar and number of failures: no file of either archive
\* ever holds two rows of one bar (archive.py _normalized, the existing keys of
\* the collectors, merge_by_key).
THEOREM OneRowPerBarHolds == Spec => []OneRowPerBar
<1>1. DataInv /\ CronInv => OneRowPerBar
  <2> SUFFICES ASSUME DataInv, CronInv PROVE OneRowPerBar
    OBVIOUS
  <2>1. ASSUME NEW s \in Symbols PROVE Once(store[s])
    <3>1. CASE IsTorn(s)
      <4>1. KeysOf(<<Torn>>) = {Key(Torn)}
        BY DEF KeysOf
      <4>2. Cardinality({Key(Torn)}) = 1 /\ Len(<<Torn>>) = 1
        BY FS_Singleton
      <4> QED
        BY <3>1, <4>1, <4>2 DEF Once, IsTorn
    <3>2. CASE ~IsTorn(s)
      <4>1. Proper(s, store[s])
        BY <3>2 DEF DataInv, DataSound
      <4> QED
        BY <4>1, ProperReadable, OnceOf DEF Proper
    <3> QED
      BY <3>1, <3>2
  <2>2. ASSUME NEW t \in Trees, NEW s \in Series PROVE Once(Parsed(file[t][s]))
    <3>1. file[t][s] \in FileType /\ Ordered(file[t][s].lines, Apart)
      BY DEF CronInv, FilesInv, Tidy
    <3> DEFINE q == Parsed(file[t][s])
    <3>2. q \in Seq(Line) /\ Ordered(q, Apart) /\ Bad \notin Range(q)
      BY <3>1, ParsedIs
    <3> HIDE DEF q
    <3>3. Once(q)
      BY <3>2, OnceOf
    <3> QED
      BY <3>3 DEF q
  <2> QED
    BY <2>1, <2>2 DEF OneRowPerBar
<1> QED
  BY <1>1, DataInvHolds, CronInvHolds, PTL

\* An incremental write keeps the bars of every file of a JSONL dataset.
LEMMA DatasetKeeps ==
  ASSUME DataInv, [Next]_vars, format = "jsonl", job.incremental, job'.pc = "write", NEW s \in Symbols
  PROVE  KeysOf(store[s]) \subseteq KeysOf(store'[s])
<1>1. CASE UNCHANGED store
  BY <1>1
<1>2. CASE WriteSymbol
  <2> DEFINE x == LeastOf(Unwritten)
             m == MergedRows(x)
  <2>1. /\ x \in Symbols /\ x \notin DOMAIN job.sums /\ (job.incremental => ~IsTorn(x))
    BY <1>2, WriteSymbolNext
  <2>2. store' = [store EXCEPT ![x] = m]
    BY <1>2 DEF WriteSymbol
  <2> HIDE DEF x
  <2>3. KeysOf(store[x]) \subseteq KeysOf(m)
    BY <2>1, MergedIs
  <2> HIDE DEF m
  <2>4. store'[s] = IF s = x THEN m ELSE store[s]
    BY <2>1, <2>2 DEF DataInv, DataTyped
  <2> QED
    BY <2>3, <2>4
<1>3. CASE FinishParquet
  BY <1>3 DEF FinishParquet, DataInv, WriterInv
<1>4. UNCHANGED store \/ WriteSymbol \/ FinishParquet
  <2>1. CASE StartDownload
    BY <2>1 DEF StartDownload, Start
  <2>2. CASE FetchDay \/ FetchFails \/ BeginWrite \/ TornRaises \/ CommitManifest \/ Crash
    BY <2>2 DEF FetchDay, FetchFails, BeginWrite, TornRaises, CommitManifest, Crash
  <2>3. DatasetNext => UNCHANGED store \/ WriteSymbol \/ FinishParquet
    BY <2>1, <2>2 DEF DatasetNext
  <2> QED
    BY <2>3 DEF Next, Platform, Dataset, Cron, vars, storeVars
<1> QED
  BY <1>1, <1>2, <1>3, <1>4

\* The bars one file has and another one lacks: at most that of an open line.
KeepsBars(f, g) == KeysOf(Parsed(f)) \ KeysOf(Parsed(g)) \subseteq
                     IF f.open THEN {Key(Last(f.lines))} ELSE {}

LEMMA WriteKeeps ==
  ASSUME CronInv, NEW t \in Trees, NEW s \in Series, NEW u \in Trees, NEW x \in Series, NEW g,
         Tidy(g), RowsKept(file[u][x], g), file' = [file EXCEPT ![u][x] = g]
  PROVE  KeepsBars(file[t][s], file'[t][s])
<1> DEFINE f == file[t][s]
<1>1. g \in FileType /\ f \in FileType
  BY DEF Tidy, CronInv, FilesInv
<1>2. file'[t][s] = IF t = u /\ s = x THEN g ELSE f
  BY DEF CronInv, CronTyped
<1>3. CASE t = u /\ s = x
  <2>1. RowsKept(f, g) /\ file'[t][s] = g
    BY <1>2, <1>3
  <2> HIDE DEF f
  <2>2. /\ KeysOf(Parsed(f)) = {Key(r) : r \in Range(f.lines) \ {Bad}}
        /\ KeysOf(Parsed(g)) = {Key(r) : r \in Range(g.lines) \ {Bad}}
    BY <1>1, ParsedIs
  <2> SUFFICES ASSUME NEW r \in Range(f.lines), r # Bad, r \notin Range(g.lines)
               PROVE  f.open /\ r = Last(f.lines)
    BY <2>1, <2>2 DEF KeepsBars, f
  <2> QED
    BY <2>1 DEF RowsKept
<1>4. CASE ~(t = u /\ s = x)
  BY <1>2, <1>4 DEF KeepsBars
<1> QED
  BY <1>3, <1>4

LEMMA CollectorKeeps ==
  ASSUME CronInv, [Next]_vars, failures' = failures \/ run.script # "merge_missing_data_archive",
         NEW t \in Trees, NEW s \in Series
  PROVE  KeepsBars(file[t][s], file'[t][s])
<1> DEFINE Kept == KeepsBars(file[t][s], file'[t][s])
<1> SUFFICES Kept
  OBVIOUS
<1>1. CASE UNCHANGED file
  BY <1>1 DEF KeepsBars
<1> HIDE DEF Kept
<1>2. ASSUME run.tasks # <<>>, Task.kind \in {"bars", "daily"}, NEW missing, AppendRows(missing)
      PROVE  Kept
  <2> DEFINE new == NewRows(Target, run.rows)
             g == Appended(Target, new)
  <2>1. /\ new \in Seq(Line) /\ Ordered(new, Apart) /\ Tidy(Target)
        /\ \A x \in Range(new) : Key(x) \notin KeysOf(Parsed(Target))
    BY <1>2, AppendRowsIs
  <2>2. file' = [file EXCEPT ![Plan.tree][Task.of] = g]
    BY <1>2 DEF AppendRows, Target
  <2> HIDE DEF new
  <2>3. Tidy(g) /\ RowsKept(Target, g)
    BY <2>1, AppendedIs, AppendKeeps
  <2> HIDE DEF g
  <2>4. Plan.tree \in Trees /\ Task.of \in Series
    BY <1>2, TaskIs
  <2> QED
    BY <2>2, <2>3, <2>4, WriteKeeps DEF Kept, Target
<1>3. ASSUME run.tasks # <<>>, Task.kind = "snapshot", AppendSnapshot PROVE Kept
  <2> DEFINE q == <<Snapshot>>
             g == Appended(Target, q)
  <2>1. /\ q \in Seq(Line) /\ Ordered(q, Apart) /\ Tidy(Target)
        /\ \A x \in Range(q) : Key(x) \notin KeysOf(Parsed(Target))
    BY <1>3, SnapshotIs
  <2>2. file' = [file EXCEPT ![Plan.tree][Task.of] = g]
    BY <1>3 DEF AppendSnapshot, Target
  <2> HIDE DEF q
  <2>3. Tidy(g) /\ RowsKept(Target, g)
    BY <2>1, AppendedIs, AppendKeeps
  <2> HIDE DEF g
  <2>4. Plan.tree \in Trees /\ Task.of \in Series
    BY <1>3, TaskIs
  <2> QED
    BY <2>2, <2>3, <2>4, WriteKeeps DEF Kept, Target
<1>4. CASE MergeSeries
  <2> DEFINE x == Task.of
             m == Merged(x)
             g == Appended(NoFile, m)
  <2>1. /\ run.tasks # <<>> /\ Task.kind = "merge"
        /\ UNCHANGED file \/ file' = [file EXCEPT !["archive"][x] = g]
    BY <1>4 DEF MergeSeries, Busy
  <2>2. /\ x \in Series /\ m \in Seq(Line) /\ Ordered(m, Apart)
        /\ Range(Parsed(file["archive"][x])) \subseteq Range(m)
    BY <2>1, MergeIs
  <2> HIDE DEF x, m
  <2>3. \A r \in Range(m) : Key(r) \notin KeysOf(Parsed(NoFile))
    BY NoFileIs
  <2>4. Tidy(g) /\ Range(g.lines) = Range(NoFile.lines) \cup Range(m)
    BY <2>2, <2>3, NoFileIs, AppendedIs
  <2>5. RowsKept(file["archive"][x], g)
    <3>1. file["archive"][x] \in FileType
      BY <2>2 DEF CronInv, FilesInv, Tidy, Trees
    <3>2. Range(Parsed(file["archive"][x])) = Range(file["archive"][x].lines) \ {Bad}
      BY <3>1, ParsedIs
    <3> QED
      BY <2>2, <2>4, <3>2 DEF RowsKept
  <2>6. "archive" \in Trees
    BY DEF Trees
  <2> HIDE DEF g
  <2>7. CASE file' = [file EXCEPT !["archive"][x] = g]
    BY <2>2, <2>4, <2>5, <2>6, <2>7, WriteKeeps DEF Kept
  <2> QED
    BY <1>1, <2>1, <2>7 DEF Kept
<1>5. ASSUME RunStep PROVE Kept
  <2>1. FetchChunk \/ FetchStats \/ ReadRaises \/ Finish => Kept
    BY <1>1 DEF FetchChunk, FetchStats, ReadRaises, Finish
  <2>2. ASSUME NEW script, NEW kind \in {"bars", "daily"}, Of(script, kind),
               NEW missing, AppendRows(missing)
        PROVE  Kept
    BY <1>2, <2>2 DEF Of, Busy
  <2>3. ASSUME NEW script, Of(script, "snapshot"), AppendSnapshot PROVE Kept
    BY <1>3, <2>3 DEF Of, Busy
  <2>4. CollectFundBars => Kept
    BY <2>2 DEF CollectFundBars
  <2>5. CollectImeDaily => Kept
    BY <2>2 DEF CollectImeDaily
  <2>6. CollectMissingBars => Kept
    BY <2>2 DEF CollectMissingBars
  <2>7. CollectMissingDaily => Kept
    BY <2>2 DEF CollectMissingDaily
  <2>8. CaptureSymbol => Kept
    BY <2>2 DEF CaptureSymbol
  <2>9. CaptureContract => Kept
    BY <2>2 DEF CaptureContract
  <2>10. CaptureMinuteBarArchive => Kept
    BY <2>2 DEF CaptureMinuteBarArchive
  <2>11. CaptureImeCdcArchive => Kept
    BY <2>2 DEF CaptureImeCdcArchive
  <2>12. CollectFundSnapshots => Kept
    BY <2>3 DEF CollectFundSnapshots
  <2>13. CollectMissingSnapshots => Kept
    BY <2>3 DEF CollectMissingSnapshots
  <2>14. CaptureOnce => Kept
    BY <2>3 DEF CaptureOnce
  <2>15. CaptureDailyArchive => Kept
    BY <2>3 DEF CaptureDailyArchive
  <2>16. MergeSeries => Kept
    BY <1>4
  <2> QED
    BY <1>5, <2>1, <2>4, <2>5, <2>6, <2>7, <2>8, <2>9, <2>10,
       <2>11, <2>12, <2>13, <2>14, <2>15, <2>16 DEF RunStep
<1>6. CASE CollectorNext
  <2>1. ASSUME NEW script, Begin(script) PROVE UNCHANGED file
    BY <2>1 DEF Begin
  <2>2. RequestFails => UNCHANGED file
    BY DEF RequestFails
  <2>3. ASSUME Die PROVE Kept
    <3>1. failures' = failures + 1 /\ failures \in Nat
      BY <2>3 DEF Die, CronInv, CronTyped
    <3>2. run.tasks # <<>> /\ Task.of \in Series /\ Plan.tree \in Trees
      BY <2>3, DieIs
    <3>3. Task.kind # "merge"
      BY <3>1, <3>2, TaskIs
    <3>4. PICK g : DeadLeft(g)
      BY <2>3, DieIs
    <3>5. /\ Tidy(g) /\ file' = [file EXCEPT ![Plan.tree][Task.of] = g]
          /\ RowsKept(Target, g)
      BY <3>3, <3>4 DEF DeadLeft
    <3> QED
      BY <3>2, <3>5, WriteKeeps DEF Kept, Target
  <2> QED
    BY <1>1, <1>5, <1>6, <2>1, <2>2, <2>3 DEF CollectorNext, Kept
<1> QED
  BY <1>1, <1>6 DEF Next, Platform, Dataset, Cron, vars, collectorVars, Kept

\* For every universe, calendar and number of failures: an incremental download
\* keeps what the file had, and a collector loses no record, whatever fails, but
\* that of a line without its newline; only a merge that dies, which has truncated
\* the file, loses others (archive.py write, fetch_data/).
THEOREM RowsLostOnlyByFaultHolds == Spec => RowsLostOnlyByFault
<1>1. DataInv /\ CronInv /\ [Next]_vars =>
        [/\ format = "jsonl" /\ job.incremental /\ job'.pc = "write" =>
              \A s \in Symbols : KeysOf(store[s]) \subseteq KeysOf(store'[s])
         /\ failures' = failures \/ run.script # "merge_missing_data_archive" =>
              \A t \in Trees, s \in Series :
                KeysOf(Parsed(file[t][s])) \ KeysOf(Parsed(file'[t][s])) \subseteq
                  IF file[t][s].open THEN {Key(Last(file[t][s].lines))} ELSE {}]_vars
  BY DatasetKeeps, CollectorKeeps DEF KeepsBars
<1> QED
  BY <1>1, DataInvHolds, CronInvHolds, PTL DEF Spec, RowsLostOnlyByFault

\* The bars of a day the platform has.
BarsOf(s, d) == {<<d, k>> : k \in 1..published[s][d]}

LEMMA ServedKeys ==
  ASSUME PlatformInv, NEW s \in Symbols, NEW from \in Int, NEW to \in Int
  PROVE  \A d \in (from .. to) \cap Days : BarsOf(s, d) \subseteq KeysOf(Served(s, from, to))
<1> SUFFICES ASSUME NEW d \in (from .. to) \cap Days, NEW n \in 1..published[s][d]
             PROVE  <<d, n>> \in KeysOf(Served(s, from, to))
  BY DEF BarsOf
<1> DEFINE have == {k \in ((from .. to) \cap Days) \X (1 .. Slots[s]) : k[2] <= published[s][k[1]]}
           rows == Range(Served(s, from, to))
           r == [day |-> d, slot |-> n, over |-> d < today]
<1>1. published[s][d] \in Nat /\ published[s][d] <= Slots[s] /\ Slots[s] \in Nat
  BY BarAssumption DEF PlatformInv
<1>2. n \in 1..Slots[s] /\ n <= published[s][d]
  BY <1>1
<1>3. <<d, n>> \in have
  BY <1>2
<1>4. rows = {[day |-> k[1], slot |-> k[2], over |-> k[1] < today] : k \in have}
  BY ServedIs
<1> HIDE DEF have, rows
<1>5. r \in rows
  BY <1>3, <1>4
<1>6. Key(r) = <<d, n>>
  BY DEF Key
<1> HIDE DEF r
<1> QED
  BY <1>5, <1>6, KeysAre DEF rows

\* All the bars of one day, as they are served.
LEMMA ServedDayKeys ==
  ASSUME PlatformInv, NEW s \in Symbols, NEW d \in Days
  PROVE  KeysOf(Served(s, d, d)) = BarsOf(s, d)
<1>1. d \in Int /\ today \in Int /\ published[s][d] \in Nat
  BY BarAssumption DEF PlatformInv, Days
<1>2. Range(Served(s, d, d)) = Bars(d, published[s][d], d < today)
  BY ServedDay
<1>3. (d < today) \in BOOLEAN
  BY <1>1
<1>4. ASSUME NEW over \in BOOLEAN
      PROVE  {Key(r) : r \in Bars(d, published[s][d], over)} = BarsOf(s, d)
  BY <1>1, BarsAre DEF BarsOf
<1>5. {Key(r) : r \in Range(Served(s, d, d))} = BarsOf(s, d)
  BY <1>2, <1>3, <1>4
<1> QED
  BY <1>5, KeysAre

\* What an append makes of the items of a report.
LEMMA AppendItems ==
  ASSUME NEW missing, AppendRows(missing)
  PROVE  \E items : run' = Onto([run EXCEPT !.items = items], Tail(run.tasks))
  BY DEF AppendRows

\* What a script has fetched of the minute bars it asks for in chunks: all those
\* of the days behind the next chunk that were over when it read the date.
ChunksInv ==
  run.tasks # <<>> =>
    /\ run.end <= today
    /\ Task.kind = "bars" =>
         \A d \in Days : run.end - Plan.days <= d /\ d < run.next /\ d < run.end =>
           BarsOf(Task.of, d) \subseteq KeysOf(run.rows)

\* A range of which nothing is fetched begins with the first day asked for.
LEMMA ChunksBegin ==
  ASSUME NEW days \in Int, NEW end \in Int, NEW d \in Days
  PROVE  ~(end - days <= d /\ d < Floor(end - days))
  BY BarAssumption DEF Floor, Days

LEMMA ChunksOnto ==
  ASSUME CronInv, ChunksInv, today \in Int, today' = today, run.tasks # <<>>,
         NEW items, NEW tasks \in Seq(TaskType), run' = Onto([run EXCEPT !.items = items], tasks)
  PROVE  ChunksInv'
<1> DEFINE r == [run EXCEPT !.items = items]
           plan == Scripts[r.script]
           more == /\ plan.raises # "task" /\ r.tasks # <<>> /\ tasks # <<>>
                   /\ Head(tasks).kind = Head(r.tasks).kind
           end == IF more THEN r.end ELSE today
<1>1. run \in RunType /\ run.script \in DOMAIN Scripts
  BY TaskIs
<1>2. /\ DOMAIN r = {"script", "tasks", "rows", "next", "end", "items", "stamp"}
      /\ r.script = run.script /\ r.end = run.end /\ run.end \in Int
  BY <1>1 DEF RunType
<1>3. plan = Plan /\ Plan.days \in Int
  BY <1>1, <1>2, ScriptsAre DEF Plan
<1>4. run' = [r EXCEPT !.tasks = tasks, !.rows = <<>>, !.end = end, !.next = Floor(end - plan.days)]
  BY DEF Onto
<1>5. end \in Int /\ end <= today
  BY <1>2 DEF ChunksInv
<1> HIDE DEF r, end, plan
<1>6. run'.script = run.script /\ run'.end = end /\ run'.next = Floor(end - plan.days)
  BY <1>2, <1>4
<1>7. Plan' = Plan
  BY <1>6 DEF Plan
<1>8. \A d \in Days : ~(run'.end - Plan'.days <= d /\ d < run'.next)
  BY <1>3, <1>5, <1>6, <1>7, ChunksBegin
<1> QED
  BY <1>5, <1>6, <1>8 DEF ChunksInv

LEMMA ChunksStart ==
  ASSUME ChunksInv, today \in Int, today' = today, NEW script \in DOMAIN Scripts, Begin(script)
  PROVE  ChunksInv'
<1> DEFINE r == [Idle EXCEPT !.script = script, !.stamp = runs']
           tasks == Scripts[script].tasks
<1>1. run' = Onto(r, tasks)
  BY DEF Begin
<1>2. r.tasks = <<>> /\ r.script = script /\ DOMAIN r = DOMAIN Idle
  BY DEF Idle
<1>3. Scripts[script].days \in Int
  BY ScriptsAre
<1> HIDE DEF r
<1>4. run' = [r EXCEPT !.tasks = tasks, !.rows = <<>>, !.end = today,
                       !.next = Floor(today - Scripts[script].days)]
  BY <1>1, <1>2 DEF Onto
<1>5. run'.script = script /\ run'.end = today /\ run'.next = Floor(today - Scripts[script].days)
  BY <1>2, <1>4 DEF Idle
<1>6. Plan' = Scripts[script]
  BY <1>5 DEF Plan
<1>7. \A d \in Days : ~(run'.end - Plan'.days <= d /\ d < run'.next)
  BY <1>3, <1>5, <1>6, ChunksBegin
<1> QED
  BY <1>5, <1>7 DEF ChunksInv

LEMMA ChunksFetched ==
  ASSUME CronInv, PlatformInv, ChunksInv, today' = today, published' = published, FetchChunk
  PROVE  ChunksInv'
<1> DEFINE to == ChunkEnd(run.next, run.end, Span)
           v == Served(Task.of, run.next, to)
           rows == run.rows \o v
<1>1. /\ run \in RunType /\ Task.kind = "bars" /\ Task \in TaskType /\ run.tasks # <<>>
  BY TaskIs DEF FetchChunk, Busy
<1>2. run.next \in Int /\ run.end \in Int /\ run.rows \in Seq(Line) /\ Task.of \in Symbols /\ Span \in Nat
  BY <1>1, CollectorAssumption DEF RunType, TaskType
<1>3. to \in Int
  BY <1>2 DEF ChunkEnd
<1>4. run' = [run EXCEPT !.rows = rows, !.next = to + 1]
  BY DEF FetchChunk
<1> HIDE DEF to
<1>5. /\ v \in Seq(Line)
      /\ \A d \in (run.next .. to) \cap Days : BarsOf(Task.of, d) \subseteq KeysOf(v)
  BY <1>2, <1>3, ServedIs, ServedKeys
<1> HIDE DEF v
<1>6. KeysOf(rows) = KeysOf(run.rows) \cup KeysOf(v)
  BY <1>2, <1>5, JoinRange, KeysAre
<1> HIDE DEF rows
<1>7. /\ run'.script = run.script /\ run'.tasks = run.tasks /\ run'.rows = rows
      /\ run'.next = to + 1 /\ run'.end = run.end
  BY <1>1, <1>4 DEF RunType
<1>8. Task' = Task /\ Plan' = Plan
  BY <1>7 DEF Task, Plan
<1>9. ASSUME NEW d \in Days, run.end - Plan.days <= d, d < to + 1, d < run.end
      PROVE  BarsOf(Task.of, d) \subseteq KeysOf(rows)
  <2>1. d \in Int
    BY BarAssumption DEF Days
  <2>2. CASE d < run.next
    BY <1>1, <1>6, <1>9, <2>2 DEF ChunksInv
  <2>3. CASE ~(d < run.next)
    <3>1. d \in (run.next .. to) \cap Days
      BY <1>2, <1>3, <1>9, <2>1, <2>3
    <3> QED
      BY <1>5, <1>6, <3>1
  <2> QED
    BY <2>2, <2>3
<1>10. \A d \in Days : BarsOf(Task.of, d)' = BarsOf(Task.of, d)
  BY <1>8 DEF BarsOf
<1> QED
  BY <1>1, <1>7, <1>8, <1>9, <1>10 DEF ChunksInv

LEMMA ChunksKept ==
  ASSUME CronInv, PlatformInv, ChunksInv, [PlatformNext]_platformVars, run' = run
  PROVE  ChunksInv'
<1> SUFFICES ASSUME run.tasks # <<>> PROVE ChunksInv'
  BY DEF ChunksInv
<1>1. run \in RunType /\ Task \in TaskType
  BY TaskIs
<1>2. Task' = Task /\ Plan' = Plan /\ run.end \in Int
  BY <1>1 DEF Task, Plan, RunType
<1>3. /\ today \in Int /\ today' \in Int /\ today <= today'
      /\ \A s \in Symbols, d \in Days : d < today => published'[s][d] = published[s][d]
  BY PlatformGoesOn
<1>4. run'.end <= today'
  BY <1>2, <1>3 DEF ChunksInv
<1>5. ASSUME Task.kind = "bars", NEW d \in Days, d < run.end PROVE BarsOf(Task.of, d)' = BarsOf(Task.of, d)
  <2>1. Task.of \in Symbols /\ d \in Int
    BY <1>1, <1>5, BarAssumption DEF TaskType, Days
  <2>2. d < today
    BY <1>2, <1>3, <1>5, <2>1 DEF ChunksInv
  <2> QED
    BY <1>2, <1>3, <2>1, <2>2 DEF BarsOf
<1> QED
  BY <1>2, <1>4, <1>5 DEF ChunksInv

LEMMA StepChunks == CronInv /\ PlatformInv /\ ChunksInv /\ [Next]_vars => ChunksInv'
<1> SUFFICES ASSUME CronInv, PlatformInv, ChunksInv, [Next]_vars PROVE ChunksInv'
  OBVIOUS
<1>1. today \in Int
  BY BarAssumption DEF PlatformInv, Days
<1>2. run' = run => ChunksInv'
  <2>1. [PlatformNext]_platformVars
    BY DEF Next, Platform, Dataset, Cron, vars
  <2> QED
    BY <2>1, ChunksKept
<1>3. run' = Idle => ChunksInv'
  BY IdleIs DEF ChunksInv
<1>4. CASE CollectorNext /\ UNCHANGED platformVars
  <2>1. today' = today /\ published' = published
    BY <1>4 DEF platformVars
  <2>2. ASSUME run.tasks # <<>>, NEW tasks \in Seq(TaskType), run' = Onto(run, tasks) PROVE ChunksInv'
    <3>1. run = [run EXCEPT !.items = run.items]
      BY <2>2, TaskIs DEF RunType
    <3> QED
      BY <1>1, <2>1, <2>2, <3>1, ChunksOnto
  <2>3. run.tasks # <<>> => run \in RunType /\ run.tasks \in Seq(TaskType) /\ Tail(run.tasks) \in Seq(TaskType)
    BY TaskIs DEF RunType
  <2>4. ASSUME NEW script, NEW kind, NEW missing, Of(script, kind), AppendRows(missing) PROVE ChunksInv'
    <3>1. run.tasks # <<>> /\ \E items : run' = Onto([run EXCEPT !.items = items], Tail(run.tasks))
      BY <2>4, AppendItems DEF Of, Busy
    <3> QED
      BY <1>1, <2>1, <2>3, <3>1, ChunksOnto
  <2>5. ASSUME NEW script, NEW kind, Of(script, kind), AppendSnapshot PROVE ChunksInv'
    BY <2>2, <2>3, <2>5 DEF AppendSnapshot, Of, Busy
  <2>6. RequestFails \/ ReadRaises => ChunksInv'
    <3> DEFINE others == Picked(run.tasks, {i \in DOMAIN run.tasks : run.tasks[i].kind # Task.kind})
    <3>1. run.tasks # <<>> => others \in Seq(TaskType)
      BY <2>3, PickedRange
    <3>2. RequestFails \/ ReadRaises =>
            /\ run.tasks # <<>>
            /\ run' = Onto(run, Tail(run.tasks)) \/ run' = Idle \/ run' = Onto(run, others)
      BY DEF RequestFails, ReadRaises, Raised, Busy
    <3> HIDE DEF others
    <3> QED
      BY <1>3, <2>2, <2>3, <3>1, <3>2
  <2>7. MergeSeries => ChunksInv'
    BY <2>2, <2>3 DEF MergeSeries, Busy
  <2>8. Finish \/ Die => ChunksInv'
    BY <1>3 DEF Finish, Die
  <2>9. FetchChunk => ChunksInv'
    BY <2>1, ChunksFetched
  <2>10. FetchStats => ChunksInv'
    <3> SUFFICES ASSUME FetchStats PROVE ChunksInv'
      OBVIOUS
    <3>1. Task.kind = "daily" /\ run.tasks # <<>>
      BY DEF FetchStats, Busy
    <3>2. run'.tasks = run.tasks /\ run'.end = run.end
      BY <2>3, <3>1 DEF FetchStats, RunType
    <3>3. Task' = Task
      BY <3>2 DEF Task
    <3> QED
      BY <2>1, <3>1, <3>2, <3>3 DEF ChunksInv
  <2>11. ASSUME NEW script \in DOMAIN Scripts, Begin(script) PROVE ChunksInv'
    BY <1>1, <2>1, <2>11, ChunksStart
  <2>12. CollectFundBars \/ CollectImeDaily \/ CollectMissingBars \/ CollectMissingDaily => ChunksInv'
    BY <2>4 DEF CollectFundBars, CollectImeDaily, CollectMissingBars, CollectMissingDaily
  <2>13. CaptureSymbol \/ CaptureContract \/ CaptureMinuteBarArchive \/ CaptureImeCdcArchive => ChunksInv'
    BY <2>4 DEF CaptureSymbol, CaptureContract, CaptureMinuteBarArchive, CaptureImeCdcArchive
  <2>14. /\ CollectFundSnapshots \/ CollectMissingSnapshots => ChunksInv'
         /\ CaptureOnce \/ CaptureDailyArchive => ChunksInv'
    BY <2>5 DEF CollectFundSnapshots, CollectMissingSnapshots, CaptureOnce, CaptureDailyArchive
  <2>15. RunStep => ChunksInv'
    BY <2>6, <2>7, <2>8, <2>9, <2>10, <2>12, <2>13, <2>14 DEF RunStep
  <2> QED
    BY <1>4, <2>6, <2>8, <2>11, <2>15 DEF CollectorNext
<1> QED
  BY <1>2, <1>4 DEF Next, Platform, Dataset, Cron, vars, collectorVars

\* What collect_data has appended is in the item it adds: the days its file then
\* has, and all the bars of a day that was over.
LEMMA AppendReports ==
  ASSUME CronInv, PlatformInv, ChunksInv, today \in Int, run.tasks # <<>>, Task.kind \in {"bars", "daily"},
         run.script = "collect_data", AppendRows("all"),
         NEW s \in DOMAIN run'.items \ DOMAIN run.items, ~file["archive"][s].open
  PROVE  /\ run'.items[s].missing =
              run'.items[s].asked \ UNION {DaysOf(Parsed(file'["archive"][s])), KnownClosed, {today}}
         /\ Task.kind = "bars" => \A d \in run'.items[s].asked :
              d < run.end => KeysOf(Served(s, d, d)) \subseteq KeysOf(Parsed(file'["archive"][s]))
<1> DEFINE x == Task.of
           new == NewRows(Target, run.rows)
           g == Appended(Target, new)
           item == [asked |-> Asked, missing |-> Unexplained(new)]
           items == Assigned(run.items, x, item)
           r == [run EXCEPT !.items = items]
<1>1. /\ new \in Seq(Line) /\ Ordered(new, Apart) /\ Tidy(Target) /\ Bad \notin Range(new)
      /\ x \in Symbols /\ \A q \in Range(new) : Key(q) \notin KeysOf(Parsed(Target))
  BY AppendRowsIs
<1>15. /\ Range(new) = {q \in Range(run.rows) : Key(q) \notin KeysOf(Parsed(Target))}
       /\ run.next > run.end /\ run.next \in Int /\ run.end \in Int
  BY TaskIs, NewRowsAre DEF Tidy, RunType, AppendRows
<1>2. /\ file' = [file EXCEPT !["archive"][x] = g] /\ Target = file["archive"][x]
      /\ run' = Onto(r, Tail(run.tasks))
  <2>1. Plan.tree = "archive"
    BY DEF Plan, Scripts, CollectData
  <2> QED
    BY <2>1 DEF AppendRows, Target
<1>3. /\ run \in RunType /\ x \in Series /\ Tail(run.tasks) \in Seq(TaskType)
      /\ run.script \in DOMAIN Scripts /\ Target \in FileType
  BY TaskIs DEF Tidy
<1>4. item \in ItemType
  BY DEF ItemType, Asked, Unexplained
<1>5. item.asked = Asked /\ item.missing = Asked \ UNION {DaysOf(new), DaysOf(Parsed(Target)), KnownClosed, {today}}
  BY DEF Unexplained
<1> HIDE DEF new, item, x
<1>6. items \in UNION {[U -> ItemType] : U \in SUBSET Series}
  BY <1>3, <1>4, ItemsAre
<1>7. DOMAIN items = DOMAIN run.items \cup {x} /\ items[x] = item
  BY DEF Assigned
<1> HIDE DEF items
<1>8. r \in RunType /\ r.script = run.script /\ r.items = items
  BY <1>3, <1>6 DEF RunType
<1> HIDE DEF r
<1>9. run'.items = items
  BY <1>2, <1>3, <1>8, OntoIs
<1>10. s = x
  BY <1>7, <1>9
<1>11. Tidy(g) /\ Range(g.lines) = Range(Target.lines) \cup Range(new)
  BY <1>1, <1>2, <1>10, AppendedIs
<1> HIDE DEF g
<1>12. file'["archive"][x] = g
  BY <1>2, <1>3 DEF CronInv, CronTyped, Trees
<1>13. Range(Parsed(g)) = Range(Parsed(Target)) \cup Range(new)
  <2>1. g \in FileType
    BY <1>11 DEF Tidy
  <2>2. Range(Parsed(g)) = Range(g.lines) \ {Bad} /\ Range(Parsed(Target)) = Range(Target.lines) \ {Bad}
    BY <1>3, <2>1, ParsedIs
  <2> QED
    BY <1>1, <1>11, <2>2
<1>14. DaysOf(Parsed(g)) = DaysOf(Parsed(Target)) \cup DaysOf(new)
  BY <1>13, KeysAre
<1>16. KeysOf(run.rows) \subseteq KeysOf(Parsed(g))
  <2>1. ASSUME NEW q \in Range(run.rows) PROVE Key(q) \in KeysOf(Parsed(g))
    BY <1>13, <1>15, KeysAre
  <2> QED
    BY <2>1, KeysAre
<1>17. ASSUME Task.kind = "bars", NEW d \in Asked, d < run.end
       PROVE  KeysOf(Served(x, d, d)) \subseteq KeysOf(Parsed(g))
  <2>1. d \in Days /\ run.end - Plan.days <= d
    <3>1. Plan.days \in Int
      BY <1>3, ScriptsAre DEF Plan
    <3>2. d \in ((run.end - Plan.days) .. run.end) \cap Days
      BY <1>17 DEF Asked
    <3> QED
      BY <1>15, <3>1, <3>2
  <2>2. d < run.next
    <3>1. d \in Int
      BY <2>1, BarAssumption DEF Days
    <3> QED
      BY <1>15, <1>17, <3>1
  <2>3. BarsOf(x, d) \subseteq KeysOf(run.rows)
    BY <1>17, <2>1, <2>2 DEF ChunksInv, x
  <2>4. KeysOf(Served(x, d, d)) = BarsOf(x, d)
    BY <1>1, <2>1, ServedDayKeys
  <2> QED
    BY <1>16, <2>3, <2>4
<1> QED
  BY <1>5, <1>7, <1>9, <1>10, <1>12, <1>14, <1>17

\* No other step adds an item to the report of collect_data.
LEMMA ReportRests ==
  ASSUME CronInv, today \in Int, [Next]_vars, run.script = "collect_data"
  PROVE  \/ run.tasks # <<>> /\ Task.kind \in {"bars", "daily"} /\ AppendRows("all")
         \/ DOMAIN run'.items \subseteq DOMAIN run.items
<1> DEFINE Reports == run.tasks # <<>> /\ Task.kind \in {"bars", "daily"} /\ AppendRows("all")
           Rests == DOMAIN run'.items \subseteq DOMAIN run.items
<1>1. /\ run \in RunType /\ run.script \in DOMAIN Scripts /\ run # Idle /\ run.tasks \in Seq(TaskType)
  BY IdleIs DEF CronInv, CronTyped, RunType, Scripts
<1>2. run' = run => Rests
  OBVIOUS
<1>3. run' = Idle => Rests
  BY IdleIs, FilesAre
<1>4. ASSUME NEW tasks \in Seq(TaskType), run' = Onto(run, tasks) PROVE Rests
  BY <1>1, <1>4, OntoIs
<1> HIDE DEF Reports, Rests
<1>5. run.tasks # <<>> => Tail(run.tasks) \in Seq(TaskType)
  BY TaskIs
<1>6. ASSUME NEW kind, Of("collect_data", kind), AppendSnapshot PROVE Rests
  BY <1>4, <1>5, <1>6 DEF AppendSnapshot, Of, Busy
<1>7. RequestFails \/ ReadRaises => Rests
  <2> DEFINE others == Picked(run.tasks, {i \in DOMAIN run.tasks : run.tasks[i].kind # Task.kind})
  <2>1. others \in Seq(TaskType)
    BY <1>1, PickedRange
  <2>2. RequestFails \/ ReadRaises =>
          /\ run.tasks # <<>>
          /\ run' = Onto(run, Tail(run.tasks)) \/ run' = Idle \/ run' = Onto(run, others)
    BY DEF RequestFails, ReadRaises, Raised, Busy
  <2> HIDE DEF others
  <2> QED
    BY <1>3, <1>4, <1>5, <2>1, <2>2
<1>8. ASSUME RunStep PROVE Reports \/ Rests
  <2>1. CollectFundBars => Reports
    BY DEF CollectFundBars, Of, Busy, Reports
  <2>2. CollectImeDaily => Reports
    BY DEF CollectImeDaily, Of, Busy, Reports
  <2>3. CollectFundSnapshots => Rests
    BY <1>6 DEF CollectFundSnapshots
  <2>4. FetchChunk \/ FetchStats => Rests
    BY <1>1 DEF FetchChunk, FetchStats, RunType, Rests
  <2>5. MergeSeries => Rests
    BY <1>4, <1>5 DEF MergeSeries, Busy
  <2>6. Finish => Rests
    BY <1>3 DEF Finish
  <2>7. ~CollectMissingBars /\ ~CollectMissingSnapshots /\ ~CollectMissingDaily
    BY DEF CollectMissingBars, CollectMissingSnapshots, CollectMissingDaily, Of
  <2>8. ~CaptureSymbol /\ ~CaptureContract /\ ~CaptureOnce
    BY DEF CaptureSymbol, CaptureContract, CaptureOnce, Of
  <2>9. ~CaptureMinuteBarArchive /\ ~CaptureImeCdcArchive /\ ~CaptureDailyArchive
    BY DEF CaptureMinuteBarArchive, CaptureImeCdcArchive, CaptureDailyArchive, Of
  <2> QED
    BY <1>7, <1>8, <2>1, <2>2, <2>3, <2>4, <2>5, <2>6, <2>7, <2>8, <2>9 DEF RunStep
<1>9. Die => Rests
  BY <1>3 DEF Die
<1>10. ASSUME NEW script PROVE ~Begin(script)
  BY <1>1 DEF Begin
<1>11. CollectorNext => Reports \/ Rests
  BY <1>7, <1>8, <1>9, <1>10 DEF CollectorNext
<1> QED
  BY <1>2, <1>11 DEF Next, Platform, Dataset, Cron, vars, collectorVars, Reports, Rests

\* For every universe, calendar, chunk length and number of failures: the coverage
\* report of collect_data is right about every series when the series is reported
\* on, and the file then has all the minute bars of the days that were over, but for
\* a file whose last line was cut short (_classify_missing_days, iter_date_chunks).
THEOREM ReportTrueHolds == Spec => ReportTrue
<1>1. Init => ChunksInv
  BY IdleIs DEF Init, CollectorInit, ChunksInv
<1>2. DataInv /\ CronInv /\ ChunksInv /\ [Next]_vars => ChunksInv'
  BY StepChunks DEF DataInv
<1>3. DataInv /\ CronInv /\ ChunksInv /\ [Next]_vars =>
        [run.script = "collect_data" =>
           \A s \in DOMAIN run'.items \ DOMAIN run.items : ~file["archive"][s].open =>
             LET item == run'.items[s]
                 have == Parsed(file'["archive"][s])
             IN /\ item.missing = item.asked \ UNION {DaysOf(have), KnownClosed, {today}}
                /\ Task.kind = "bars" => \A d \in item.asked :
                     d < run.end => KeysOf(Served(s, d, d)) \subseteq KeysOf(have)]_vars
  <2> SUFFICES ASSUME DataInv, CronInv, ChunksInv, [Next]_vars, run.script = "collect_data",
                      NEW s \in DOMAIN run'.items \ DOMAIN run.items, ~file["archive"][s].open
               PROVE  /\ run'.items[s].missing =
                           run'.items[s].asked \ UNION {DaysOf(Parsed(file'["archive"][s])), KnownClosed, {today}}
                      /\ Task.kind = "bars" => \A d \in run'.items[s].asked :
                           d < run.end =>
                             KeysOf(Served(s, d, d)) \subseteq KeysOf(Parsed(file'["archive"][s]))
    OBVIOUS
  <2>1. today \in Int /\ PlatformInv
    BY BarAssumption DEF DataInv, PlatformInv, Days
  <2>2. run.tasks # <<>> /\ Task.kind \in {"bars", "daily"} /\ AppendRows("all")
    BY <2>1, ReportRests
  <2> QED
    BY <2>1, <2>2, AppendReports
<1> QED
  BY <1>1, <1>2, <1>3, DataInvHolds, CronInvHolds, PTL DEF Spec, ReportTrue
=============================================================================
