---- MODULE BookLemmas ----
(***************************************************************************)
(* What the proofs about the components share. First, every operation of   *)
(* the order rules moves one order onward. Second, counting and sums over  *)
(* finite sets: the ledgers are compared with the sum of their fills.      *)
(* Third, sequences: joined, cut, and selected from. Induction is stated   *)
(* for a set of good subsets, numbers or sequences instead of a predicate, *)
(* from the library's fact that the subsets of a finite set are well       *)
(* founded.                                                                *)
(***************************************************************************)
EXTENDS OrderRules, Selection, Functions, FiniteSetTheorems, SequenceTheorems, TLAPS

\* An order record, whatever other fields it has.
Record(o) ==
  /\ o = [x \in DOMAIN o |-> o[x]]
  /\ {"status", "filled", "qty"} \subseteq DOMAIN o
  /\ o.status \in Statuses
  /\ o.filled \in Nat
  /\ o.qty \in Nat

\* Changing the status changes nothing else.
LEMMA MoveKeeps ==
  ASSUME NEW o, Record(o), NEW s \in Statuses
  PROVE  /\ Record(MoveTo(o, s))
         /\ DOMAIN MoveTo(o, s) = DOMAIN o
         /\ MoveTo(o, s).status = s
         /\ MoveTo(o, s).filled = o.filled
         /\ MoveTo(o, s).qty = o.qty
  BY DEF Record, MoveTo

\* A status change along an edge of the table, to any status that says nothing
\* of new fills, keeps the promise.
LEMMA MoveOnward ==
  ASSUME NEW o, Record(o), Consistent(o),
         NEW s \in {"ACCEPTED", "REJECTED", "CANCEL_PENDING", "CANCELLED", "EXPIRED"},
         CanMove(o.status, s)
  PROVE  Onward(o, MoveTo(o, s))
  <1>1. s \in Statuses
    BY DEF Statuses, Working, Terminal
  <1>2. s \in Later[o.status]
    BY DEF Record, CanMove, Allowed, Later, Statuses, Working, Terminal
  <1>3. s \in {"ACCEPTED", "REJECTED"} => o.filled = 0
    BY DEF Record, Consistent, CanMove, Allowed, Statuses, Working, Terminal
  <1>4. o.status # "FILLED"
    BY DEF CanMove, Allowed, Working
  <1> QED
    BY <1>1, <1>2, <1>3, <1>4, MoveKeeps DEF Onward, Consistent, Record

\* An order that stays as it is keeps the promise.
LEMMA StayOnward ==
  ASSUME NEW o, Record(o), Consistent(o)
  PROVE  Onward(o, o)
  BY DEF Record, Onward, Later, Statuses, Working, Terminal

\* A fill keeps the promise: the quantity is not exceeded, and the new status
\* says exactly whether the order is complete.
LEMMA FillOnward ==
  ASSUME NEW o, Record(o), Consistent(o), NEW n \in Nat \ {0}, CanFill(o, n)
  PROVE  /\ Record(AfterFill(o, n))
         /\ DOMAIN AfterFill(o, n) = DOMAIN o
         /\ Onward(o, AfterFill(o, n))
  <1> DEFINE p == AfterFill(o, n)
  <1>1. /\ p.status = StatusAfterFill(o, n)
        /\ p.filled = o.filled + n
        /\ p.qty = o.qty
        /\ DOMAIN p = DOMAIN o
        /\ p = [x \in DOMAIN p |-> p[x]]
    BY DEF AfterFill, Record
  <1>2. /\ StatusAfterFill(o, n) \in {"FILLED", "CANCEL_PENDING", "PARTIALLY_FILLED"}
        /\ StatusAfterFill(o, n) = "FILLED" <=> o.filled + n >= o.qty
        /\ StatusAfterFill(o, n) = "CANCEL_PENDING" => o.status = "CANCEL_PENDING"
    BY DEF StatusAfterFill
  <1>3. /\ o.status \in Working /\ o.filled + n <= o.qty
        /\ StatusAfterFill(o, n) = "PARTIALLY_FILLED" => o.status # "CANCEL_PENDING"
    BY DEF CanFill, StatusAfterFill
  <1>4. p.status \in Later[o.status]
    BY <1>1, <1>2, <1>3 DEF Later, Statuses, Working, Terminal
  <1>5. Consistent(p)
    BY <1>1, <1>2, <1>3 DEF Consistent, Record
  <1>6. Record(p)
    BY <1>1, <1>2 DEF Record, Statuses, Working, Terminal
  <1> QED
    BY <1>1, <1>3, <1>4, <1>5, <1>6 DEF Onward, Record, Working, Terminal

\* Being onward is transitive: a market event may move an order several times.
LEMMA OnwardTransitive ==
  ASSUME NEW a, NEW b, NEW c, Record(a), Record(b), Record(c), Onward(a, b), Onward(b, c)
  PROVE  Onward(a, c)
  BY DEF Record, Onward, Consistent, Later, Statuses, Working, Terminal

----------------------------------------------------------------------------
(* Sums *)

\* Induction over a finite set, for a set of good subsets instead of a predicate.
LEMMA SubsetInduction ==
  ASSUME NEW S, IsFiniteSet(S), NEW Good,
         \A T \in SUBSET S : (\A U \in SUBSET T : U # T => U \in Good) => T \in Good
  PROVE  S \in Good
<1> DEFINE Bad == (SUBSET S) \ Good
<1>1. IsWellFoundedOn(StrictSubsetOrdering(S), SUBSET S)
  BY FS_StrictSubsetOrderingWellFounded, FS_FiniteSubsetsOfFinite
<1>2. ASSUME S \notin Good PROVE FALSE
  <2>1. Bad # {} /\ Bad \subseteq SUBSET S
    BY <1>2
  <2>2. PICK T \in Bad : \A U \in Bad : ~ (<<U, T>> \in StrictSubsetOrdering(S))
    <3> HIDE DEF Bad
    <3> QED
      BY <1>1, <2>1, WFMin
  <2>3. \A U \in SUBSET T : U # T => U \in Good
    BY <2>2 DEF StrictSubsetOrdering
  <2> QED
    BY <2>2, <2>3
<1> QED
  BY <1>2

\* Induction over the numbers up to n, for a set of good numbers.
LEMMA CountInduction ==
  ASSUME NEW n \in Nat, NEW Good, 0 \in Good,
         \A i \in 0..(n - 1) : i \in Good => i + 1 \in Good
  PROVE  \A i \in 0..n : i \in Good
<1> SUFFICES ASSUME NEW k \in 0..n PROVE k \in Good
  OBVIOUS
<1> DEFINE S == 1..k
           GoodSets == {T \in SUBSET S : \A i \in 0..k : T = 1..i => i \in Good}
<1>1. ASSUME NEW T \in SUBSET S, \A U \in SUBSET T : U # T => U \in GoodSets,
             NEW i \in 0..k, T = 1..i
      PROVE  i \in Good
  <2>1. CASE i = 0
    BY <2>1
  <2>2. CASE i # 0
    <3>1. 1..(i - 1) \in SUBSET T /\ i \in T /\ i \notin 1..(i - 1)
      BY <1>1, <2>2
    <3>2. 1..(i - 1) \in GoodSets
      BY <1>1, <3>1
    <3>3. i - 1 \in Good
      BY <2>2, <3>2
    <3>4. i - 1 \in 0..(n - 1)
      BY <2>2
    <3> QED
      BY <3>3, <3>4
  <2> QED
    BY <2>1, <2>2
<1>2. \A T \in SUBSET S : (\A U \in SUBSET T : U # T => U \in GoodSets) => T \in GoodSets
  BY <1>1
<1>3. IsFiniteSet(S)
  BY FS_Interval
<1>4. S \in GoodSets
  <2> HIDE DEF GoodSets, S
  <2> QED
    BY <1>2, <1>3, SubsetInduction
<1> QED
  BY <1>4

\* A set of numbers has a smallest one.
LEMMA LeastExists ==
  ASSUME NEW T \in SUBSET Nat, T # {}
  PROVE  \E x \in T : \A y \in T : x <= y
<1> SUFFICES ASSUME \A x \in T : \E y \in T : y < x PROVE FALSE
  OBVIOUS
<1>1. PICK n \in T : TRUE
  OBVIOUS
<1> DEFINE Good == {k \in 0..n : \A i \in 0..k : i \notin T}
<1>2. 0 \in Good
  BY <1>1
<1>3. ASSUME NEW k \in 0..(n - 1), k \in Good PROVE k + 1 \in Good
  <2>1. k + 1 \notin T
    <3> SUFFICES ASSUME k + 1 \in T PROVE FALSE
      OBVIOUS
    <3>1. PICK y \in T : y < k + 1
      OBVIOUS
    <3>2. y \in 0..k
      BY <3>1
    <3> QED
      BY <1>3, <3>2
  <2>2. \A i \in 0..(k + 1) : i \in 0..k \/ i = k + 1
    OBVIOUS
  <2> QED
    BY <1>3, <2>1, <2>2
<1>4. \A k \in 0..n : k \in Good
  <2> HIDE DEF Good
  <2> QED
    BY <1>1, <1>2, <1>3, CountInduction
<1> QED
  BY <1>1, <1>4

\* A bounded set of numbers has a greatest one.
LEMMA GreatestExists ==
  ASSUME NEW n \in Nat, NEW T \in SUBSET (0..n), T # {}
  PROVE  \E x \in T : \A y \in T : x >= y
<1> DEFINE From == {x \in 0..n : n - x \in T}
<1>1. From \in SUBSET Nat /\ From # {}
  <2>1. PICK y \in T : TRUE
    OBVIOUS
  <2>2. n - y \in 0..n /\ n - (n - y) = y
    BY <2>1
  <2>3. n - y \in From
    BY <2>1, <2>2
  <2>4. \A x \in From : x \in Nat
    OBVIOUS
  <2> HIDE DEF From
  <2> QED
    BY <2>3, <2>4
<1>2. PICK x \in From : \A y \in From : x <= y
  <2> HIDE DEF From
  <2> QED
    BY <1>1, LeastExists
<1>3. \A y \in T : n - y \in From
  OBVIOUS
<1>4. \A y \in T : n - x >= y
  BY <1>2, <1>3
<1> QED
  BY <1>2, <1>4

\* The numbers up to n + 1 are those up to n and one more.
LEMMA OneMore ==
  ASSUME NEW n \in Nat
  PROVE  n + 1 \notin 1..n /\ 1..(n + 1) = (1..n) \cup {n + 1} /\ IsFiniteSet(1..n)
  BY FS_Interval

\* A walk of n steps exists: what a recursive function over 0..n computes.
LEMMA WalkExists ==
  ASSUME NEW T, NEW start \in T, NEW n \in Nat, NEW step \in [1..n -> [T -> T]]
  PROVE  \E g \in [0..n -> T] : g[0] = start /\ \A i \in 1..n : g[i] = step[i][g[i - 1]]
<1> DEFINE IsWalk(g, k) ==
             g \in [0..k -> T] /\ g[0] = start /\ \A i \in 1..k : g[i] = step[i][g[i - 1]]
           Good == {k \in 0..n : \E g : IsWalk(g, k)}
<1>1. 0 \in Good
  <2>1. IsWalk([i \in 0..0 |-> start], 0)
    OBVIOUS
  <2>2. 0 \in 0..n
    OBVIOUS
  <2> HIDE DEF IsWalk
  <2> QED
    BY <2>1, <2>2
<1>2. ASSUME NEW k \in 0..(n - 1), k \in Good PROVE k + 1 \in Good
  <2>1. PICK g : IsWalk(g, k)
    BY <1>2
  <2> DEFINE h == [i \in 0..(k + 1) |-> IF i = k + 1 THEN step[k + 1][g[k]] ELSE g[i]]
  <2>2. k \in Nat /\ k + 1 \in 1..n /\ k \in 0..k /\ k + 1 \in 0..n
    OBVIOUS
  <2>3. step[k + 1][g[k]] \in T
    BY <2>1, <2>2
  <2>4. \A i \in 0..(k + 1) : i # k + 1 => i \in 0..k
    BY <2>2
  <2>5. h \in [0..(k + 1) -> T] /\ h[0] = start
    BY <2>1, <2>2, <2>3, <2>4
  <2>6. ASSUME NEW i \in 1..(k + 1) PROVE h[i] = step[i][h[i - 1]]
    <3>1. i \in 0..(k + 1) /\ i - 1 \in 0..(k + 1) /\ i - 1 # k + 1
      BY <2>2
    <3>2. h[i - 1] = g[i - 1]
      BY <3>1
    <3>3. CASE i = k + 1
      <4>1. h[i] = step[k + 1][g[k]] /\ i - 1 = k
        BY <2>2, <3>1, <3>3
      <4> HIDE DEF h
      <4> QED
        BY <3>2, <3>3, <4>1
    <3>4. CASE i # k + 1
      <4>1. h[i] = g[i] /\ i \in 1..k
        BY <2>2, <3>1, <3>4
      <4> HIDE DEF h
      <4> QED
        BY <2>1, <3>2, <4>1
    <3> QED
      BY <3>3, <3>4
  <2>7. IsWalk(h, k + 1)
    <3> HIDE DEF h
    <3> QED
      BY <2>5, <2>6
  <2> QED
    BY <2>2, <2>7
<1>3. n \in Good
  <2> HIDE DEF Good
  <2>1. \A k \in 0..n : k \in Good
    BY <1>1, <1>2, CountInduction
  <2> QED
    BY <2>1
<1> QED
  BY <1>3

\* The element a fold takes next, and what it makes of the subsets of S.
SomeOf(T) == CHOOSE x \in T : TRUE
IsTotal(g, f, S) ==
  g = [T \in SUBSET S |-> IF T = {} THEN 0 ELSE f[SomeOf(T)] + g[T \ {SomeOf(T)}]]

\* A set that is not empty has an element to take.
LEMMA SomeOfIn == \A T : T # {} => SomeOf(T) \in T
  BY DEF SomeOf

\* A fold has at most one result.
LEMMA TotalUnique ==
  ASSUME NEW f, NEW S, IsFiniteSet(S), NEW g, NEW h, IsTotal(g, f, S), IsTotal(h, f, S)
  PROVE  g[S] = h[S]
<1> DEFINE Good == {T \in SUBSET S : g[T] = h[T]}
<1>1. ASSUME NEW T \in SUBSET S, \A U \in SUBSET T : U # T => U \in Good
      PROVE  T \in Good
  <2>1. CASE T = {}
    BY <2>1 DEF IsTotal
  <2>2. CASE T # {}
    <3>1. T \ {SomeOf(T)} \in Good
      BY <1>1, <2>2, SomeOfIn
    <3> QED
      BY <2>2, <3>1 DEF IsTotal
  <2> QED
    BY <2>1, <2>2
<1>2. S \in Good
  <2> HIDE DEF Good
  <2> QED
    BY <1>1, SubsetInduction
<1> QED
  BY <1>2

\* A total on a set is one on each of its subsets.
LEMMA TotalRestricts ==
  ASSUME NEW f, NEW S, NEW g, IsTotal(g, f, S), NEW T \in SUBSET S
  PROVE  IsTotal([U \in SUBSET T |-> g[U]], f, T)
<1> DEFINE r == [U \in SUBSET T |-> g[U]]
<1>1. ASSUME NEW U \in SUBSET T, U # {}
      PROVE  r[U] = f[SomeOf(U)] + r[U \ {SomeOf(U)}]
  <2>1. U \ {SomeOf(U)} \in SUBSET T /\ U \in SUBSET S
    OBVIOUS
  <2>2. g[U] = f[SomeOf(U)] + g[U \ {SomeOf(U)}]
    BY <1>1, <2>1 DEF IsTotal
  <2> QED
    BY <2>1, <2>2
<1>2. r[{}] = 0
  BY DEF IsTotal
<1> QED
  BY <1>1, <1>2 DEF IsTotal

\* A fold over a finite set has a result.
LEMMA TotalExists ==
  ASSUME NEW f, NEW S, IsFiniteSet(S)
  PROVE  \E g : IsTotal(g, f, S)
<1> DEFINE Good == {T \in SUBSET S : \E g : IsTotal(g, f, T)}
           G(T) == CHOOSE g : IsTotal(g, f, T)
<1>1. ASSUME NEW T \in SUBSET S, \A U \in SUBSET T : U # T => U \in Good
      PROVE  T \in Good
  <2> DEFINE g == [U \in SUBSET T |-> IF U = {} THEN 0 ELSE f[SomeOf(U)] + G(U \ {SomeOf(U)})[U \ {SomeOf(U)}]]
  <2>1. ASSUME NEW U \in SUBSET T, U # T PROVE IsTotal(G(U), f, U)
    BY <1>1, <2>1
  <2>2. ASSUME NEW U \in SUBSET T, U # T PROVE g[U] = G(U)[U]
    <3>1. CASE U = {}
      <4>1. IsTotal(G(U), f, U)
        BY <2>1, <2>2
      <4>2. G(U)[U] = 0
        <5> HIDE DEF G
        <5> QED
          BY <3>1, <4>1 DEF IsTotal
      <4> QED
        BY <3>1, <4>2
    <3>2. CASE U # {}
      <4> DEFINE W == U \ {SomeOf(U)}
      <4>1. SomeOf(U) \in U /\ W \in SUBSET U /\ W \in SUBSET T /\ W # T /\ W \in SUBSET S
        BY <2>2, <3>2, SomeOfIn
      <4>2. IsTotal(G(U), f, U) /\ IsTotal(G(W), f, W)
        BY <2>1, <2>2, <4>1
      <4>3. IsTotal([V \in SUBSET W |-> G(U)[V]], f, W)
        <5> HIDE DEF G, W
        <5> QED
          BY <4>1, <4>2, TotalRestricts
      <4>4. IsFiniteSet(W)
        BY <4>1, FS_Subset
      <4>5. [V \in SUBSET W |-> G(U)[V]][W] = G(W)[W]
        <5> HIDE DEF G, W
        <5> QED
          BY <4>2, <4>3, <4>4, TotalUnique
      <4>6. G(U)[U] = f[SomeOf(U)] + G(U)[W]
        <5> HIDE DEF G
        <5> QED
          BY <3>2, <4>2 DEF IsTotal
      <4> HIDE DEF G
      <4> QED
        BY <2>2, <3>2, <4>5, <4>6
    <3> QED
      BY <3>1, <3>2
  <2>3. ASSUME NEW U \in SUBSET T, U # {} PROVE g[U] = f[SomeOf(U)] + g[U \ {SomeOf(U)}]
    <3>1. U \ {SomeOf(U)} \in SUBSET T /\ U \ {SomeOf(U)} # T
      BY <2>3, SomeOfIn
    <3>2. g[U \ {SomeOf(U)}] = G(U \ {SomeOf(U)})[U \ {SomeOf(U)}]
      BY <2>2, <3>1
    <3> HIDE DEF G
    <3> QED
      BY <2>3, <3>2
  <2>4. g[{}] = 0
    OBVIOUS
  <2>5. g = [U \in SUBSET T |-> g[U]]
    OBVIOUS
  <2>6. IsTotal(g, f, T)
    <3> HIDE DEF g
    <3> QED
      BY <2>3, <2>4, <2>5 DEF IsTotal
  <2> QED
    BY <2>6
<1>2. S \in Good
  <2> HIDE DEF Good
  <2> QED
    BY <1>1, SubsetInduction
<1> QED
  BY <1>2

\* The sums of the community modules are such folds.
LEMMA SumIsTotal ==
  ASSUME NEW f, NEW S, IsFiniteSet(S)
  PROVE  \E g : IsTotal(g, f, S) /\ SumFunctionOnSet(f, S) = g[S]
<1> DEFINE h == CHOOSE g : IsTotal(g, f, S)
<1>1. SumFunctionOnSet(f, S) = h[S]
  BY DEF SumFunctionOnSet, FoldFunctionOnSet, MapThenFoldSet, IsTotal, SomeOf
<1>2. IsTotal(h, f, S)
  BY TotalExists
<1> QED
  BY <1>1, <1>2

\* A sum over nothing is zero.
LEMMA SumEmpty == \A f : SumFunctionOnSet(f, {}) = 0
<1> SUFFICES ASSUME NEW f PROVE SumFunctionOnSet(f, {}) = 0
  OBVIOUS
<1>1. PICK g : IsTotal(g, f, {}) /\ SumFunctionOnSet(f, {}) = g[{}]
  BY SumIsTotal, FS_EmptySet
<1> QED
  BY <1>1 DEF IsTotal

\* A sum takes one element and goes on with the others.
LEMMA SumStep ==
  ASSUME NEW f, NEW S, IsFiniteSet(S), S # {}
  PROVE  SumFunctionOnSet(f, S) = f[SomeOf(S)] + SumFunctionOnSet(f, S \ {SomeOf(S)})
<1> DEFINE W == S \ {SomeOf(S)}
<1>1. IsFiniteSet(W)
  BY FS_Subset
<1>2. PICK g : IsTotal(g, f, S) /\ SumFunctionOnSet(f, S) = g[S]
  BY SumIsTotal
<1>3. PICK h : IsTotal(h, f, W) /\ SumFunctionOnSet(f, W) = h[W]
  BY <1>1, SumIsTotal
<1>4. IsTotal([V \in SUBSET W |-> g[V]], f, W)
  BY <1>2, TotalRestricts
<1>5. g[W] = h[W]
  BY <1>1, <1>3, <1>4, TotalUnique
<1>6. g[S] = f[SomeOf(S)] + g[W]
  BY <1>2 DEF IsTotal
<1> QED
  BY <1>2, <1>3, <1>5, <1>6

\* A sum of integers is an integer.
LEMMA SumInt ==
  ASSUME NEW f, NEW S, IsFiniteSet(S), \A x \in S : f[x] \in Int
  PROVE  SumFunctionOnSet(f, S) \in Int
<1> DEFINE Good == {T \in SUBSET S : SumFunctionOnSet(f, T) \in Int}
<1>1. ASSUME NEW T \in SUBSET S, \A U \in SUBSET T : U # T => U \in Good
      PROVE  T \in Good
  <2>1. CASE T = {}
    BY <2>1, SumEmpty
  <2>2. CASE T # {}
    <3>1. SomeOf(T) \in T /\ T \ {SomeOf(T)} \in Good
      BY <1>1, <2>2, SomeOfIn
    <3>2. IsFiniteSet(T)
      BY FS_Subset
    <3> QED
      BY <2>2, <3>1, <3>2, SumStep
  <2> QED
    BY <2>1, <2>2
<1>2. S \in Good
  <2> HIDE DEF Good
  <2> QED
    BY <1>1, SubsetInduction
<1> QED
  BY <1>2

\* A sum of natural numbers is a natural number.
LEMMA SumNat ==
  ASSUME NEW f, NEW S, IsFiniteSet(S), \A x \in S : f[x] \in Nat
  PROVE  SumFunctionOnSet(f, S) \in Nat
<1> DEFINE Good == {T \in SUBSET S : SumFunctionOnSet(f, T) \in Nat}
<1>1. ASSUME NEW T \in SUBSET S, \A U \in SUBSET T : U # T => U \in Good
      PROVE  T \in Good
  <2>1. CASE T = {}
    BY <2>1, SumEmpty
  <2>2. CASE T # {}
    <3>1. SomeOf(T) \in T /\ T \ {SomeOf(T)} \in Good
      BY <1>1, <2>2, SomeOfIn
    <3>2. IsFiniteSet(T)
      BY FS_Subset
    <3> QED
      BY <2>2, <3>1, <3>2, SumStep
  <2> QED
    BY <2>1, <2>2
<1>2. S \in Good
  <2> HIDE DEF Good
  <2> QED
    BY <1>1, SubsetInduction
<1> QED
  BY <1>2

\* Any element may be taken out of a sum, not only the one the fold takes.
LEMMA SumRemove ==
  ASSUME NEW f, NEW S, IsFiniteSet(S), \A x \in S : f[x] \in Int, NEW x \in S
  PROVE  SumFunctionOnSet(f, S) = f[x] + SumFunctionOnSet(f, S \ {x})
<1> DEFINE Sum(T) == SumFunctionOnSet(f, T)
           Good == {T \in SUBSET S : \A y \in T : Sum(T) = f[y] + Sum(T \ {y})}
<1>1. ASSUME NEW T \in SUBSET S, \A U \in SUBSET T : U # T => U \in Good, NEW y \in T
      PROVE  Sum(T) = f[y] + Sum(T \ {y})
  <2> DEFINE c == SomeOf(T)
  <2>1. c \in T /\ IsFiniteSet(T)
    BY <1>1, SomeOfIn, FS_Subset
  <2>2. Sum(T) = f[c] + Sum(T \ {c})
    BY <1>1, <2>1, SumStep
  <2> HIDE DEF c, Sum
  <2>3. CASE c = y
    BY <2>2, <2>3
  <2>4. CASE c # y
    <3>1. Sum(T \ {c}) = f[y] + Sum((T \ {c}) \ {y})
      BY <1>1, <2>1, <2>4
    <3>2. Sum(T \ {y}) = f[c] + Sum((T \ {y}) \ {c})
      BY <1>1, <2>1, <2>4
    <3> DEFINE rest == Sum((T \ {c}) \ {y})
    <3>3. rest = Sum((T \ {y}) \ {c})
      <4>1. (T \ {c}) \ {y} = (T \ {y}) \ {c}
        OBVIOUS
      <4> QED
        BY <4>1
    <3>4. f[c] \in Int /\ f[y] \in Int /\ rest \in Int
      <4>1. IsFiniteSet((T \ {c}) \ {y})
        BY <2>1, FS_Subset
      <4> QED
        BY <2>1, <4>1, SumInt DEF Sum
    <3>5. Sum(T) = f[c] + (f[y] + rest) /\ Sum(T \ {y}) = f[c] + rest
      BY <2>2, <3>1, <3>2, <3>3
    <3> HIDE DEF rest
    <3> QED
      BY <3>4, <3>5
  <2> QED
    BY <2>3, <2>4
<1>2. S \in Good
  <2>1. \A T \in SUBSET S : (\A U \in SUBSET T : U # T => U \in Good) => T \in Good
    BY <1>1
  <2> HIDE DEF Good
  <2> QED
    BY <2>1, SubsetInduction
<1> QED
  BY <1>2

\* One element more adds its value.
LEMMA SumAdd ==
  ASSUME NEW f, NEW S, IsFiniteSet(S), NEW x, x \notin S, \A y \in S \cup {x} : f[y] \in Int
  PROVE  SumFunctionOnSet(f, S \cup {x}) = SumFunctionOnSet(f, S) + f[x]
<1>1. IsFiniteSet(S \cup {x}) /\ (S \cup {x}) \ {x} = S
  BY FS_AddElement
<1>2. SumFunctionOnSet(f, S) \in Int
  BY SumInt
<1> QED
  BY <1>1, <1>2, SumRemove

\* Only the values on the set count.
LEMMA SumSame ==
  ASSUME NEW f, NEW g, NEW S, IsFiniteSet(S), \A x \in S : f[x] = g[x]
  PROVE  SumFunctionOnSet(f, S) = SumFunctionOnSet(g, S)
<1> DEFINE Good == {T \in SUBSET S : SumFunctionOnSet(f, T) = SumFunctionOnSet(g, T)}
<1>1. ASSUME NEW T \in SUBSET S, \A U \in SUBSET T : U # T => U \in Good
      PROVE  T \in Good
  <2>1. CASE T = {}
    BY <2>1, SumEmpty
  <2>2. CASE T # {}
    <3>1. SomeOf(T) \in T /\ T \ {SomeOf(T)} \in Good
      BY <1>1, <2>2, SomeOfIn
    <3>2. IsFiniteSet(T)
      BY FS_Subset
    <3>3. /\ SumFunctionOnSet(f, T) = f[SomeOf(T)] + SumFunctionOnSet(f, T \ {SomeOf(T)})
          /\ SumFunctionOnSet(g, T) = g[SomeOf(T)] + SumFunctionOnSet(g, T \ {SomeOf(T)})
      BY <2>2, <3>2, SumStep
    <3> QED
      BY <3>1, <3>3
  <2> QED
    BY <2>1, <2>2
<1>2. S \in Good
  <2> HIDE DEF Good
  <2> QED
    BY <1>1, SubsetInduction
<1> QED
  BY <1>2

\* A list that grows by an entry adds the entry's value.
LEMMA SumGrows ==
  ASSUME NEW f, NEW g, NEW S, IsFiniteSet(S), NEW x, x \notin S,
         \A y \in S : f[y] \in Int /\ g[y] = f[y], g[x] \in Int
  PROVE  SumFunctionOnSet(g, S \cup {x}) = SumFunctionOnSet(f, S) + g[x]
<1>1. SumFunctionOnSet(g, S) = SumFunctionOnSet(f, S)
  BY SumSame
<1>2. \A y \in S \cup {x} : g[y] \in Int
  OBVIOUS
<1>3. SumFunctionOnSet(g, S \cup {x}) = SumFunctionOnSet(g, S) + g[x]
  BY <1>2, SumAdd
<1> QED
  BY <1>1, <1>3

\* The same for the sum of a whole function.
LEMMA WholeGrows ==
  ASSUME NEW f, NEW g, NEW S, IsFiniteSet(S), DOMAIN f = S, NEW x, x \notin S,
         DOMAIN g = S \cup {x},
         \A y \in S : f[y] \in Int /\ g[y] = f[y], g[x] \in Int
  PROVE  SumFunction(g) = SumFunction(f) + g[x]
<1>1. SumFunctionOnSet(g, S \cup {x}) = SumFunctionOnSet(f, S) + g[x]
  BY SumGrows
<1> QED
  BY <1>1 DEF SumFunction

\* The sum of a whole function is the sum over its domain.
LEMMA SumWhole == \A f : SumFunction(f) = SumFunctionOnSet(f, DOMAIN f)
  BY DEF SumFunction

\* One value that changes changes the sum by as much.
LEMMA SumChange ==
  ASSUME NEW S, IsFiniteSet(S), NEW f, NEW g, DOMAIN f = S, DOMAIN g = S,
         \A x \in S : f[x] \in Int /\ g[x] \in Int,
         NEW s \in S, \A x \in S : x # s => g[x] = f[x]
  PROVE  /\ SumFunction(f) \in Int /\ SumFunction(g) \in Int
         /\ SumFunction(g) = SumFunction(f) + (g[s] - f[s])
<1> DEFINE F == SumFunctionOnSet(f, S)
           G == SumFunctionOnSet(g, S)
           W == S \ {s}
           rest == SumFunctionOnSet(f, W)
<1>1. IsFiniteSet(W)
  BY FS_Subset
<1>2. rest \in Int /\ F \in Int /\ G \in Int
  <2>1. \A x \in W : f[x] \in Int
    OBVIOUS
  <2> QED
    BY <1>1, <2>1, SumInt
<1>3. SumFunctionOnSet(g, W) = rest
  <2>1. \A x \in W : g[x] = f[x]
    OBVIOUS
  <2> QED
    BY <1>1, <2>1, SumSame
<1>4. F = f[s] + rest
  BY SumRemove
<1>5. G = g[s] + rest
  <2>1. G = g[s] + SumFunctionOnSet(g, W)
    BY SumRemove
  <2> QED
    BY <1>3, <2>1
<1>6. SumFunction(f) = F /\ SumFunction(g) = G
  BY SumWhole
<1> HIDE DEF F, G, rest
<1> QED
  BY <1>2, <1>4, <1>5, <1>6

----------------------------------------------------------------------------
(* Sequences without repetition *)

\* An element that is not in the sequence may be appended.
LEMMA AppendOnce ==
  ASSUME NEW S, NEW q \in Seq(S), NEW x \in S, IsInjective(q), x \notin Range(q)
  PROVE  /\ Append(q, x) \in Seq(S) /\ IsInjective(Append(q, x))
         /\ Range(Append(q, x)) = Range(q) \cup {x}
<1> DEFINE r == Append(q, x)
<1>1. /\ r \in Seq(S) /\ DOMAIN r = 1..(Len(q) + 1) /\ DOMAIN q = 1..Len(q)
      /\ \A i \in 1..Len(q) : r[i] = q[i]
      /\ r[Len(q) + 1] = x /\ Len(q) \in Nat
  OBVIOUS
<1> HIDE DEF r
<1>2. \A i \in 1..(Len(q) + 1) : i \in 1..Len(q) \/ i = Len(q) + 1
  BY <1>1
<1>3. \A i \in 1..Len(q) : i \in 1..(Len(q) + 1)
  BY <1>1
<1>4. \A i \in 1..Len(q) : q[i] # x
  BY <1>1 DEF Range
<1>5. IsInjective(r)
  BY <1>1, <1>2, <1>4 DEF IsInjective
<1>6. Len(q) + 1 \in 1..(Len(q) + 1)
  BY <1>1
<1>7. Range(r) = Range(q) \cup {x}
  BY <1>1, <1>2, <1>3, <1>6 DEF Range
<1> QED
  BY <1>1, <1>5, <1>7 DEF r

\* The head of a sequence leaves it for good.
LEMMA TailOnce ==
  ASSUME NEW S, NEW q \in Seq(S), q # <<>>, IsInjective(q)
  PROVE  /\ Head(q) \in S /\ Tail(q) \in Seq(S) /\ IsInjective(Tail(q))
         /\ Head(q) \in Range(q)
         /\ Range(Tail(q)) = Range(q) \ {Head(q)}
<1> DEFINE r == Tail(q)
<1>1. /\ r \in Seq(S) /\ DOMAIN r = 1..(Len(q) - 1) /\ DOMAIN q = 1..Len(q)
      /\ \A i \in 1..(Len(q) - 1) : r[i] = q[i + 1]
      /\ Head(q) = q[1] /\ Len(q) \in Nat \ {0} /\ q[1] \in S
  OBVIOUS
<1> HIDE DEF r
<1>2. \A i \in 1..Len(q) : i = 1 \/ (i - 1 \in 1..(Len(q) - 1) /\ q[i] = r[i - 1])
  BY <1>1
<1>3. \A i \in 1..(Len(q) - 1) : i + 1 \in 1..Len(q) /\ i + 1 # 1
  BY <1>1
<1>4. 1 \in 1..Len(q)
  BY <1>1
<1>5. IsInjective(r)
  <2> SUFFICES ASSUME NEW i \in 1..(Len(q) - 1), NEW j \in 1..(Len(q) - 1), r[i] = r[j]
               PROVE  i = j
    BY <1>1 DEF IsInjective
  <2>1. i + 1 = j + 1
    BY <1>1, <1>3 DEF IsInjective
  <2> QED
    BY <2>1
<1>6. Range(r) \subseteq Range(q) \ {q[1]}
  <2> SUFFICES ASSUME NEW i \in 1..(Len(q) - 1) PROVE r[i] \in Range(q) /\ r[i] # q[1]
    BY <1>1 DEF Range
  <2> QED
    BY <1>1, <1>3, <1>4 DEF Range, IsInjective
<1>7. Range(q) \ {q[1]} \subseteq Range(r)
  BY <1>1, <1>2 DEF Range
<1> QED
  BY <1>1, <1>4, <1>5, <1>6, <1>7 DEF r, Range

\* Two sequences that share nothing may be joined.
LEMMA JoinOnce ==
  ASSUME NEW S, NEW q \in Seq(S), NEW r \in Seq(S), IsInjective(q), IsInjective(r),
         Range(q) \cap Range(r) = {}
  PROVE  /\ q \o r \in Seq(S) /\ IsInjective(q \o r)
         /\ Range(q \o r) = Range(q) \cup Range(r)
<1> DEFINE m == Len(q)
           n == Len(r)
           all == q \o r
<1>1. /\ all \in Seq(S) /\ DOMAIN all = 1..(m + n) /\ DOMAIN q = 1..m /\ DOMAIN r = 1..n
      /\ \A i \in 1..m : all[i] = q[i]
      /\ \A i \in 1..(m + n) : i \notin 1..m => all[i] = r[i - m]
      /\ m \in Nat /\ n \in Nat
  BY ConcatProperties
<1> HIDE DEF m, n, all
<1>2. \A i \in 1..(m + n) : i \in 1..m \/ i - m \in 1..n
  BY <1>1
<1>3. \A i \in 1..m : i \in 1..(m + n)
  BY <1>1
<1>4. \A i \in 1..n : i + m \in 1..(m + n) /\ i + m \notin 1..m /\ (i + m) - m = i
  BY <1>1
<1>5. \A i \in 1..m : \A j \in 1..n : q[i] # r[j]
  BY <1>1 DEF Range
<1>6. IsInjective(all)
  <2> SUFFICES ASSUME NEW i \in 1..(m + n), NEW j \in 1..(m + n), all[i] = all[j]
               PROVE  i = j
    BY <1>1 DEF IsInjective
  <2>1. CASE i \in 1..m /\ j \in 1..m
    BY <1>1, <2>1 DEF IsInjective
  <2>2. CASE i \notin 1..m /\ j \notin 1..m
    <3>1. i - m = j - m
      BY <1>1, <1>2, <2>2 DEF IsInjective
    <3> QED
      BY <1>1, <3>1
  <2>3. CASE i \in 1..m /\ j \notin 1..m
    BY <1>1, <1>2, <1>5, <2>3
  <2>4. CASE i \notin 1..m /\ j \in 1..m
    BY <1>1, <1>2, <1>5, <2>4
  <2> QED
    BY <2>1, <2>2, <2>3, <2>4
<1>7. Range(q) \subseteq Range(all)
  BY <1>1, <1>3 DEF Range
<1>8. Range(r) \subseteq Range(all)
  <2> SUFFICES ASSUME NEW i \in 1..n PROVE r[i] \in Range(all)
    BY <1>1 DEF Range
  <2>1. all[i + m] = r[i]
    BY <1>1, <1>4
  <2> QED
    BY <1>1, <1>4, <2>1 DEF Range
<1>9. Range(all) \subseteq Range(q) \cup Range(r)
  <2> SUFFICES ASSUME NEW i \in 1..(m + n) PROVE all[i] \in Range(q) \cup Range(r)
    BY <1>1 DEF Range
  <2> QED
    BY <1>1, <1>2 DEF Range
<1> QED
  BY <1>1, <1>6, <1>7, <1>8, <1>9 DEF all

\* Such a sequence is as long as it has elements.
LEMMA OnceLength ==
  ASSUME NEW S, NEW q \in Seq(S), IsInjective(q)
  PROVE  Cardinality(Range(q)) = Len(q)
<1>1. q \in [1..Len(q) -> Range(q)] /\ DOMAIN q = 1..Len(q) /\ Len(q) \in Nat
  BY DEF Range
<1>2. q \in Bijection(1..Len(q), Range(q))
  BY <1>1 DEF Bijection, Injection, Surjection, Range, IsInjective
<1>3. IsFiniteSet(1..Len(q)) /\ Cardinality(1..Len(q)) = Len(q)
  <2>1. \A n \in Nat : IsFiniteSet(1..n) /\ Cardinality(1..n) = n
    BY FS_Interval
  <2> QED
    BY <1>1, <2>1
<1>4. ExistsBijection(1..Len(q), Range(q))
  BY <1>2 DEF ExistsBijection
<1> QED
  BY <1>3, <1>4, FS_Bijection

----------------------------------------------------------------------------
(* Selecting from a sequence *)

\* Induction over sequences, for a set of good sequences.
LEMMA AppendInduction ==
  ASSUME NEW E, NEW Good, <<>> \in Good,
         \A q \in Seq(E) : q \in Good => \A e \in E : Append(q, e) \in Good
  PROVE  Seq(E) \subseteq Good
<1> SUFFICES ASSUME NEW q \in Seq(E) PROVE q \in Good
  OBVIOUS
<1> DEFINE n == Len(q)
           first == [k \in 0..n |-> SubSeq(q, 1, k)]
           Fine == {k \in 0..n : first[k] \in Good}
<1>1. n \in Nat /\ \A k \in 1..n : q[k] \in E
  OBVIOUS
<1>2. first[0] = <<>> /\ first[n] = q
  BY <1>1, SubSeqEmpty, SubSeqFull
<1>3. ASSUME NEW k \in 0..(n - 1)
      PROVE  first[k] \in Seq(E) /\ q[k + 1] \in E /\ first[k + 1] = Append(first[k], q[k + 1])
  <2> DEFINE a == SubSeq(q, 1, k)
             b == SubSeq(q, 1, k + 1)
  <2>0. k \in 0..n /\ k + 1 \in 0..n /\ k + 1 \in 1..n /\ k \in Nat
    BY <1>1
  <2>1. /\ a \in Seq(E) /\ Len(a) = k
        /\ \A i \in 1..k : a[i] = q[i]
    BY <1>1, <2>0, SubSeqProperties
  <2>2. /\ b \in Seq(E) /\ Len(b) = k + 1
        /\ \A i \in 1..(k + 1) : b[i] = q[i]
    BY <1>1, <2>0, SubSeqProperties
  <2>3. first[k] = a /\ first[k + 1] = b
    BY <2>0
  <2>4. q[k + 1] \in E
    BY <1>1, <2>0
  <2> HIDE DEF a, b, first, n
  <2>5. /\ Append(a, q[k + 1]) \in Seq(E) /\ Len(Append(a, q[k + 1])) = k + 1
        /\ \A i \in 1..(k + 1) : Append(a, q[k + 1])[i] = q[i]
    BY <2>0, <2>1, <2>4
  <2>6. b = Append(a, q[k + 1])
    BY <2>2, <2>5, SeqEqual
  <2> QED
    BY <2>1, <2>3, <2>4, <2>6
<1> HIDE DEF first, n
<1>4. 0 \in Fine
  BY <1>1, <1>2
<1>5. ASSUME NEW k \in 0..(n - 1), k \in Fine PROVE k + 1 \in Fine
  <2>1. k + 1 \in 0..n
    BY <1>1
  <2> QED
    BY <1>3, <1>5, <2>1
<1> HIDE DEF Fine
<1>6. \A k \in 0..n : k \in Fine
  BY <1>1, <1>4, <1>5, CountInduction
<1>7. n \in Fine
  BY <1>1, <1>6
<1> QED
  BY <1>2, <1>7 DEF Fine

LEMMA AppendRange ==
  ASSUME NEW E, NEW q \in Seq(E), NEW e \in E
  PROVE  Append(q, e) \in Seq(E) /\ Range(Append(q, e)) = Range(q) \cup {e}
<1> DEFINE r == Append(q, e)
<1>1. /\ r \in Seq(E) /\ DOMAIN r = 1..(Len(q) + 1) /\ DOMAIN q = 1..Len(q)
      /\ \A i \in 1..Len(q) : r[i] = q[i]
      /\ r[Len(q) + 1] = e /\ Len(q) \in Nat
  OBVIOUS
<1> HIDE DEF r
<1>2. \A i \in 1..(Len(q) + 1) : i \in 1..Len(q) \/ i = Len(q) + 1
  BY <1>1
<1>3. \A i \in 1..Len(q) : i \in 1..(Len(q) + 1)
  BY <1>1
<1>4. Len(q) + 1 \in 1..(Len(q) + 1)
  BY <1>1
<1>5. Range(r) = Range(q) \cup {e}
  BY <1>1, <1>2, <1>3, <1>4 DEF Range
<1> QED
  BY <1>1, <1>5 DEF r

\* A sequence is one of its elements.
LEMMA RangeTypes ==
  ASSUME NEW E, NEW q \in Seq(E)
  PROVE  q \in Seq(Range(q)) /\ Range(q) \subseteq E
<1>1. q = [i \in 1..Len(q) |-> q[i]] /\ Len(q) \in Nat /\ DOMAIN q = 1..Len(q)
      /\ \A i \in 1..Len(q) : q[i] \in E
  OBVIOUS
<1>2. \A i \in 1..Len(q) : q[i] \in Range(q)
  BY <1>1 DEF Range
<1>3. q \in [1..Len(q) -> Range(q)]
  BY <1>1, <1>2
<1>4. q \in Seq(Range(q))
  BY <1>1, <1>3
<1> QED
  BY <1>1, <1>4 DEF Range

\* g goes through s and keeps what is at the positions in S.
Selects(g, s, S) ==
  g = [n \in 0..Len(s) |-> IF n = 0 THEN <<>>
                           ELSE IF n \in S THEN Append(g[n - 1], s[n]) ELSE g[n - 1]]

LEMMA SelectsExists ==
  ASSUME NEW E, NEW s \in Seq(E), NEW S
  PROVE  \E g : Selects(g, s, S)
<1> DEFINE k == Len(s)
           T == Seq(E)
           step == [n \in 1..k |-> [q \in T |-> IF n \in S THEN Append(q, s[n]) ELSE q]]
<1>1. k \in Nat /\ (\A n \in 1..k : s[n] \in E) /\ <<>> \in T
  OBVIOUS
<1>2. step \in [1..k -> [T -> T]]
  BY <1>1
<1>3. PICK g \in [0..k -> T] : g[0] = <<>> /\ \A n \in 1..k : g[n] = step[n][g[n - 1]]
  <2> DEFINE start == <<>>
  <2>0. start \in T
    BY <1>1
  <2> HIDE DEF step, k, T, start
  <2>1. \E g \in [0..k -> T] : g[0] = start /\ \A i \in 1..k : g[i] = step[i][g[i - 1]]
    <3>1. k \in Nat
      BY <1>1
    <3> QED
      BY <1>2, <2>0, <3>1, WalkExists
  <2> QED
    BY <2>1 DEF start
<1>4. ASSUME NEW n \in 0..k
      PROVE  g[n] = IF n = 0 THEN <<>>
                    ELSE IF n \in S THEN Append(g[n - 1], s[n]) ELSE g[n - 1]
  <2>1. CASE n = 0
    BY <1>3, <2>1
  <2>2. CASE n # 0
    <3>1. n \in 1..k /\ n - 1 \in 0..k
      BY <1>1, <2>2
    <3>2. g[n - 1] \in T
      BY <1>3, <3>1
    <3>3. g[n] = step[n][g[n - 1]]
      BY <1>3, <3>1
    <3>4. step[n][g[n - 1]] = IF n \in S THEN Append(g[n - 1], s[n]) ELSE g[n - 1]
      BY <3>1, <3>2
    <3> QED
      BY <2>2, <3>3, <3>4
  <2> QED
    BY <2>1, <2>2
<1>5. g = [n \in 0..k |-> g[n]]
  BY <1>3
<1>6. Selects(g, s, S)
  <2> HIDE DEF step
  <2> QED
    BY <1>4, <1>5 DEF Selects
<1> QED
  BY <1>6

LEMMA SelectsUnique ==
  ASSUME NEW E, NEW s \in Seq(E), NEW S, NEW g, NEW h, Selects(g, s, S), Selects(h, s, S)
  PROVE  g = h
<1> DEFINE k == Len(s)
           Good == {n \in 0..k : g[n] = h[n]}
<1>1. k \in Nat
  OBVIOUS
<1>2. /\ g = [n \in 0..k |-> IF n = 0 THEN <<>>
                             ELSE IF n \in S THEN Append(g[n - 1], s[n]) ELSE g[n - 1]]
      /\ h = [n \in 0..k |-> IF n = 0 THEN <<>>
                             ELSE IF n \in S THEN Append(h[n - 1], s[n]) ELSE h[n - 1]]
  BY DEF Selects
<1> HIDE DEF k
<1>3. 0 \in Good
  BY <1>1, <1>2
<1>4. ASSUME NEW n \in 0..(k - 1), n \in Good PROVE n + 1 \in Good
  <2>1. n + 1 \in 0..k /\ n + 1 # 0 /\ (n + 1) - 1 = n
    BY <1>1
  <2>2. /\ g[n + 1] = IF n + 1 \in S THEN Append(g[n], s[n + 1]) ELSE g[n]
        /\ h[n + 1] = IF n + 1 \in S THEN Append(h[n], s[n + 1]) ELSE h[n]
    BY <1>2, <2>1
  <2> QED
    BY <1>4, <2>1, <2>2
<1>5. \A n \in 0..k : n \in Good
  <2> HIDE DEF Good
  <2> QED
    BY <1>1, <1>3, <1>4, CountInduction
<1>6. \A n \in 0..k : g[n] = h[n]
  BY <1>5
<1>7. g = [n \in 0..k |-> g[n]] /\ h = [n \in 0..k |-> h[n]]
  BY <1>2
<1> QED
  BY <1>6, <1>7

LEMMA PickedSelects ==
  ASSUME NEW E, NEW s \in Seq(E), NEW S, NEW g, Selects(g, s, S)
  PROVE  Picked(s, S) = g[Len(s)]
<1> DEFINE h == CHOOSE f : Selects(f, s, S)
<1>1. Picked(s, S) = h[Len(s)]
  BY DEF Picked, Selects
<1>2. Selects(h, s, S)
  BY SelectsExists
<1> HIDE DEF h
<1>3. h = g
  BY <1>2, SelectsUnique
<1> QED
  BY <1>1, <1>3

LEMMA PickedEmpty == \A S : Picked(<<>>, S) = <<>>
<1> SUFFICES ASSUME NEW S PROVE Picked(<<>>, S) = <<>>
  OBVIOUS
<1>1. <<>> \in Seq({}) /\ Len(<<>>) = 0
  OBVIOUS
<1>2. PICK g : Selects(g, <<>>, S)
  BY <1>1, SelectsExists
<1>3. g[0] = <<>>
  BY <1>1, <1>2 DEF Selects
<1> QED
  BY <1>1, <1>2, <1>3, PickedSelects

\* An element behind the others is kept behind the others.
LEMMA PickedAppend ==
  ASSUME NEW E, NEW s \in Seq(E), NEW e \in E, NEW S
  PROVE  Picked(Append(s, e), S) = IF Len(s) + 1 \in S THEN Append(Picked(s, S), e) ELSE Picked(s, S)
<1> DEFINE r == Append(s, e)
           k == Len(s)
<1>1. /\ r \in Seq(E) /\ Len(r) = k + 1 /\ k \in Nat /\ r[k + 1] = e
      /\ \A n \in 1..k : r[n] = s[n]
  OBVIOUS
<1> HIDE DEF r, k
<1>2. PICK g : Selects(g, r, S)
  BY <1>1, SelectsExists
<1> DEFINE h == [n \in 0..k |-> g[n]]
<1>3. \A n \in 0..(k + 1) : g[n] = IF n = 0 THEN <<>>
                                   ELSE IF n \in S THEN Append(g[n - 1], r[n]) ELSE g[n - 1]
  BY <1>1, <1>2 DEF Selects
<1>4. ASSUME NEW n \in 0..k
      PROVE  h[n] = IF n = 0 THEN <<>>
                    ELSE IF n \in S THEN Append(h[n - 1], s[n]) ELSE h[n - 1]
  <2>1. n \in 0..(k + 1)
    BY <1>1
  <2>2. CASE n = 0
    BY <1>3, <2>1, <2>2
  <2>3. CASE n # 0
    <3>1. n \in 1..k /\ n - 1 \in 0..k
      BY <1>1, <2>3
    <3>2. h[n - 1] = g[n - 1] /\ h[n] = g[n] /\ r[n] = s[n]
      BY <1>1, <3>1
    <3>3. g[n] = IF n \in S THEN Append(g[n - 1], r[n]) ELSE g[n - 1]
      BY <1>3, <2>1, <2>3
    <3> HIDE DEF h
    <3> QED
      BY <2>3, <3>2, <3>3
  <2> QED
    BY <2>2, <2>3
<1>5. h = [n \in 0..k |-> IF n = 0 THEN <<>>
                          ELSE IF n \in S THEN Append(h[n - 1], s[n]) ELSE h[n - 1]]
  <2>1. h = [n \in 0..k |-> h[n]]
    OBVIOUS
  <2> HIDE DEF h
  <2> QED
    BY <1>4, <2>1
<1>6. Selects(h, s, S)
  <2> HIDE DEF h
  <2> QED
    BY <1>5 DEF Selects, k
<1>7. Picked(s, S) = g[k]
  <2>1. Picked(s, S) = h[k]
    <3> HIDE DEF h
    <3> QED
      BY <1>6, PickedSelects DEF k
  <2> QED
    BY <1>1, <2>1
<1>8. Picked(r, S) = g[k + 1]
  BY <1>1, <1>2, PickedSelects
<1>9. g[k + 1] = IF k + 1 \in S THEN Append(g[k], e) ELSE g[k]
  <2>1. k + 1 \in 0..(k + 1) /\ k + 1 # 0 /\ (k + 1) - 1 = k
    BY <1>1
  <2> QED
    BY <1>1, <1>3, <2>1
<1> QED
  BY <1>7, <1>8, <1>9 DEF r, k

\* What is kept is what stands at the positions.
LEMMA PickedRange ==
  ASSUME NEW E, NEW s \in Seq(E), NEW S
  PROVE  Picked(s, S) \in Seq(E) /\ Range(Picked(s, S)) = {s[i] : i \in S \cap DOMAIN s}
<1> DEFINE Good == {q \in Seq(E) : /\ Picked(q, S) \in Seq(E)
                                   /\ Range(Picked(q, S)) = {q[i] : i \in S \cap DOMAIN q}}
<1>1. <<>> \in Good
  <2>1. Picked(<<>>, S) = <<>> /\ <<>> \in Seq(E) /\ DOMAIN <<>> = {}
    BY PickedEmpty
  <2>2. Range(<<>>) = {}
    BY DEF Range
  <2> QED
    BY <2>1, <2>2
<1>2. ASSUME NEW q \in Seq(E), q \in Good, NEW e \in E
      PROVE  Append(q, e) \in Good
  <2> DEFINE r == Append(q, e)
             n == Len(q)
             p == Picked(q, S)
  <2>0. /\ r \in Seq(E) /\ DOMAIN r = 1..(n + 1) /\ DOMAIN q = 1..n /\ n \in Nat
        /\ r[n + 1] = e /\ \A i \in 1..n : r[i] = q[i]
    OBVIOUS
  <2>2. Picked(r, S) = IF n + 1 \in S THEN Append(p, e) ELSE p
    BY PickedAppend
  <2>3. p \in Seq(E) /\ Range(p) = {q[i] : i \in S \cap DOMAIN q}
    BY <1>2
  <2> HIDE DEF r, n, p
  <2>4. Append(p, e) \in Seq(E) /\ Range(Append(p, e)) = Range(p) \cup {e}
    BY <2>3, AppendRange
  <2>5. \A i \in 1..(n + 1) : i \in 1..n \/ i = n + 1
    BY <2>0
  <2>6. (\A i \in 1..n : i \in 1..(n + 1)) /\ n + 1 \in 1..(n + 1) /\ n + 1 \notin 1..n
    BY <2>0
  <2>7. {r[i] : i \in S \cap (1..(n + 1))}
          = {q[i] : i \in S \cap (1..n)} \cup IF n + 1 \in S THEN {e} ELSE {}
    BY <2>0, <2>5, <2>6
  <2>8. Range(Picked(r, S)) = {r[i] : i \in S \cap DOMAIN r}
    <3>1. CASE n + 1 \in S
      BY <2>0, <2>2, <2>3, <2>4, <2>7, <3>1
    <3>2. CASE n + 1 \notin S
      BY <2>0, <2>2, <2>3, <2>7, <3>2
    <3> QED
      BY <3>1, <3>2
  <2>9. Picked(r, S) \in Seq(E)
    BY <2>2, <2>3, <2>4
  <2>10. r \in Good
    BY <2>0, <2>8, <2>9
  <2> QED
    BY <2>10 DEF r
<1>3. Seq(E) \subseteq Good
  <2> HIDE DEF Good
  <2> QED
    BY <1>1, <1>2, AppendInduction
<1> QED
  BY <1>3

\* What is kept is in the order it had: R holds of any two elements of which
\* the first comes before the second.
Ordered(q, R) == \A i, j \in 1..Len(q) : i < j => <<q[i], q[j]>> \in R

LEMMA OrderedAppend ==
  ASSUME NEW E, NEW q \in Seq(E), NEW e \in E, NEW R
  PROVE  Ordered(Append(q, e), R) <=> Ordered(q, R) /\ \A x \in Range(q) : <<x, e>> \in R
<1> DEFINE r == Append(q, e)
           n == Len(q)
<1>1. /\ Len(r) = n + 1 /\ n \in Nat /\ r[n + 1] = e
      /\ \A i \in 1..n : r[i] = q[i]
      /\ DOMAIN q = 1..n
  OBVIOUS
<1> HIDE DEF r, n
<1>2. \A i \in 1..(n + 1) : i \in 1..n \/ i = n + 1
  BY <1>1
<1>3. \A i \in 1..n : i \in 1..(n + 1) /\ i < n + 1
  BY <1>1
<1>4. n + 1 \in 1..(n + 1) /\ ~(n + 1 < n + 1)
  BY <1>1
<1>5. ASSUME Ordered(r, R)
      PROVE  Ordered(q, R) /\ \A x \in Range(q) : <<x, e>> \in R
  <2>1. Ordered(q, R)
    BY <1>1, <1>3, <1>5 DEF Ordered, n
  <2>2. ASSUME NEW i \in 1..n PROVE <<q[i], e>> \in R
    <3>1. <<r[i], r[n + 1]>> \in R
      BY <1>1, <1>3, <1>4, <1>5 DEF Ordered
    <3> QED
      BY <1>1, <3>1
  <2> QED
    BY <1>1, <2>1, <2>2 DEF Range
<1>6. ASSUME Ordered(q, R), \A x \in Range(q) : <<x, e>> \in R
      PROVE  Ordered(r, R)
  <2> SUFFICES ASSUME NEW i \in 1..(n + 1), NEW j \in 1..(n + 1), i < j
               PROVE  <<r[i], r[j]>> \in R
    BY <1>1 DEF Ordered
  <2>1. i \in 1..n
    BY <1>1
  <2>2. CASE j = n + 1
    BY <1>1, <1>6, <2>1, <2>2 DEF Range
  <2>3. CASE j \in 1..n
    <3>1. <<q[i], q[j]>> \in R
      BY <1>6, <2>1, <2>3 DEF Ordered, n
    <3> QED
      BY <1>1, <2>1, <2>3, <3>1
  <2> QED
    BY <1>2, <2>2, <2>3
<1> QED
  BY <1>5, <1>6 DEF r

LEMMA PickedOrdered ==
  ASSUME NEW E, NEW s \in Seq(E), NEW S, NEW R, Ordered(s, R)
  PROVE  Ordered(Picked(s, S), R)
<1> DEFINE Good == {q \in Seq(E) : Ordered(q, R) => Ordered(Picked(q, S), R)}
<1>1. <<>> \in Good
  BY PickedEmpty DEF Ordered
<1>2. ASSUME NEW q \in Seq(E), q \in Good, NEW e \in E
      PROVE  Append(q, e) \in Good
  <2> SUFFICES ASSUME Ordered(Append(q, e), R) PROVE Ordered(Picked(Append(q, e), S), R)
    OBVIOUS
  <2> DEFINE p == Picked(q, S)
  <2>1. Ordered(q, R) /\ \A x \in Range(q) : <<x, e>> \in R
    BY OrderedAppend
  <2>2. \/ Picked(Append(q, e), S) = Append(p, e)
        \/ Picked(Append(q, e), S) = p
    BY PickedAppend
  <2>3. Ordered(p, R)
    BY <1>2, <2>1
  <2>4. p \in Seq(E) /\ Range(p) \subseteq Range(q)
    <3>1. p \in Seq(E) /\ Range(p) = {q[i] : i \in S \cap DOMAIN q}
      BY PickedRange
    <3> HIDE DEF p
    <3>2. \A i \in DOMAIN q : q[i] \in Range(q)
      BY DEF Range
    <3> QED
      BY <3>1, <3>2
  <2> HIDE DEF p
  <2>5. Ordered(Append(p, e), R)
    BY <2>1, <2>3, <2>4, OrderedAppend
  <2> QED
    BY <2>2, <2>3, <2>5
<1>3. Seq(E) \subseteq Good
  <2> HIDE DEF Good
  <2> QED
    BY <1>1, <1>2, AppendInduction
<1> QED
  BY <1>3

\* Positions outside the sequence do not count.
LEMMA PickedSame ==
  ASSUME NEW E, NEW s \in Seq(E), NEW S, NEW T, (1..Len(s)) \cap S = (1..Len(s)) \cap T
  PROVE  Picked(s, S) = Picked(s, T)
<1> DEFINE Good == {q \in Seq(E) : (1..Len(q)) \cap S = (1..Len(q)) \cap T
                                     => Picked(q, S) = Picked(q, T)}
<1>1. <<>> \in Good
  BY PickedEmpty
<1>2. ASSUME NEW q \in Seq(E), q \in Good, NEW e \in E
      PROVE  Append(q, e) \in Good
  <2> DEFINE r == Append(q, e)
             n == Len(q)
  <2>1. r \in Seq(E) /\ Len(r) = n + 1 /\ n \in Nat
    OBVIOUS
  <2>2. /\ Picked(r, S) = IF n + 1 \in S THEN Append(Picked(q, S), e) ELSE Picked(q, S)
        /\ Picked(r, T) = IF n + 1 \in T THEN Append(Picked(q, T), e) ELSE Picked(q, T)
    BY PickedAppend
  <2>3. (1..n) \cap S = (1..n) \cap T => Picked(q, S) = Picked(q, T)
    BY <1>2
  <2> HIDE DEF r, n
  <2>4. ASSUME (1..(n + 1)) \cap S = (1..(n + 1)) \cap T
        PROVE  Picked(r, S) = Picked(r, T)
    <3>1. n + 1 \in 1..(n + 1) /\ 1..n \subseteq 1..(n + 1)
      BY <2>1
    <3>2. (1..n) \cap S = (1..n) \cap T /\ (n + 1 \in S <=> n + 1 \in T)
      BY <2>4, <3>1
    <3>3. Picked(q, S) = Picked(q, T)
      BY <2>3, <3>2
    <3> QED
      BY <2>2, <3>2, <3>3
  <2>5. r \in Good
    BY <2>1, <2>4
  <2> QED
    BY <2>5 DEF r
<1>3. Seq(E) \subseteq Good
  <2> HIDE DEF Good
  <2> QED
    BY <1>1, <1>2, AppendInduction
<1> QED
  BY <1>3

\* A sequence of which everything is kept stays as it is.
LEMMA PickedAll ==
  ASSUME NEW E, NEW s \in Seq(E), NEW S, 1..Len(s) \subseteq S
  PROVE  Picked(s, S) = s
<1> DEFINE Good == {q \in Seq(E) : 1..Len(q) \subseteq S => Picked(q, S) = q}
<1>1. <<>> \in Good
  BY PickedEmpty
<1>2. ASSUME NEW q \in Seq(E), q \in Good, NEW e \in E
      PROVE  Append(q, e) \in Good
  <2>1. Append(q, e) \in Seq(E) /\ Len(Append(q, e)) = Len(q) + 1 /\ Len(q) \in Nat
    OBVIOUS
  <2>2. Picked(Append(q, e), S) = IF Len(q) + 1 \in S THEN Append(Picked(q, S), e) ELSE Picked(q, S)
    BY PickedAppend
  <2>3. 1..(Len(q) + 1) \subseteq S => Len(q) + 1 \in S /\ 1..Len(q) \subseteq S
    BY <2>1
  <2> QED
    BY <1>2, <2>1, <2>2, <2>3
<1>3. Seq(E) \subseteq Good
  <2> HIDE DEF Good
  <2> QED
    BY <1>1, <1>2, AppendInduction
<1> QED
  BY <1>3

-----------------------------------------------------------------------------
(* Counting in an order *)

\* The elements of S that come before x.
Below(S, R, x) == {q \in S : <<q, x>> \in R}

\* In a strict total order of a finite set every position is taken by exactly
\* one element: the one with so many below it.
LEMMA Ranked ==
  ASSUME NEW S, IsFiniteSet(S), NEW R,
         \A x \in S : <<x, x>> \notin R,
         \A x, y, z \in S : <<x, y>> \in R /\ <<y, z>> \in R => <<x, z>> \in R,
         \A x, y \in S : x # y => <<x, y>> \in R \/ <<y, x>> \in R
  PROVE  /\ \A x \in S : Cardinality(Below(S, R, x)) \in 0..(Cardinality(S) - 1)
         /\ \A x, y \in S : Cardinality(Below(S, R, x)) = Cardinality(Below(S, R, y)) => x = y
         /\ \A i \in 1..Cardinality(S) : \E x \in S : Cardinality(Below(S, R, x)) = i - 1
<1> DEFINE n == Cardinality(S)
           B(x) == Below(S, R, x)
<1>1. n \in Nat
  BY FS_CardinalityType
<1>2. ASSUME NEW x \in S
      PROVE  IsFiniteSet(B(x)) /\ Cardinality(B(x)) \in 0..(n - 1)
  <2> DEFINE W == S \ {x}
  <2>1. IsFiniteSet(W) /\ Cardinality(W) = n - 1
    BY FS_RemoveElement
  <2>2. B(x) \in SUBSET W
    BY DEF Below
  <2> HIDE DEF W, B, n
  <2>3. IsFiniteSet(B(x)) /\ Cardinality(B(x)) <= Cardinality(W) /\ Cardinality(B(x)) \in Nat
    BY <2>1, <2>2, FS_Subset, FS_CardinalityType
  <2> QED
    BY <1>1, <2>1, <2>3
<1>3. ASSUME NEW x \in S, NEW y \in S, <<x, y>> \in R
      PROVE  Cardinality(B(x)) # Cardinality(B(y))
  <2>1. B(x) \cup {x} \in SUBSET B(y) /\ x \notin B(x)
    BY <1>3 DEF Below
  <2> DEFINE U == B(x)
             V == B(y)
  <2>2. IsFiniteSet(U) /\ IsFiniteSet(V) /\ Cardinality(U) \in Nat /\ Cardinality(V) \in Nat
    BY <1>2
  <2>3. U \cup {x} \in SUBSET V /\ x \notin U
    BY <2>1
  <2> HIDE DEF U, V
  <2>4. Cardinality(U \cup {x}) = Cardinality(U) + 1
    BY <2>2, <2>3, FS_AddElement
  <2>5. Cardinality(U \cup {x}) <= Cardinality(V)
    BY <2>2, <2>3, FS_Subset
  <2>6. Cardinality(U) # Cardinality(V)
    BY <2>2, <2>4, <2>5
  <2> QED
    BY <2>6 DEF U, V
<1>4. \A x, y \in S : Cardinality(B(x)) = Cardinality(B(y)) => x = y
  <2> HIDE DEF B
  <2> QED
    BY <1>3
<1> DEFINE T == 0..(n - 1)
           f == [x \in S |-> Cardinality(B(x))]
<1>5. f \in [S -> T]
  <2> HIDE DEF B
  <2> QED
    BY <1>2
<1>6. f \in Injection(S, T)
  <2>1. \A x \in S : f[x] = Cardinality(B(x))
    OBVIOUS
  <2>2. DOMAIN f = S
    OBVIOUS
  <2> HIDE DEF f, B, T
  <2> QED
    BY <1>4, <1>5, <2>1, <2>2 DEF Injection, IsInjective
<1>7. IsFiniteSet(T) /\ Cardinality(T) = n
  <2> HIDE DEF n
  <2>1. 0 \in Int /\ n - 1 \in Int
    BY <1>1
  <2>2. IsFiniteSet(0..(n - 1)) /\ Cardinality(0..(n - 1)) = IF 0 > n - 1 THEN 0 ELSE (n - 1) - 0 + 1
    BY <2>1, FS_Interval
  <2> QED
    BY <1>1, <2>2
<1>8. f \in Surjection(S, T)
  <2> HIDE DEF f, T
  <2>1. Cardinality(S) = Cardinality(T)
    BY <1>7
  <2> QED
    BY <1>6, <1>7, <2>1, FS_Injection
<1>9. \A t \in T : \E x \in S : f[x] = t
  <2> HIDE DEF f, T
  <2> QED
    BY <1>8 DEF Surjection
<1>10. \A i \in 1..n : i - 1 \in T
  BY <1>1
<1>11. \A i \in 1..n : \E x \in S : Cardinality(B(x)) = i - 1
  <2>1. \A x \in S : f[x] = Cardinality(B(x))
    OBVIOUS
  <2> HIDE DEF f, T, B, n
  <2> QED
    BY <1>9, <1>10, <2>1
<1> QED
  BY <1>2, <1>4, <1>11

-----------------------------------------------------------------------------
(* Joining and cutting what is in order *)

LEMMA JoinRange ==
  ASSUME NEW E, NEW q \in Seq(E), NEW r \in Seq(E)
  PROVE  q \o r \in Seq(E) /\ Range(q \o r) = Range(q) \cup Range(r)
<1> DEFINE m == Len(q)
           n == Len(r)
           all == q \o r
<1>1. /\ all \in Seq(E) /\ DOMAIN all = 1..(m + n) /\ DOMAIN q = 1..m /\ DOMAIN r = 1..n
      /\ m \in Nat /\ n \in Nat
      /\ \A i \in 1..m : all[i] = q[i]
      /\ \A i \in 1..n : all[m + i] = r[i]
  OBVIOUS
<1> HIDE DEF m, n, all
<1>2. ASSUME NEW x \in Range(all) PROVE x \in Range(q) \cup Range(r)
  <2>1. PICK i \in 1..(m + n) : all[i] = x
    BY <1>1 DEF Range
  <2>2. CASE i \in 1..m
    BY <1>1, <2>1, <2>2 DEF Range
  <2>3. CASE i \notin 1..m
    <3>1. i - m \in 1..n /\ m + (i - m) = i
      BY <1>1, <2>3
    <3> QED
      BY <1>1, <2>1, <3>1 DEF Range
  <2> QED
    BY <2>2, <2>3
<1>3. ASSUME NEW x \in Range(q) PROVE x \in Range(all)
  <2>1. PICK i \in 1..m : q[i] = x
    BY <1>1 DEF Range
  <2>2. i \in 1..(m + n)
    BY <1>1
  <2> QED
    BY <1>1, <2>1, <2>2 DEF Range
<1>4. ASSUME NEW x \in Range(r) PROVE x \in Range(all)
  <2>1. PICK i \in 1..n : r[i] = x
    BY <1>1 DEF Range
  <2>2. m + i \in 1..(m + n)
    BY <1>1
  <2> QED
    BY <1>1, <2>1, <2>2 DEF Range
<1> QED
  BY <1>1, <1>2, <1>3, <1>4 DEF all

\* Two sequences in order are in order together when everything of the first
\* may come before everything of the second.
LEMMA OrderedJoin ==
  ASSUME NEW E, NEW q \in Seq(E), NEW r \in Seq(E), NEW R, Ordered(q, R), Ordered(r, R),
         \A x \in Range(q), y \in Range(r) : <<x, y>> \in R
  PROVE  Ordered(q \o r, R)
<1> DEFINE m == Len(q)
           n == Len(r)
           all == q \o r
<1>1. /\ Len(all) = m + n /\ DOMAIN q = 1..m /\ DOMAIN r = 1..n
      /\ m \in Nat /\ n \in Nat
      /\ \A i \in 1..m : all[i] = q[i]
      /\ \A i \in 1..n : all[m + i] = r[i]
  OBVIOUS
<1>2. /\ \A i, j \in 1..m : i < j => <<q[i], q[j]>> \in R
      /\ \A i, j \in 1..n : i < j => <<r[i], r[j]>> \in R
  BY DEF Ordered
<1> HIDE DEF m, n, all
<1> SUFFICES ASSUME NEW i \in 1..(m + n), NEW j \in 1..(m + n), i < j
             PROVE  <<all[i], all[j]>> \in R
  BY <1>1 DEF Ordered, all
<1>3. CASE j \in 1..m
  <2>1. i \in 1..m
    BY <1>1, <1>3
  <2> QED
    BY <1>1, <1>2, <1>3, <2>1
<1>4. CASE i \in 1..m /\ j \notin 1..m
  <2>1. j - m \in 1..n /\ m + (j - m) = j
    BY <1>1, <1>4
  <2>2. all[i] \in Range(q) /\ all[j] \in Range(r)
    BY <1>1, <1>4, <2>1 DEF Range
  <2> QED
    BY <2>2
<1>5. CASE i \notin 1..m
  <2>1. i - m \in 1..n /\ m + (i - m) = i /\ j - m \in 1..n /\ m + (j - m) = j /\ i - m < j - m
    BY <1>1, <1>5
  <2> QED
    BY <1>1, <1>2, <2>1
<1> QED
  BY <1>3, <1>4, <1>5

\* A part of a sequence has only its elements, and keeps their order.
LEMMA OrderedPart ==
  ASSUME NEW E, NEW q \in Seq(E), NEW R, Ordered(q, R), NEW from \in 1..(Len(q) + 1), NEW to \in 0..Len(q)
  PROVE  LET p == SubSeq(q, from, to)
         IN  p \in Seq(E) /\ Range(p) \subseteq Range(q) /\ Ordered(p, R)
<1> DEFINE p == SubSeq(q, from, to)
           n == IF from <= to THEN to - from + 1 ELSE 0
<1>1. /\ p \in Seq(E) /\ Len(p) = n /\ DOMAIN p = 1..n /\ n \in Nat /\ DOMAIN q = 1..Len(q) /\ Len(q) \in Nat
      /\ \A i \in 1..n : p[i] = q[from + i - 1]
  OBVIOUS
<1>2. \A i \in 1..n : from + i - 1 \in 1..Len(q)
  BY <1>1
<1>3. Range(p) \subseteq Range(q)
  <2> HIDE DEF p, n
  <2> QED
    BY <1>1, <1>2 DEF Range
<1>4. \A i, j \in 1..n : i < j => from + i - 1 < from + j - 1
  BY <1>1
<1>5. Ordered(p, R)
  <2>1. \A i, j \in 1..Len(q) : i < j => <<q[i], q[j]>> \in R
    BY DEF Ordered
  <2> HIDE DEF p, n
  <2> QED
    BY <1>1, <1>2, <1>4, <2>1 DEF Ordered
<1> QED
  BY <1>1, <1>3, <1>5
====
