------------------------- MODULE StrategyDeskProofs -------------------------
(* What a strategy decides on is what its snapshots said; no leg of an entry *)
(* is forgotten in the market; the books of a run balance; and a strategy    *)
(* knows what it owns: for every setup, policy, latency and set of snapshots.*)
EXTENDS StrategyDesk, BookLemmas

----------------------------------------------------------------------------
(* A series of points *)

Point == [at : Int, value : Int]

\* What falls out of the window goes, and nothing else does.
LEMMA DropPoints ==
  ASSUME NEW q \in Seq(Point), Ascending(q), NEW now
  PROVE  /\ Drop(q, now) \in Seq(Point) /\ Ascending(Drop(q, now))
         /\ Range(Drop(q, now)) = {p \in Range(q) : Within(p.at, now)}
<1> DEFINE S == {i \in DOMAIN q : Within(q[i].at, now)}
           R == {p \in Point \X Point : p[1].at < p[2].at}
<1>1. Drop(q, now) = Picked(q, S)
  BY DEF Drop
<1>2. \A i \in 1..Len(q) : q[i] \in Point
  OBVIOUS
<1>3. Ordered(q, R)
  BY <1>2 DEF Ordered, Ascending
<1>4. Picked(q, S) \in Seq(Point) /\ Range(Picked(q, S)) = {q[i] : i \in S \cap DOMAIN q}
  BY PickedRange
<1>5. Ordered(Picked(q, S), R)
  <2> HIDE DEF S, R
  <2> QED
    BY <1>3, PickedOrdered
<1>6. Ascending(Drop(q, now))
  BY <1>1, <1>5 DEF Ordered, Ascending
<1>7. {q[i] : i \in S \cap DOMAIN q} = {p \in Range(q) : Within(p.at, now)}
  BY DEF Range
<1> QED
  BY <1>1, <1>4, <1>6, <1>7

\* The point of this moment is the newest; it replaces one that was there.
LEMMA PutPoint ==
  ASSUME NEW q \in Seq(Point), Ascending(q), NEW now \in Int, NEW v \in Int,
         \A p \in Range(q) : p.at <= now
  PROVE  /\ Put(q, now, v) \in Seq(Point) /\ Ascending(Put(q, now, v))
         /\ Range(Put(q, now, v))
              = {p \in Range(q) : p.at # now} \cup {[at |-> now, value |-> v]}
<1> DEFINE point == [at |-> now, value |-> v]
           n == Len(q)
<1>1. point \in Point /\ n \in Nat /\ DOMAIN q = 1..n /\ point.at = now
  BY DEF Point
<1>2. \A i \in 1..n : q[i] \in Point /\ q[i] \in Range(q) /\ q[i].at \in Int /\ q[i].at <= now
  <2>1. \A i \in 1..n : q[i] \in Point
    OBVIOUS
  <2>2. \A i \in 1..n : q[i] \in Range(q)
    BY <1>1 DEF Range
  <2> HIDE DEF n
  <2> QED
    BY <2>1, <2>2 DEF Point
<1>3. CASE q = <<>> \/ now > LastOf(q).at
  <2>1. Put(q, now, v) = Append(q, point)
    BY <1>3 DEF Put
  <2>2. \A i \in 1..n : q[i].at < now
    <3> SUFFICES ASSUME NEW i \in 1..n PROVE q[i].at < now
      OBVIOUS
    <3>1. q # <<>> /\ n \in 1..n
      BY <1>1
    <3>2. q[n].at < now
      BY <1>2, <1>3, <3>1 DEF LastOf
    <3>3. CASE i = n
      BY <3>2, <3>3
    <3>4. CASE i # n
      <4>1. q[i].at < q[n].at
        <5>1. i < n
          <6> HIDE DEF n
          <6> QED
            BY <1>1, <3>4
        <5> QED
          BY <3>1, <5>1 DEF Ascending
      <4> QED
        BY <1>2, <3>1, <3>2, <4>1
    <3> QED
      BY <3>3, <3>4
  <2>3. \A p \in Range(q) : p.at # now
    BY <1>1, <1>2, <2>2 DEF Range
  <2> DEFINE r == Append(q, point)
  <2>4. /\ r \in Seq(Point) /\ Len(r) = n + 1 /\ r[n + 1] = point
        /\ \A i \in 1..n : r[i] = q[i]
    BY <1>1
  <2>5. Range(r) = Range(q) \cup {point}
    BY <1>1, AppendRange
  <2> HIDE DEF r, point, n
  <2>6. \A i \in 1..(n + 1) : i \in 1..n \/ i = n + 1
    BY <1>1
  <2>7. \A i, j \in 1..(n + 1) : i < j => i \in 1..n
    BY <1>1
  <2>8. Ascending(r)
    BY <1>1, <2>2, <2>4, <2>6, <2>7 DEF Ascending, n
  <2>9. Range(r) = {p \in Range(q) : p.at # now} \cup {point}
    BY <2>3, <2>5
  <2> QED
    BY <2>1, <2>4, <2>8, <2>9 DEF r, point
<1>4. CASE q # <<>> /\ now <= LastOf(q).at
  <2>1. n \in 1..n /\ q[n].at = now
    <3>1. n \in 1..n
      BY <1>1, <1>4
    <3> QED
      BY <1>2, <1>4, <3>1 DEF LastOf
  <2> DEFINE r == [q EXCEPT ![n] = point]
  <2>2. Put(q, now, v) = r
    BY <1>4, <2>1 DEF Put, LastOf
  <2>3. /\ r \in Seq(Point) /\ Len(r) = n /\ r[n] = point
        /\ \A i \in 1..n : i # n => r[i] = q[i]
    <3>1. DOMAIN r = 1..n /\ r[n] = point /\ \A i \in 1..n : i # n => r[i] = q[i]
      BY <1>1, <2>1
    <3>2. \A i \in 1..n : r[i] \in Point
      BY <1>1, <1>2, <3>1
    <3> HIDE DEF r, point
    <3>3. r = [i \in 1..n |-> r[i]]
      <4>1. r = [i \in DOMAIN r |-> r[i]]
        BY DEF r
      <4> HIDE DEF n
      <4> QED
        BY <3>1, <4>1
    <3> HIDE DEF n
    <3>4. r \in Seq(Point) /\ Len(r) = n
      BY <1>1, <3>2, <3>3
    <3> QED
      BY <3>1, <3>4
  <2>4. \A i \in 1..n : i # n => q[i].at < now
    <3>1. \A i \in 1..n : i # n => i < n
      <4> HIDE DEF n
      <4> QED
        BY <1>1
    <3>2. \A i \in 1..n : i # n => q[i].at < q[n].at
      BY <2>1, <3>1 DEF Ascending
    <3> QED
      BY <2>1, <3>2
  <2> HIDE DEF r, point, n
  <2>5. \A i, j \in 1..n : i < j => i # n
    BY <1>1
  <2>6. Ascending(r)
    <3> SUFFICES ASSUME NEW i \in 1..n, NEW j \in 1..n, i < j PROVE r[i].at < r[j].at
      BY <2>3 DEF Ascending
    <3>0. \A k, l \in 1..n : k < l => q[k].at < q[l].at
      BY DEF Ascending, n
    <3>1. r[i] = q[i]
      BY <2>3, <2>5
    <3>2. CASE j = n
      BY <1>1, <2>3, <2>4, <2>5, <3>1, <3>2
    <3>3. CASE j # n
      BY <2>3, <3>0, <3>1, <3>3
    <3> QED
      BY <3>2, <3>3
  <2>7. DOMAIN r = 1..n
    BY <2>3
  <2>8. Range(r) = {r[i] : i \in 1..n} /\ Range(q) = {q[i] : i \in 1..n}
    BY <1>1, <2>7 DEF Range
  <2>9. Range(r) = {p \in Range(q) : p.at # now} \cup {point}
    <3>1. \A i \in 1..n : r[i] \in {p \in Range(q) : p.at # now} \cup {point}
      BY <1>2, <2>3, <2>4
    <3>2. ASSUME NEW i \in 1..n, q[i].at # now PROVE q[i] \in Range(r)
      BY <2>1, <2>3, <2>8, <3>2
    <3>3. point \in Range(r)
      BY <2>1, <2>3, <2>8
    <3> QED
      BY <2>8, <3>1, <3>2, <3>3
  <2> QED
    BY <2>2, <2>3, <2>6, <2>9 DEF r, point
<1>5. q # <<>> => LastOf(q).at \in Int
  BY <1>1, <1>2 DEF LastOf
<1> QED
  BY <1>3, <1>4, <1>5

\* A series that keeps what it should of the points P: none but these, and all
\* of them that are in the window.
Faithful(q, P, now) ==
  /\ q \in Seq(Point) /\ Ascending(q) /\ Range(q) \subseteq P
  /\ \A p \in P : p.at >= now - Window => p \in Range(q)

\* P with the point of this moment.
Newest(P, now, v) == {p \in P : p.at # now} \cup {[at |-> now, value |-> v]}

LEMMA PutFaithful ==
  ASSUME NEW now \in Int, NEW q, NEW P \in SUBSET Point, Faithful(q, P, now),
         \A p \in P : p.at <= now, NEW v \in Int
  PROVE  /\ Faithful(Put(q, now, v), Newest(P, now, v), now)
         /\ Faithful(Drop(Put(q, now, v), now), Newest(P, now, v), now)
<1> DEFINE r == Put(q, now, v)
           N == Newest(P, now, v)
<1>1. /\ r \in Seq(Point) /\ Ascending(r)
      /\ Range(r) = {p \in Range(q) : p.at # now} \cup {[at |-> now, value |-> v]}
  BY PutPoint DEF Faithful
<1> HIDE DEF r
<1>2. Faithful(r, N, now)
  BY <1>1 DEF Faithful, Newest
<1>3. /\ Drop(r, now) \in Seq(Point) /\ Ascending(Drop(r, now))
      /\ Range(Drop(r, now)) = {p \in Range(r) : Within(p.at, now)}
  BY <1>1, DropPoints
<1>4. \A p : p.at >= now - Window => Within(p.at, now)
  BY DEF Within
<1>5. Faithful(Drop(r, now), N, now)
  BY <1>2, <1>3, <1>4 DEF Faithful
<1> QED
  BY <1>2, <1>5 DEF r

\* A later moment asks for less.
LEMMA FaithfulLater ==
  ASSUME NEW q, NEW P \in SUBSET Point, NEW now \in Int, NEW later \in Int, now <= later,
         Faithful(q, P, now)
  PROVE  Faithful(q, P, later)
<1>1. \A p \in P : p.at \in Int
  BY DEF Point
<1>2. \A p \in P : p.at >= later - Window => p.at >= now - Window
  BY <1>1, SignalAssumption
<1> QED
  BY <1>2 DEF Faithful

----------------------------------------------------------------------------
(* What was shown *)

Entry == [at : Int, snap : Snapshots]

\* Points, of the entries h whose snapshot is in T and has a value in v.
PointsOf(h, T, v) ==
  {[at |-> h[i].at, value |-> v[h[i].snap]] :
     i \in {j \in DOMAIN h :
             /\ h[j].snap \in T
             /\ \A k \in DOMAIN h : k > j /\ h[k].snap \in T => h[k].at # h[j].at}}

LEMMA PointsType ==
  ASSUME NEW h \in Seq(Entry), NEW T, NEW v, \A x \in T \cap Snapshots : v[x] \in Int,
         NEW now \in Int, \A i \in DOMAIN h : h[i].at <= now
  PROVE  PointsOf(h, T, v) \in SUBSET Point /\ \A p \in PointsOf(h, T, v) : p.at <= now
<1>1. \A i \in DOMAIN h : h[i] \in Entry
  OBVIOUS
<1>2. \A i \in DOMAIN h : h[i].at \in Int /\ h[i].snap \in Snapshots
  BY <1>1 DEF Entry
<1>3. ASSUME NEW p \in PointsOf(h, T, v) PROVE p \in Point /\ p.at <= now
  <2>1. PICK i \in DOMAIN h : h[i].snap \in T /\ p = [at |-> h[i].at, value |-> v[h[i].snap]]
    BY DEF PointsOf
  <2>2. p.at = h[i].at /\ p.value = v[h[i].snap]
    BY <2>1
  <2>3. v[h[i].snap] \in Int
    BY <1>2, <2>1
  <2> QED
    BY <1>2, <2>1, <2>2, <2>3 DEF Point
<1> QED
  BY <1>3

\* A new entry makes one new point, which replaces that of its moment.
LEMMA PointsAppend ==
  ASSUME NEW h \in Seq(Entry), NEW e \in Entry, NEW T, NEW v
  PROVE  PointsOf(Append(h, e), T, v)
           = IF e.snap \in T THEN Newest(PointsOf(h, T, v), e.at, v[e.snap]) ELSE PointsOf(h, T, v)
<1> DEFINE n == Len(h)
           r == Append(h, e)
           Last(q) == {j \in DOMAIN q : /\ q[j].snap \in T
                                        /\ \A k \in DOMAIN q : k > j /\ q[k].snap \in T
                                             => q[k].at # q[j].at}
           Of(q, i) == [at |-> q[i].at, value |-> v[q[i].snap]]
<1>1. /\ n \in Nat /\ DOMAIN h = 1..n /\ DOMAIN r = 1..(n + 1) /\ r[n + 1] = e
      /\ \A i \in 1..n : r[i] = h[i]
  OBVIOUS
<1>2. /\ PointsOf(h, T, v) = {Of(h, i) : i \in Last(h)}
      /\ PointsOf(r, T, v) = {Of(r, i) : i \in Last(r)}
  BY DEF PointsOf
<1> HIDE DEF n, r
<1>3. /\ \A i \in 1..(n + 1) : i \in 1..n \/ i = n + 1
      /\ n + 1 \in 1..(n + 1) /\ n + 1 \notin 1..n
      /\ \A i \in 1..n : i \in 1..(n + 1) /\ n + 1 > i /\ ~(i > n + 1)
      /\ ~(n + 1 > n + 1)
  BY <1>1
<1>4. CASE e.snap \in T
  <2>1. \A i \in 1..n : i \in Last(r) <=> i \in Last(h) /\ h[i].at # e.at
    BY <1>1, <1>3, <1>4
  <2>2. n + 1 \in Last(r)
    BY <1>1, <1>3, <1>4
  <2>3. Of(r, n + 1) = [at |-> e.at, value |-> v[e.snap]]
    BY <1>1
  <2>4. \A i \in 1..n : Of(r, i) = Of(h, i) /\ Of(h, i).at = h[i].at
    BY <1>1
  <2>5. Last(r) \subseteq 1..(n + 1) /\ Last(h) \subseteq 1..n
    BY <1>1
  <2> HIDE DEF Last, Of
  <2>6. {Of(r, i) : i \in Last(r)}
          = {p \in {Of(h, i) : i \in Last(h)} : p.at # e.at} \cup {[at |-> e.at, value |-> v[e.snap]]}
    BY <1>3, <2>1, <2>2, <2>3, <2>4, <2>5
  <2> QED
    BY <1>2, <1>4, <2>6 DEF Newest, r
<1>5. CASE e.snap \notin T
  <2>1. \A i \in 1..n : i \in Last(r) <=> i \in Last(h)
    BY <1>1, <1>3, <1>5
  <2>2. n + 1 \notin Last(r)
    BY <1>1, <1>3, <1>5
  <2>4. \A i \in 1..n : Of(r, i) = Of(h, i)
    BY <1>1
  <2>5. Last(r) \subseteq 1..(n + 1) /\ Last(h) \subseteq 1..n
    BY <1>1
  <2> HIDE DEF Last, Of
  <2>6. {Of(r, i) : i \in Last(r)} = {Of(h, i) : i \in Last(h)}
    BY <1>3, <2>1, <2>2, <2>4, <2>5
  <2> QED
    BY <1>2, <1>5, <2>6 DEF r
<1> QED
  BY <1>4, <1>5

LEMMA PointsEmpty == \A T, v : PointsOf(<<>>, T, v) = {}
<1>1. DOMAIN <<>> = {}
  OBVIOUS
<1> QED
  BY <1>1 DEF PointsOf

----------------------------------------------------------------------------
(* The windows of premiums, and what they should be *)

\* The snapshots a symbol has a premium in, and those both funds have one in,
\* with what is kept of them.
Taken(s) == {snap \in Snapshots : s \in Quoting(snap)}
Premium(s) == [snap \in Snapshots |-> QuotePremium(snap[s])]
Both == {snap \in Snapshots : {FundA, FundB} \subseteq Quoting(snap)}
Spread == [snap \in Snapshots |-> QuotePremium(snap[FundA]) - QuotePremium(snap[FundB])]

LEMMA PremiumInt ==
  ASSUME NEW snap \in Snapshots, NEW s \in Quoting(snap)
  PROVE  QuotePremium(snap[s]) \in Int
<1>1. s \in DOMAIN snap
  BY DEF Quoting
<1>2. snap[s].last \in Int /\ snap[s].nav \in Int /\ snap[s].premium \in Int
  BY <1>1, DeskAssumption
<1>3. snap[s].nav > 0 => ((snap[s].last - snap[s].nav) * 100) \div snap[s].nav \in Int
  <2> DEFINE a == (snap[s].last - snap[s].nav) * 100
             b == snap[s].nav
  <2>1. a \in Int /\ b \in Int
    BY <1>2
  <2> HIDE DEF a, b
  <2>2. b > 0 => a \div b \in Int
    BY <2>1
  <2> QED
    BY <2>2 DEF a, b
<1> QED
  BY <1>2, <1>3 DEF QuotePremium, Missing

LEMMA PremiumOf ==
  ASSUME NEW s
  PROVE  /\ \A snap \in Taken(s) : Premium(s)[snap] = QuotePremium(snap[s]) /\ Premium(s)[snap] \in Int
         /\ \A snap \in Both : /\ Spread[snap] = QuotePremium(snap[FundA]) - QuotePremium(snap[FundB])
                               /\ Spread[snap] \in Int
  BY PremiumInt DEF Taken, Premium, Both, Spread

PremiumPoints(h, s) == PointsOf(h, Taken(s), Premium(s))
SpreadPoints(h) == PointsOf(h, Both, Spread)

\* What the memory of a pair strategy keeps is what it was shown.
SeriesInv(series, h, now) ==
  /\ setup.name = "bubble_rank" =>
       \A s \in Symbols : Faithful(series[s], PremiumPoints(h, s), now)
  /\ setup.name = "pair_zscore" => Faithful(series[FundA], SpreadPoints(h), now)

History(h, now) == h \in Seq(Entry) /\ \A i \in DOMAIN h : h[i].at <= now

LEMMA PremiumPointsType ==
  ASSUME NEW h, NEW now \in Int, History(h, now)
  PROVE  /\ \A s : PremiumPoints(h, s) \in SUBSET Point /\ \A p \in PremiumPoints(h, s) : p.at <= now
         /\ SpreadPoints(h) \in SUBSET Point /\ \A p \in SpreadPoints(h) : p.at <= now
<1>1. ASSUME NEW s
      PROVE  PremiumPoints(h, s) \in SUBSET Point /\ \A p \in PremiumPoints(h, s) : p.at <= now
  <2> DEFINE T == Taken(s)
             v == Premium(s)
  <2>1. \A x \in T \cap Snapshots : v[x] \in Int
    BY PremiumOf
  <2> HIDE DEF T, v
  <2>2. PointsOf(h, T, v) \in SUBSET Point /\ \A p \in PointsOf(h, T, v) : p.at <= now
    BY <2>1, PointsType DEF History
  <2> QED
    BY <2>2 DEF PremiumPoints, T, v
<1>2. \A x \in Both \cap Snapshots : Spread[x] \in Int
  BY PremiumOf
<1>3. SpreadPoints(h) \in SUBSET Point /\ \A p \in SpreadPoints(h) : p.at <= now
  BY <1>2, PointsType DEF History, SpreadPoints
<1> QED
  BY <1>1, <1>3

LEMMA SeriesLater ==
  ASSUME NEW series, NEW h, NEW now \in Int, NEW later \in Int, now <= later,
         History(h, now), SeriesInv(series, h, now)
  PROVE  SeriesInv(series, h, later) /\ History(h, later)
<1>1. /\ \A s : PremiumPoints(h, s) \in SUBSET Point
      /\ SpreadPoints(h) \in SUBSET Point
  BY PremiumPointsType
<1>2. SeriesInv(series, h, later)
  BY <1>1, FaithfulLater DEF SeriesInv
<1>3. \A i \in DOMAIN h : h[i] \in Entry
  BY DEF History
<1>4. \A i \in DOMAIN h : h[i].at \in Int
  BY <1>3 DEF Entry
<1> QED
  BY <1>2, <1>4 DEF History

LEMMA SeriesBlank ==
  ASSUME NEW now
  PROVE  SeriesInv(NoSeries, <<>>, now) /\ History(<<>>, now)
<1>1. /\ <<>> \in Seq(Point) /\ <<>> \in Seq(Entry) /\ Len(<<>>) = 0 /\ DOMAIN <<>> = {}
  OBVIOUS
<1>2. Ascending(<<>>) /\ Range(<<>>) = {}
  BY <1>1 DEF Ascending, Range
<1>3. Faithful(<<>>, {}, now)
  BY <1>1, <1>2 DEF Faithful
<1>4. \A s \in Symbols : NoSeries[s] = <<>>
  BY DEF NoSeries
<1>5. FundA \in Symbols
  BY SignalAssumption
<1> QED
  BY <1>1, <1>3, <1>4, <1>5, PointsEmpty DEF SeriesInv, History, PremiumPoints, SpreadPoints

\* A decision takes the snapshot up as it was shown.
LEMMA AppendPremiumsFaithful ==
  ASSUME NEW series, NEW h, NEW now \in Int, NEW snap \in Snapshots, History(h, now),
         \A s \in Symbols : Faithful(series[s], PremiumPoints(h, s), now), NEW s \in Symbols
  PROVE  Faithful(AppendPremiums(series, snap, now)[s],
                  PremiumPoints(Append(h, [at |-> now, snap |-> snap]), s), now)
<1> DEFINE e == [at |-> now, snap |-> snap]
           P == PremiumPoints(h, s)
           v == QuotePremium(snap[s])
           q == series[s]
           more == Put(q, now, v)
<1>1. e \in Entry /\ e.at = now /\ e.snap = snap
  BY DEF Entry
<1>2. h \in Seq(Entry) /\ P \in SUBSET Point /\ (\A p \in P : p.at <= now) /\ Faithful(q, P, now)
  BY PremiumPointsType DEF History
<1>3. PremiumPoints(Append(h, e), s)
        = IF snap \in Taken(s) THEN Newest(P, now, Premium(s)[snap]) ELSE P
  <2> DEFINE T == Taken(s)
             w == Premium(s)
  <2> HIDE DEF T, w, e
  <2>1. PointsOf(Append(h, e), T, w)
          = IF e.snap \in T THEN Newest(PointsOf(h, T, w), e.at, w[e.snap]) ELSE PointsOf(h, T, w)
    BY <1>1, <1>2, PointsAppend
  <2> QED
    BY <1>1, <2>1 DEF PremiumPoints, T, w
<1>4. AppendPremiums(series, snap, now)[s]
        = IF s \notin Quoting(snap) THEN q ELSE IF Len(more) > Len(q) THEN Drop(more, now) ELSE more
  BY DEF AppendPremiums
<1>5. s \in Quoting(snap) <=> snap \in Taken(s)
  BY DEF Taken
<1>6. CASE s \in Quoting(snap)
  <2>1. v \in Int /\ Premium(s)[snap] = v
    BY <1>5, <1>6, PremiumOf
  <2> HIDE DEF P, v, q, e
  <2>2. Faithful(Put(q, now, v), Newest(P, now, v), now)
        /\ Faithful(Drop(Put(q, now, v), now), Newest(P, now, v), now)
    BY <1>2, <2>1, PutFaithful
  <2> QED
    BY <1>3, <1>4, <1>5, <1>6, <2>1, <2>2 DEF e
<1>7. CASE s \notin Quoting(snap)
  BY <1>2, <1>3, <1>4, <1>5, <1>7
<1> QED
  BY <1>6, <1>7

LEMMA AppendSpreadFaithful ==
  ASSUME NEW q, NEW h, NEW now \in Int, NEW snap \in Snapshots, History(h, now),
         Faithful(q, SpreadPoints(h), now)
  PROVE  Faithful(AppendSpread(q, snap, now),
                  SpreadPoints(Append(h, [at |-> now, snap |-> snap])), now)
<1> DEFINE e == [at |-> now, snap |-> snap]
           P == SpreadPoints(h)
           v == QuotePremium(snap[FundA]) - QuotePremium(snap[FundB])
<1>1. e \in Entry /\ e.at = now /\ e.snap = snap
  BY DEF Entry
<1>2. h \in Seq(Entry) /\ P \in SUBSET Point /\ (\A p \in P : p.at <= now) /\ Faithful(q, P, now)
  BY PremiumPointsType DEF History
<1>3. SpreadPoints(Append(h, e)) = IF snap \in Both THEN Newest(P, now, Spread[snap]) ELSE P
  <2> HIDE DEF e
  <2>1. PointsOf(Append(h, e), Both, Spread)
          = IF e.snap \in Both THEN Newest(PointsOf(h, Both, Spread), e.at, Spread[e.snap])
            ELSE PointsOf(h, Both, Spread)
    BY <1>1, <1>2, PointsAppend
  <2> QED
    BY <1>1, <2>1 DEF SpreadPoints
<1>4. {FundA, FundB} \subseteq Quoting(snap) <=> snap \in Both
  BY DEF Both
<1>5. CASE snap \in Both
  <2>1. v \in Int /\ Spread[snap] = v
    BY <1>5, PremiumOf
  <2>2. AppendSpread(q, snap, now) = Drop(Put(q, now, v), now)
    BY <1>4, <1>5 DEF AppendSpread
  <2> HIDE DEF P, v, e
  <2>3. Faithful(Drop(Put(q, now, v), now), Newest(P, now, v), now)
    BY <1>2, <2>1, PutFaithful
  <2> QED
    BY <1>3, <1>5, <2>1, <2>2, <2>3 DEF e
<1>6. CASE snap \notin Both
  BY <1>2, <1>3, <1>4, <1>6 DEF AppendSpread
<1> QED
  BY <1>5, <1>6

\* A history that grows.
LEMMA HistoryAppend ==
  ASSUME NEW h, NEW now \in Int, NEW snap \in Snapshots, History(h, now)
  PROVE  History(Append(h, [at |-> now, snap |-> snap]), now)
<1> DEFINE e == [at |-> now, snap |-> snap]
           r == Append(h, e)
<1>1. e \in Entry /\ e.at = now
  BY DEF Entry
<1>2. h \in Seq(Entry)
  BY DEF History
<1> HIDE DEF e
<1>3. r \in Seq(Entry) /\ DOMAIN r = 1..(Len(h) + 1) /\ Len(h) \in Nat /\ DOMAIN h = 1..Len(h)
  BY <1>1, <1>2
<1>4. \A i \in 1..Len(h) : r[i] = h[i]
  BY <1>2
<1>5. r[Len(h) + 1] = e
  BY <1>2
<1>6. \A i \in 1..(Len(h) + 1) : i \in 1..Len(h) \/ i = Len(h) + 1
  BY <1>3
<1> HIDE DEF r
<1>7. \A i \in DOMAIN r : r[i].at <= now
  BY <1>1, <1>3, <1>4, <1>5, <1>6 DEF History
<1> QED
  BY <1>3, <1>7 DEF History, r, e

----------------------------------------------------------------------------
(* Prices *)

LEMMA SameElements ==
  ASSUME NEW E, NEW p \in Seq(E), NEW q \in Seq(E), Len(p) = Len(q), \A i \in 1..Len(p) : p[i] = q[i]
  PROVE  p = q
<1>1. p = [i \in 1..Len(p) |-> p[i]] /\ q = [i \in 1..Len(q) |-> q[i]]
  OBVIOUS
<1> QED
  BY <1>1

\* The prices of a symbol in the entries h.
PricesOf(h, s) ==
  LET quoted == Picked(h, {i \in DOMAIN h : s \in DOMAIN h[i].snap})
  IN  [i \in DOMAIN quoted |-> quoted[i].snap[s].last]

\* Selecting by what an element is, and one more element.
LEMMA PickedMore ==
  ASSUME NEW E, NEW q \in Seq(E), NEW e \in E, NEW T
  PROVE  Picked(Append(q, e), {i \in DOMAIN Append(q, e) : Append(q, e)[i] \in T})
           = LET p == Picked(q, {i \in DOMAIN q : q[i] \in T})
             IN  IF e \in T THEN Append(p, e) ELSE p
<1> DEFINE n == Len(q)
           r == Append(q, e)
           S == {i \in DOMAIN r : r[i] \in T}
           U == {i \in DOMAIN q : q[i] \in T}
<1>1. /\ n \in Nat /\ DOMAIN q = 1..n /\ DOMAIN r = 1..(n + 1) /\ r[n + 1] = e
      /\ \A i \in 1..n : r[i] = q[i]
  OBVIOUS
<1>2. Picked(r, S) = IF n + 1 \in S THEN Append(Picked(q, S), e) ELSE Picked(q, S)
  <2> DEFINE W == S
  <2> HIDE DEF W
  <2>1. Picked(Append(q, e), W) = IF Len(q) + 1 \in W THEN Append(Picked(q, W), e) ELSE Picked(q, W)
    BY PickedAppend
  <2> QED
    BY <2>1 DEF W
<1> HIDE DEF r
<1>3. n + 1 \in S <=> e \in T
  <2> HIDE DEF n
  <2>1. n + 1 \in 1..(n + 1)
    BY <1>1
  <2> QED
    BY <1>1, <2>1
<1>4. (1..n) \cap S = (1..n) \cap U
  <2> HIDE DEF n
  <2>1. \A i \in 1..n : i \in 1..(n + 1)
    BY <1>1
  <2> QED
    BY <1>1, <2>1
<1>5. Picked(q, S) = Picked(q, U)
  <2> HIDE DEF S, U
  <2> QED
    BY <1>4, PickedSame
<1> QED
  BY <1>2, <1>3, <1>5 DEF r

LEMMA PricesAppend ==
  ASSUME NEW h \in Seq(Entry), NEW e \in Entry, NEW s
  PROVE  /\ PricesOf(h, s) \in Seq(Int)
         /\ PricesOf(Append(h, e), s)
              = IF s \in DOMAIN e.snap THEN Append(PricesOf(h, s), e.snap[s].last) ELSE PricesOf(h, s)
<1> DEFINE T == {x \in Entry : s \in DOMAIN x.snap}
           Quotes(q) == Picked(q, {i \in DOMAIN q : q[i] \in T})
           Lasts(p) == [i \in DOMAIN p |-> p[i].snap[s].last]
<1>1. ASSUME NEW q \in Seq(Entry)
      PROVE  PricesOf(q, s) = Lasts(Quotes(q)) /\ Quotes(q) \in Seq(T)
  <2> DEFINE S == {i \in DOMAIN q : q[i] \in T}
  <2>1. \A i \in DOMAIN q : q[i] \in Entry
    OBVIOUS
  <2>2. S = {i \in DOMAIN q : s \in DOMAIN q[i].snap}
    BY <2>1
  <2>3. \A i \in S \cap DOMAIN q : q[i] \in T
    OBVIOUS
  <2> HIDE DEF S, T
  <2>4. Picked(q, S) \in Seq(Entry) /\ Range(Picked(q, S)) = {q[i] : i \in S \cap DOMAIN q}
    BY PickedRange
  <2> DEFINE p == Picked(q, S)
  <2>5. \A i \in DOMAIN p : p[i] \in T
    <3> HIDE DEF p
    <3>1. Range(p) = {q[i] : i \in S \cap DOMAIN q}
      BY <2>4 DEF p
    <3> QED
      BY <2>3, <3>1 DEF Range
  <2>6. p \in Seq(T)
    <3> HIDE DEF p
    <3>1. p \in Seq(Entry)
      BY <2>4 DEF p
    <3> QED
      BY <2>5, <3>1
  <2>7. PricesOf(q, s) = Lasts(p)
    BY <2>2 DEF PricesOf
  <2> QED
    BY <2>6, <2>7 DEF S
<1>2. ASSUME NEW x \in T PROVE x.snap[s].last \in Int
  <2>1. x.snap \in Snapshots /\ s \in DOMAIN x.snap
    BY DEF Entry
  <2> QED
    BY <2>1, DeskAssumption
<1>3. ASSUME NEW p \in Seq(T) PROVE Lasts(p) \in Seq(Int) /\ DOMAIN Lasts(p) = DOMAIN p /\ Len(Lasts(p)) = Len(p)
  <2> HIDE DEF T
  <2>1. \A i \in 1..Len(p) : p[i] \in T /\ p[i].snap[s].last \in Int
    BY <1>2
  <2>2. DOMAIN p = 1..Len(p) /\ Len(p) \in Nat
    OBVIOUS
  <2> QED
    BY <2>1, <2>2
<1>4. Append(h, e) \in Seq(Entry)
  OBVIOUS
<1>5. Quotes(Append(h, e)) = IF e \in T THEN Append(Quotes(h), e) ELSE Quotes(h)
  <2> HIDE DEF T
  <2> QED
    BY PickedMore
<1>6. ASSUME NEW p \in Seq(T), e \in T
      PROVE  Lasts(Append(p, e)) = Append(Lasts(p), e.snap[s].last)
  <2> DEFINE n == Len(p)
             a == Append(p, e)
             l == e.snap[s].last
  <2>1. n \in Nat /\ DOMAIN a = 1..(n + 1) /\ a[n + 1] = e /\ \A i \in 1..n : a[i] = p[i]
    OBVIOUS
  <2> HIDE DEF a, T
  <2>2. Lasts(p) \in Seq(Int) /\ DOMAIN p = 1..n /\ Len(Lasts(p)) = n
    BY <1>3
  <2> DEFINE b == Lasts(p)
             c == Lasts(a)
  <2>3. a \in Seq(T) /\ l \in Int
    BY <1>2, <1>6 DEF a
  <2>4. c \in Seq(Int) /\ DOMAIN c = 1..(n + 1) /\ Len(c) = n + 1
    <3>1. c \in Seq(Int) /\ DOMAIN c = DOMAIN a
      BY <1>3, <2>3
    <3> HIDE DEF c
    <3> QED
      BY <2>1, <3>1
  <2>5. c[n + 1] = l /\ \A i \in 1..n : c[i] = b[i]
    <3>1. n + 1 \in 1..(n + 1) /\ \A i \in 1..n : i \in 1..(n + 1)
      BY <2>1
    <3> HIDE DEF n
    <3> QED
      BY <2>1, <2>2, <3>1
  <2> HIDE DEF n, l, b, c
  <2>6. b \in Seq(Int) /\ Len(b) = n
    BY <2>2 DEF b
  <2> DEFINE d == Append(b, l)
  <2>7. d \in Seq(Int) /\ Len(d) = n + 1 /\ d[n + 1] = l /\ \A i \in 1..n : d[i] = b[i]
    BY <2>3, <2>6
  <2> HIDE DEF d
  <2>8. \A i \in 1..(n + 1) : i \in 1..n \/ i = n + 1
    BY <2>1
  <2>9. \A i \in 1..Len(c) : c[i] = d[i]
    BY <2>4, <2>5, <2>7, <2>8
  <2>10. c = d
    BY <2>4, <2>7, <2>9, SameElements
  <2> QED
    BY <2>10 DEF a, b, c, d, l
<1>7. e \in T <=> s \in DOMAIN e.snap
  OBVIOUS
<1>8. Quotes(h) \in Seq(T) /\ PricesOf(h, s) = Lasts(Quotes(h))
      /\ PricesOf(Append(h, e), s) = Lasts(Quotes(Append(h, e)))
  BY <1>1, <1>4
<1> HIDE DEF T, Quotes, Lasts
<1> QED
  BY <1>3, <1>5, <1>6, <1>7, <1>8

LEMMA PositiveAppend ==
  ASSUME NEW q \in Seq(Int), NEW x \in Int
  PROVE  /\ Positive(q) \in Seq(Int)
         /\ Positive(Append(q, x)) = IF x > 0 THEN Append(Positive(q), x) ELSE Positive(q)
<1> DEFINE T == {y \in Int : y > 0}
<1>1. ASSUME NEW p \in Seq(Int)
      PROVE  Positive(p) = Picked(p, {i \in DOMAIN p : p[i] \in T})
  <2>1. \A i \in DOMAIN p : p[i] > 0 <=> p[i] \in T
    OBVIOUS
  <2> QED
    BY <2>1 DEF Positive
<1>2. x > 0 <=> x \in T
  OBVIOUS
<1> HIDE DEF T
<1>3. Picked(Append(q, x), {i \in DOMAIN Append(q, x) : Append(q, x)[i] \in T})
           = LET p == Picked(q, {i \in DOMAIN q : q[i] \in T})
             IN  IF x \in T THEN Append(p, x) ELSE p
  BY PickedMore
<1>4. Append(q, x) \in Seq(Int)
  OBVIOUS
<1>5. Positive(q) \in Seq(Int)
  BY PickedRange DEF Positive
<1> QED
  BY <1>1, <1>2, <1>3, <1>4, <1>5

LEMMA UnbrokenAppend ==
  ASSUME NEW q \in Seq(Int), NEW x \in Int
  PROVE  /\ Unbroken(q) \in Seq(Int)
         /\ Unbroken(Append(q, x)) = IF x > 0 THEN Append(Unbroken(q), x) ELSE <<>>
<1> DEFINE n == Len(q)
           r == Append(q, x)
           S == {i \in DOMAIN r : \A j \in DOMAIN r : j >= i => r[j] > 0}
           U == {i \in DOMAIN q : \A j \in DOMAIN q : j >= i => q[j] > 0}
<1>1. /\ n \in Nat /\ DOMAIN q = 1..n /\ DOMAIN r = 1..(n + 1) /\ r[n + 1] = x
      /\ \A i \in 1..n : r[i] = q[i]
  OBVIOUS
<1>2. Unbroken(r) = Picked(r, S) /\ Unbroken(q) = Picked(q, U)
  BY DEF Unbroken
<1>3. Picked(q, U) \in Seq(Int)
  BY PickedRange
<1>4. Picked(r, S) = IF n + 1 \in S THEN Append(Picked(q, S), x) ELSE Picked(q, S)
  <2> DEFINE W == S
  <2> HIDE DEF W
  <2>1. Picked(Append(q, x), W) = IF Len(q) + 1 \in W THEN Append(Picked(q, W), x) ELSE Picked(q, W)
    BY PickedAppend
  <2> QED
    BY <2>1 DEF W
<1> HIDE DEF r, n
<1>5. /\ \A i \in 1..(n + 1) : i \in 1..n \/ i = n + 1
      /\ n + 1 \in 1..(n + 1)
      /\ \A i \in 1..n : i \in 1..(n + 1) /\ n + 1 >= i /\ ~(i >= n + 1)
      /\ n + 1 >= n + 1
  BY <1>1
<1>6. CASE x > 0
  <2>1. n + 1 \in S
    BY <1>1, <1>5, <1>6
  <2>2. (1..n) \cap S = (1..n) \cap U
    BY <1>1, <1>5, <1>6
  <2>3. Picked(q, S) = Picked(q, U)
    <3> HIDE DEF S, U
    <3> QED
      BY <2>2, PickedSame DEF n
  <2> QED
    BY <1>2, <1>3, <1>4, <1>6, <2>1, <2>3 DEF r
<1>7. CASE ~(x > 0)
  <2>1. S = {}
    BY <1>1, <1>5, <1>7
  <2>2. Picked(q, {}) \in Seq(Int) /\ Range(Picked(q, {})) = {q[i] : i \in {} \cap DOMAIN q}
    BY PickedRange
  <2>3. Picked(q, {}) = <<>>
    <3> DEFINE p == Picked(q, {})
    <3>1. p \in Seq(Int) /\ Range(p) = {}
      BY <2>2
    <3> HIDE DEF p
    <3>2. DOMAIN p = {}
      BY <3>1 DEF Range
    <3>3. p = <<>>
      BY <3>1, <3>2
    <3> QED
      BY <3>3 DEF p
  <2> QED
    BY <1>2, <1>3, <1>4, <1>7, <2>1, <2>3 DEF r
<1> QED
  BY <1>6, <1>7

\* The last n of what was kept and one more are the last n of all.
LEMMA RecentAppend ==
  ASSUME NEW q \in Seq(Int), NEW x \in Int, NEW n \in Nat \ {0}
  PROVE  /\ Recent(q, n) \in Seq(Int)
         /\ Recent(Append(Recent(q, n), x), n) = Recent(Append(q, x), n)
         /\ Recent(Append(q, x), 1) = <<x>>
<1> DEFINE From(p, k) == IF Len(p) > k THEN Len(p) - k + 1 ELSE 1
           Longest(p, k) == IF Len(p) > k THEN k ELSE Len(p)
<1>1. ASSUME NEW p \in Seq(Int), NEW k \in Nat \ {0}
      PROVE  /\ Recent(p, k) \in Seq(Int) /\ Len(Recent(p, k)) = Longest(p, k) /\ Longest(p, k) \in Nat
             /\ \A i \in 1..Longest(p, k) : Recent(p, k)[i] = p[From(p, k) + i - 1]
  <2> DEFINE from == From(p, k)
             to == Len(p)
             size == IF from <= to THEN to - from + 1 ELSE 0
             c == SubSeq(p, from, to)
  <2>1. from \in 1..(Len(p) + 1) /\ to \in 0..Len(p)
    OBVIOUS
  <2>2. Recent(p, k) = c
    BY DEF Recent
  <2>3. size = Longest(p, k) /\ Longest(p, k) \in Nat
    <3> DEFINE m == Len(p)
    <3>1. m \in Nat
      OBVIOUS
    <3> HIDE DEF m
    <3>2. (IF (IF m > k THEN m - k + 1 ELSE 1) <= m
           THEN m - (IF m > k THEN m - k + 1 ELSE 1) + 1 ELSE 0) = (IF m > k THEN k ELSE m)
          /\ (IF m > k THEN k ELSE m) \in Nat
      BY <3>1
    <3> QED
      BY <3>2 DEF m
  <2> HIDE DEF from, to
  <2>4. c \in Seq(Int) /\ Len(c) = size /\ \A i \in 1..size : c[i] = p[from + i - 1]
    BY <2>1
  <2> HIDE DEF c, size
  <2> QED
    BY <2>2, <2>3, <2>4 DEF from
<1>2. Recent(q, n) \in Seq(Int)
  BY <1>1
<1> DEFINE old == Recent(q, n)
           a == Append(old, x)
           b == Append(q, x)
<1>3. /\ a \in Seq(Int) /\ Len(a) = Len(old) + 1 /\ a[Len(old) + 1] = x
      /\ \A i \in 1..Len(old) : a[i] = old[i]
  BY <1>2
<1>4. /\ b \in Seq(Int) /\ Len(b) = Len(q) + 1 /\ b[Len(q) + 1] = x /\ Len(q) \in Nat
      /\ \A i \in 1..Len(q) : b[i] = q[i]
  OBVIOUS
<1>5. Len(old) = Longest(q, n) /\ \A i \in 1..Longest(q, n) : old[i] = q[From(q, n) + i - 1]
  BY <1>1
<1> HIDE DEF a, b, old
<1>6. Longest(a, n) = Longest(b, n) /\ Longest(b, n) \in Nat \ {0}
  BY <1>3, <1>4, <1>5
<1>7. ASSUME NEW i \in 1..Longest(b, n)
      PROVE  a[From(a, n) + i - 1] = b[From(b, n) + i - 1]
  <2> DEFINE k == From(a, n) + i - 1
             l == From(b, n) + i - 1
             m == Len(old)
             o == Len(q)
  <2>1. m \in Nat /\ o \in Nat /\ Len(a) = m + 1 /\ Len(b) = o + 1
        /\ m = IF o > n THEN n ELSE o
    BY <1>3, <1>4, <1>5
  <2> HIDE DEF m, o
  <2>2. CASE i = Longest(b, n)
    <3>1. k = m + 1 /\ l = o + 1
      BY <2>1, <2>2
    <3> QED
      BY <1>3, <1>4, <3>1 DEF m, o
  <2>3. CASE i # Longest(b, n)
    <3>1. k \in 1..m /\ l \in 1..o
      BY <2>1, <2>3
    <3>2. From(q, n) + k - 1 = l
      <4>1. From(q, n) = IF o > n THEN o - n + 1 ELSE 1
        BY DEF o
      <4>2. i \in 1..(IF o + 1 > n THEN n ELSE o + 1) /\ i # IF o + 1 > n THEN n ELSE o + 1
        BY <2>1, <2>3
      <4>3. k = (IF m + 1 > n THEN m + 1 - n + 1 ELSE 1) + i - 1
            /\ l = (IF o + 1 > n THEN o + 1 - n + 1 ELSE 1) + i - 1
        BY <2>1
      <4> HIDE DEF k, l, From
      <4> QED
        BY <2>1, <4>1, <4>2, <4>3
    <3> HIDE DEF k, l
    <3>3. a[k] = old[k] /\ old[k] = q[From(q, n) + k - 1] /\ b[l] = q[l]
      <4> HIDE DEF From, Longest
      <4> QED
        BY <1>3, <1>4, <1>5, <3>1 DEF m, o
    <3>4. a[k] = b[l]
      BY <3>2, <3>3
    <3> QED
      BY <3>4 DEF k, l
  <2> QED
    BY <2>2, <2>3
<1>8. Recent(a, n) = Recent(b, n)
  <2> DEFINE c == Recent(a, n)
             d == Recent(b, n)
  <2>1. /\ c \in Seq(Int) /\ Len(c) = Longest(a, n) /\ \A i \in 1..Longest(a, n) : c[i] = a[From(a, n) + i - 1]
        /\ d \in Seq(Int) /\ Len(d) = Longest(b, n) /\ \A i \in 1..Longest(b, n) : d[i] = b[From(b, n) + i - 1]
    BY <1>1, <1>3, <1>4
  <2> HIDE DEF From, Longest, c, d
  <2>2. Len(c) = Len(d) /\ \A i \in 1..Len(c) : c[i] = d[i]
    BY <1>6, <1>7, <2>1
  <2>3. c = d
    BY <2>1, <2>2, SameElements
  <2> QED
    BY <2>3 DEF c, d
<1>9. Recent(b, 1) = <<x>>
  <2> DEFINE c == Recent(b, 1)
  <2>1. c \in Seq(Int) /\ Len(c) = Longest(b, 1) /\ \A i \in 1..Longest(b, 1) : c[i] = b[From(b, 1) + i - 1]
    <3>1. 1 \in Nat \ {0}
      OBVIOUS
    <3> HIDE DEF From, Longest
    <3> QED
      BY <1>1, <1>4, <3>1
  <2>2. Longest(b, 1) = 1 /\ From(b, 1) = Len(q) + 1
    BY <1>4
  <2> HIDE DEF c, From, Longest
  <2>3. Len(c) = 1 /\ c[1] = x
    <3>1. Len(q) + 1 + 1 - 1 = Len(q) + 1 /\ 1 \in 1..1
      BY <1>4
    <3> QED
      BY <1>4, <2>1, <2>2, <3>1
  <2>4. c \in Seq(Int) /\ Len(c) = 1 /\ c[1] = x => c = <<x>>
    OBVIOUS
  <2> QED
    BY <2>1, <2>3, <2>4 DEF c
<1> QED
  BY <1>2, <1>8, <1>9 DEF a, b, old

\* What the memory of a strategy of one symbol keeps is what it was shown.
PricesInv(prices, h) ==
  /\ setup.name = "streak" =>
       \A s \in Symbols : prices[s] = Recent(Unbroken(PricesOf(h, s)), Length + 1)
  /\ setup.name = "price_momentum" =>
       \A s \in Symbols : prices[s] = Recent(Positive(PricesOf(h, s)), 1)
  /\ setup.name = "ma_band" => prices[MaSymbol] = Recent(Positive(PricesOf(h, MaSymbol)), MaWindow)

LEMMA PricesBlank == PricesInv(Blank.prices, <<>>)
<1> DEFINE none == {i \in DOMAIN <<>> : FALSE}
<1>1. <<>> \in Seq({}) /\ <<>> \in Seq(Int) /\ DOMAIN <<>> = {} /\ Len(<<>>) = 0
  OBVIOUS
<1>2. \A s \in Symbols : PricesOf(<<>>, s) = <<>>
  <2> SUFFICES ASSUME NEW s \in Symbols PROVE PricesOf(<<>>, s) = <<>>
    OBVIOUS
  <2> DEFINE S == {i \in DOMAIN <<>> : s \in DOMAIN <<>>[i].snap}
             q == Picked(<<>>, S)
  <2>1. q = <<>>
    <3> HIDE DEF S
    <3> QED
      BY PickedEmpty
  <2>2. PricesOf(<<>>, s) = [i \in DOMAIN q |-> q[i].snap[s].last]
    BY DEF PricesOf
  <2> HIDE DEF q
  <2>3. [i \in DOMAIN q |-> q[i].snap[s].last] = <<>>
    BY <1>1, <2>1
  <2> QED
    BY <2>2, <2>3
<1>3. Positive(<<>>) = <<>> /\ Unbroken(<<>>) = <<>>
  BY PickedEmpty DEF Positive, Unbroken
<1>4. \A n \in Nat : Recent(<<>>, n) = <<>>
  <2> SUFFICES ASSUME NEW n \in Nat PROVE Recent(<<>>, n) = <<>>
    OBVIOUS
  <2>1. Recent(<<>>, n) = SubSeq(<<>>, 1, 0)
    BY <1>1 DEF Recent
  <2>2. SubSeq(<<>>, 1, 0) = <<>>
    BY <1>1
  <2> QED
    BY <2>1, <2>2
<1>5. \A s \in Symbols : Blank.prices[s] = <<>>
  BY DEF Blank
<1>6. Length + 1 \in Nat /\ 1 \in Nat /\ MaWindow \in Nat /\ MaSymbol \in Symbols
  BY SingleAssumption
<1> QED
  BY <1>2, <1>3, <1>4, <1>5, <1>6 DEF PricesInv

LEMMA RememberFollows ==
  ASSUME NEW prices, NEW h, NEW now \in Int, NEW snap \in Snapshots, History(h, now), PricesInv(prices, h)
  PROVE  PricesInv([s \in Symbols |-> IF s \in DOMAIN snap
                                      THEN Remember(setup.name, s, prices[s], snap[s]) ELSE prices[s]],
                   Append(h, [at |-> now, snap |-> snap]))
<1> DEFINE e == [at |-> now, snap |-> snap]
           more == [s \in Symbols |-> IF s \in DOMAIN snap
                                      THEN Remember(setup.name, s, prices[s], snap[s]) ELSE prices[s]]
           r == Append(h, e)
<1>1. e \in Entry /\ e.snap = snap /\ h \in Seq(Entry)
  BY DEF Entry, History
<1>2. ASSUME NEW s
      PROVE  /\ PricesOf(h, s) \in Seq(Int)
             /\ PricesOf(r, s) = IF s \in DOMAIN snap THEN Append(PricesOf(h, s), snap[s].last)
                                 ELSE PricesOf(h, s)
  <2> HIDE DEF e
  <2> QED
    BY <1>1, PricesAppend
<1>3. \A s \in DOMAIN snap : snap[s].last \in Int
  BY DeskAssumption
<1>4. \A s \in Symbols : more[s] = IF s \in DOMAIN snap
                                   THEN Remember(setup.name, s, prices[s], snap[s]) ELSE prices[s]
  OBVIOUS
<1>5. /\ \A n \in Nat : Recent(<<>>, n) = <<>>
  <2> SUFFICES ASSUME NEW n \in Nat PROVE Recent(<<>>, n) = <<>>
    OBVIOUS
  <2>1. Recent(<<>>, n) = SubSeq(<<>>, 1, 0) /\ <<>> \in Seq(Int)
    BY DEF Recent
  <2>2. SubSeq(<<>>, 1, 0) = <<>>
    OBVIOUS
  <2> QED
    BY <2>1, <2>2
<1> HIDE DEF more, r
<1>6. ASSUME setup.name = "streak", NEW s \in Symbols
      PROVE  more[s] = Recent(Unbroken(PricesOf(r, s)), Length + 1)
  <2> DEFINE q == PricesOf(h, s)
             x == snap[s].last
             n == Length + 1
  <2>1. prices[s] = Recent(Unbroken(q), n) /\ n \in Nat \ {0}
    BY <1>6, SingleAssumption DEF PricesInv
  <2>2. CASE s \in DOMAIN snap
    <3>1. q \in Seq(Int) /\ x \in Int /\ PricesOf(r, s) = Append(q, x)
      BY <1>2, <1>3, <2>2
    <3>2. more[s] = IF x <= 0 THEN <<>> ELSE Recent(Append(prices[s], x), n)
      BY <1>4, <1>6, <2>2 DEF Remember
    <3> HIDE DEF q, x, n
    <3>3. Unbroken(q) \in Seq(Int) /\ Unbroken(Append(q, x)) = IF x > 0 THEN Append(Unbroken(q), x) ELSE <<>>
      BY <3>1, UnbrokenAppend
    <3>4. Recent(Append(Recent(Unbroken(q), n), x), n) = Recent(Append(Unbroken(q), x), n)
      BY <2>1, <3>1, <3>3, RecentAppend
    <3>5. x > 0 \/ x <= 0
      BY <3>1
    <3>6. ~(x > 0 /\ x <= 0)
      BY <3>1
    <3>7. Recent(<<>>, n) = <<>>
      BY <1>5, <2>1
    <3> QED
      BY <2>1, <3>1, <3>2, <3>3, <3>4, <3>5, <3>6, <3>7 DEF n
  <2>3. CASE s \notin DOMAIN snap
    BY <1>2, <1>4, <2>1, <2>3
  <2> QED
    BY <2>2, <2>3
<1>7. ASSUME setup.name = "price_momentum", NEW s \in Symbols
      PROVE  more[s] = Recent(Positive(PricesOf(r, s)), 1)
  <2> DEFINE q == PricesOf(h, s)
             x == snap[s].last
  <2>1. prices[s] = Recent(Positive(q), 1)
    BY <1>7 DEF PricesInv
  <2>2. CASE s \in DOMAIN snap
    <3>1. q \in Seq(Int) /\ x \in Int /\ PricesOf(r, s) = Append(q, x)
      BY <1>2, <1>3, <2>2
    <3>2. more[s] = IF x <= 0 THEN prices[s] ELSE <<x>>
      BY <1>4, <1>7, <2>2 DEF Remember
    <3> HIDE DEF q, x
    <3>3. Positive(q) \in Seq(Int)
          /\ Positive(Append(q, x)) = IF x > 0 THEN Append(Positive(q), x) ELSE Positive(q)
      BY <3>1, PositiveAppend
    <3>4. 1 \in Nat \ {0}
      OBVIOUS
    <3>5. Recent(Append(Positive(q), x), 1) = <<x>>
      BY <3>1, <3>3, <3>4, RecentAppend
    <3>6. (x > 0 \/ x <= 0) /\ ~(x > 0 /\ x <= 0)
      BY <3>1
    <3> QED
      BY <2>1, <3>1, <3>2, <3>3, <3>5, <3>6
  <2>3. CASE s \notin DOMAIN snap
    BY <1>2, <1>4, <2>1, <2>3
  <2> QED
    BY <2>2, <2>3
<1>8. ASSUME setup.name = "ma_band"
      PROVE  more[MaSymbol] = Recent(Positive(PricesOf(r, MaSymbol)), MaWindow)
  <2> DEFINE s == MaSymbol
             q == PricesOf(h, s)
             x == snap[s].last
  <2>1. prices[s] = Recent(Positive(q), MaWindow) /\ MaWindow \in Nat \ {0} /\ s \in Symbols
    BY <1>8, SingleAssumption DEF PricesInv
  <2>2. CASE s \in DOMAIN snap
    <3>1. q \in Seq(Int) /\ x \in Int /\ PricesOf(r, s) = Append(q, x)
      BY <1>2, <1>3, <2>2
    <3>2. more[s] = IF x <= 0 THEN prices[s] ELSE Recent(Append(prices[s], x), MaWindow)
      BY <1>4, <1>8, <2>1, <2>2 DEF Remember
    <3> HIDE DEF q, x, s
    <3>3. Positive(q) \in Seq(Int)
          /\ Positive(Append(q, x)) = IF x > 0 THEN Append(Positive(q), x) ELSE Positive(q)
      BY <3>1, PositiveAppend
    <3>4. Recent(Append(Recent(Positive(q), MaWindow), x), MaWindow) = Recent(Append(Positive(q), x), MaWindow)
      BY <2>1, <3>1, <3>3, RecentAppend
    <3>5. (x > 0 \/ x <= 0) /\ ~(x > 0 /\ x <= 0)
      BY <3>1
    <3> QED
      BY <2>1, <3>1, <3>2, <3>3, <3>4, <3>5 DEF s
  <2>3. CASE s \notin DOMAIN snap
    BY <1>2, <1>4, <2>1, <2>3
  <2> QED
    BY <2>2, <2>3
<1> QED
  BY <1>6, <1>7, <1>8 DEF PricesInv, more, r

----------------------------------------------------------------------------
(* The desk: whatever is traded, the snapshot shown and its time stay *)

Timed(d) == "time" \in DOMAIN d /\ "market" \in DOMAIN d
Kept(d, e) == Timed(e) /\ e.time = d.time /\ e.market = d.market

LEMMA KeptSame == \A d : Timed(d) => Kept(d, d)
  BY DEF Kept

LEMMA KeptThrough == \A d, e, f : Kept(d, e) /\ Kept(e, f) => Kept(d, f)
  BY DEF Kept

LEMMA MatchedKeeps ==
  ASSUME NEW d, Timed(d), NEW i
  PROVE  Kept(d, Matched(d, i))
<1>1. ASSUME NEW s, NEW side, NEW n, NEW price
      PROVE  Kept(d, Booked(d, s, side, n, price))
  BY DEF Booked, Kept, Timed
<1>2. ASSUME NEW n PROVE Kept(d, Filled(d, i, n))
  <2> DEFINE o == d.orders[i]
             price == ExecPrice(o.side, d.book[o.symbol])
             b == Booked(d, o.symbol, o.side, n, price)
  <2>1. Kept(d, b)
    BY <1>1
  <2>2. Filled(d, i, n) = IF price <= 0 THEN [d EXCEPT !.raised = TRUE]
                          ELSE IF b.raised THEN b
                          ELSE [b EXCEPT !.orders[i] = AfterFill(o, n),
                                         !.fills = Append(@, [order |-> i, qty |-> n])]
    BY DEF Filled
  <2> HIDE DEF o, price, b
  <2>3. Kept(d, [d EXCEPT !.raised = TRUE])
    BY DEF Kept, Timed
  <2>4. Kept(d, [b EXCEPT !.orders[i] = AfterFill(o, n),
                          !.fills = Append(@, [order |-> i, qty |-> n])])
    BY <2>1 DEF Kept, Timed
  <2> QED
    BY <2>1, <2>2, <2>3, <2>4
<1>3. Kept(d, d)
  BY KeptSame
<1>4. Kept(d, [d EXCEPT !.orders[i] = AfterClose(d.orders[i], TRUE)])
  BY DEF Kept, Timed
<1>5. \/ Matched(d, i) = d
      \/ Matched(d, i) = [d EXCEPT !.orders[i] = AfterClose(d.orders[i], TRUE)]
      \/ \E n : Matched(d, i) = Filled(d, i, n)
  BY DEF Matched
<1> QED
  BY <1>2, <1>3, <1>4, <1>5

LEMMA SubmitKeeps ==
  ASSUME NEW d, Timed(d), NEW s, NEW side, NEW qty, NEW entry
  PROVE  Kept(d, Submit(d, s, side, qty, entry))
<1>1. \A orders : Kept(d, [d EXCEPT !.orders = orders])
  BY DEF Kept, Timed
<1>2. Kept(d, [d EXCEPT !.raised = TRUE]) /\ Kept(d, d)
  BY DEF Kept, Timed
<1>3. \E orders : LET placed == [d EXCEPT !.orders = orders]
                  IN  Submit(d, s, side, qty, entry)
                        \in {d, [d EXCEPT !.raised = TRUE], Matched(placed, Len(placed.orders)), placed}
  BY DEF Submit
<1>4. PICK orders : LET placed == [d EXCEPT !.orders = orders]
                    IN  Submit(d, s, side, qty, entry)
                          \in {d, [d EXCEPT !.raised = TRUE], Matched(placed, Len(placed.orders)), placed}
  BY <1>3
<1> DEFINE placed == [d EXCEPT !.orders = orders]
<1>5. Kept(d, placed)
  BY <1>1
<1>7. Submit(d, s, side, qty, entry)
        \in {d, [d EXCEPT !.raised = TRUE], Matched(placed, Len(placed.orders)), placed}
  BY <1>4
<1> HIDE DEF placed
<1>8. Kept(placed, Matched(placed, Len(placed.orders)))
  BY <1>5, MatchedKeeps DEF Kept
<1>9. Kept(d, Matched(placed, Len(placed.orders)))
  BY <1>5, <1>8, KeptThrough
<1> QED
  BY <1>2, <1>5, <1>7, <1>9

\* The desks SubmitEach goes through, one for each symbol it has seen to.
IsWalk(g, d, wanted, entry, n) ==
  g = [s \in 0..n |-> IF s = 0 THEN d
                      ELSE IF wanted[s].qty = 0 THEN g[s - 1]
                      ELSE Submit(g[s - 1], s, wanted[s].side, wanted[s].qty, entry)]

LEMMA SubmitEachWalk ==
  ASSUME NEW d, NEW wanted, NEW entry, Len(wanted) \in Nat
  PROVE  \E g : IsWalk(g, d, wanted, entry, Len(wanted)) /\ SubmitEach(d, wanted, entry) = g[Len(wanted)]
<1> DEFINE n == Len(wanted)
           Good == {k \in 0..n : \E g : IsWalk(g, d, wanted, entry, k)}
           After(x, s) == IF wanted[s].qty = 0 THEN x
                          ELSE Submit(x, s, wanted[s].side, wanted[s].qty, entry)
<1>1. 0 \in Good
  <2> DEFINE g == [s \in 0..0 |-> d]
  <2>1. \A s \in 0..0 : s = 0
    OBVIOUS
  <2>2. g = [s \in 0..0 |-> IF s = 0 THEN d ELSE After(g[s - 1], s)]
    BY <2>1
  <2>3. IsWalk(g, d, wanted, entry, 0)
    BY <2>2 DEF IsWalk
  <2> QED
    BY <2>3
<1>2. ASSUME NEW k \in 0..(n - 1), k \in Good
      PROVE  k + 1 \in Good
  <2>1. PICK g : IsWalk(g, d, wanted, entry, k)
    BY <1>2
  <2> DEFINE h == [s \in 0..(k + 1) |-> IF s = k + 1 THEN After(g[k], k + 1) ELSE g[s]]
  <2>2. /\ k \in Nat /\ k + 1 \in 0..n /\ k \in 0..k /\ k + 1 # 0 /\ k + 1 - 1 = k /\ k # k + 1
        /\ \A s \in 0..(k + 1) : s # k + 1 => s \in 0..k
        /\ \A s \in 0..k : s # k + 1 /\ s \in 0..(k + 1) /\ (s # 0 => s - 1 \in 0..k /\ s - 1 # k + 1)
    OBVIOUS
  <2>3. \A s \in 0..k : g[s] = IF s = 0 THEN d ELSE After(g[s - 1], s)
    <3>1. g = [s \in 0..k |-> IF s = 0 THEN d ELSE After(g[s - 1], s)]
      BY <2>1 DEF IsWalk
    <3> HIDE DEF After
    <3> QED
      BY <3>1
  <2> HIDE DEF After
  <2>4. \A s \in 0..k : h[s] = g[s]
    BY <2>2
  <2>5. k + 1 \in 0..(k + 1)
    BY <2>2
  <2>6. h[k + 1] = After(g[k], k + 1)
    BY <2>5
  <2>7. \A s \in 0..(k + 1) : h[s] = IF s = 0 THEN d ELSE After(h[s - 1], s)
    <3> SUFFICES ASSUME NEW s \in 0..(k + 1) PROVE h[s] = IF s = 0 THEN d ELSE After(h[s - 1], s)
      OBVIOUS
    <3> HIDE DEF h
    <3>1. CASE s = k + 1
      BY <2>2, <2>4, <2>6, <3>1
    <3>2. CASE s # k + 1
      BY <2>2, <2>3, <2>4, <3>2
    <3> QED
      BY <3>1, <3>2
  <2>8. h = [s \in 0..(k + 1) |-> IF s = 0 THEN d ELSE After(h[s - 1], s)]
    <3>1. h = [s \in 0..(k + 1) |-> h[s]]
      OBVIOUS
    <3> HIDE DEF h
    <3> QED
      BY <2>7, <3>1
  <2>9. IsWalk(h, d, wanted, entry, k + 1)
    <3> HIDE DEF h
    <3> QED
      BY <2>8 DEF IsWalk, After
  <2> QED
    BY <2>2, <2>9
<1>3. n \in 0..n /\ \A k \in 0..n : k \in Good
  <2> HIDE DEF Good, n
  <2>1. n \in Nat
    BY DEF n
  <2>2. n \in 0..n
    BY <2>1
  <2> QED
    BY <1>1, <1>2, <2>1, <2>2, CountInduction
<1> DEFINE w == CHOOSE g : IsWalk(g, d, wanted, entry, n)
<1>4. SubmitEach(d, wanted, entry) = w[n]
  BY DEF SubmitEach, IsWalk
<1>5. IsWalk(w, d, wanted, entry, n)
  BY <1>3
<1> QED
  BY <1>4, <1>5

LEMMA SubmitEachKeeps ==
  ASSUME NEW d, Timed(d), NEW wanted, NEW entry, Len(wanted) \in Nat
  PROVE  Kept(d, SubmitEach(d, wanted, entry))
<1> DEFINE n == Len(wanted)
<1>1. PICK g : IsWalk(g, d, wanted, entry, n) /\ SubmitEach(d, wanted, entry) = g[n]
  BY SubmitEachWalk
<1> HIDE DEF n
<1>2. n \in Nat /\ n \in 0..n
  BY DEF n
<1> DEFINE Good == {s \in 0..n : Kept(d, g[s])}
<1>3. g[0] = d /\ \A s \in 1..n : g[s] = IF wanted[s].qty = 0 THEN g[s - 1]
                                         ELSE Submit(g[s - 1], s, wanted[s].side, wanted[s].qty, entry)
  <2>1. 0 \in 0..n /\ \A s \in 1..n : s \in 0..n /\ s # 0
    BY <1>2
  <2> QED
    BY <1>1, <2>1 DEF IsWalk
<1>4. 0 \in Good
  BY <1>2, <1>3, KeptSame
<1>5. ASSUME NEW s \in 0..(n - 1), s \in Good PROVE s + 1 \in Good
  <2>1. s + 1 \in 1..n /\ s + 1 \in 0..n /\ s + 1 - 1 = s
    BY <1>2
  <2>2. Kept(d, g[s]) /\ Timed(g[s])
    BY <1>5 DEF Kept
  <2>3. Kept(g[s], g[s + 1])
    <3>1. g[s + 1] = IF wanted[s + 1].qty = 0 THEN g[s]
                     ELSE Submit(g[s], s + 1, wanted[s + 1].side, wanted[s + 1].qty, entry)
      BY <1>3, <2>1
    <3> QED
      BY <2>2, <3>1, KeptSame, SubmitKeeps
  <2> QED
    BY <2>1, <2>2, <2>3, KeptThrough
<1>6. \A s \in 0..n : s \in Good
  <2> HIDE DEF Good
  <2> QED
    BY <1>2, <1>4, <1>5, CountInduction
<1> QED
  BY <1>1, <1>2, <1>6

LEMMA FlattenKeeps ==
  ASSUME NEW d, Timed(d)
  PROVE  Kept(d, Flatten(d))
<1> DEFINE wanted == [s \in Symbols |-> [side |-> Opposite(d, s), qty |-> Abs(Held(d, s))]]
<1>1. Cardinality(Symbols) \in Nat /\ Symbols = 1..Cardinality(Symbols)
  BY SignalAssumption, FS_CardinalityType
<1>2. Len(wanted) \in Nat
  <2> DEFINE n == Cardinality(Symbols)
             F(s) == [side |-> Opposite(d, s), qty |-> Abs(Held(d, s))]
  <2>1. wanted = [s \in 1..n |-> F(s)] /\ n \in Nat
    BY <1>1
  <2> HIDE DEF n, F, wanted
  <2> QED
    BY <2>1
<1> HIDE DEF wanted
<1>3. Kept(d, SubmitEach(d, wanted, FALSE))
  BY <1>2, SubmitEachKeeps
<1> QED
  BY <1>3 DEF Flatten, wanted

LEMMA TradeSingleKeeps ==
  ASSUME NEW d, Timed(d), NEW name, NEW prices
  PROVE  Kept(d, TradeSingle(name, prices, d))
<1> DEFINE Side(s) == IF s \in DOMAIN d.market
                      THEN SideOf(name, s, prices[s], d.market[s]) ELSE "NONE"
           wanted == [s \in Symbols |-> [side |-> Side(s),
                                         qty |-> IF Tradable(d, s, Side(s)) THEN Quantity ELSE 0]]
<1>1. Cardinality(Symbols) \in Nat /\ Symbols = 1..Cardinality(Symbols)
  BY SignalAssumption, FS_CardinalityType
<1>2. Len(wanted) \in Nat
  <2> DEFINE n == Cardinality(Symbols)
             F(s) == [side |-> Side(s), qty |-> IF Tradable(d, s, Side(s)) THEN Quantity ELSE 0]
  <2>1. wanted = [s \in 1..n |-> F(s)] /\ n \in Nat
    BY <1>1
  <2> HIDE DEF n, F, wanted
  <2> QED
    BY <2>1
<1>3. TradeSingle(name, prices, d) = SubmitEach(d, wanted, TRUE)
  BY DEF TradeSingle
<1> HIDE DEF wanted
<1> QED
  BY <1>2, <1>3, SubmitEachKeeps

LEMMA CancelledKeeps ==
  ASSUME NEW d, Timed(d), NEW i
  PROVE  Kept(d, CancelLeg(d, i))
<1>1. \A o : Kept(d, [d EXCEPT !.orders[i] = o])
  BY DEF Kept, Timed
<1> QED
  BY <1>1, KeptSame DEF CancelLeg, Cancelled

LEMMA OpenPairKeeps ==
  ASSUME NEW d, Timed(d), NEW held, NEW pair
  PROVE  Kept(d, OpenPair(d, held, pair).desk)
<1>1. ASSUME NEW e, Timed(e) PROVE Kept(e, EnterPair(e, pair).desk)
  <2> DEFINE sold == Submit(e, pair[2], "SELL", LegSize(e, pair[2]), TRUE)
             both == Submit(sold, pair[1], "BUY", LegSize(e, pair[1]), TRUE)
  <2>1. EnterPair(e, pair).desk = both
    BY DEF EnterPair
  <2>2. Kept(e, sold)
    BY <1>1, SubmitKeeps
  <2> HIDE DEF sold
  <2>4. Timed(sold)
    BY <2>2 DEF Kept
  <2>3. Kept(sold, both)
    BY <2>4, SubmitKeeps
  <2> HIDE DEF both
  <2> QED
    BY <2>1, <2>2, <2>3, KeptThrough
<1> DEFINE once == CancelLeg(d, held.long)
           free == IF Live(held) /\ held.pair # pair THEN CancelInFlight(d, held) ELSE d
<1>2. Kept(d, free)
  <2>1. Kept(d, once)
    BY CancelledKeeps
  <2> HIDE DEF once
  <2>2. Kept(once, CancelLeg(once, held.short))
    BY <2>1, CancelledKeeps DEF Kept
  <2>3. Kept(d, CancelInFlight(d, held))
    BY <2>1, <2>2, KeptThrough DEF CancelInFlight, once
  <2> QED
    BY <2>3, KeptSame
<1>3. OpenPair(d, held, pair).desk \in {d, EnterPair(free, pair).desk}
  BY DEF OpenPair
<1> HIDE DEF free
<1>4. Kept(free, EnterPair(free, pair).desk)
  BY <1>1, <1>2 DEF Kept
<1> QED
  BY <1>2, <1>3, <1>4, KeptSame, KeptThrough

----------------------------------------------------------------------------
(* Memory *)

\* The account is at the snapshot shown while the strategy is told of it.
Facing ==
  /\ Timed(desk)
  /\ pc \in {"match", "told"} => desk.time = clock /\ desk.market \in Snapshots

LEMMA OpenTimed == \A symbols, cash, terms : Timed(OpenDesk(symbols, cash, terms))
  BY DEF OpenDesk, Timed

\* Memory, and the file for the next run, are faithful to what they were shown.
Remembered ==
  /\ clock \in Int /\ History(shown, clock) /\ History(file.shown, clock)
  /\ memory = [series |-> memory.series, prices |-> memory.prices]
  /\ DOMAIN memory.series = Symbols /\ DOMAIN file.series = Symbols
  /\ pc # "off" => SeriesInv(memory.series, shown, clock) /\ PricesInv(memory.prices, shown)
  /\ setup.name \in Pairs /\ ~file.torn => SeriesInv(file.series, file.shown, clock)

MemoryInv == Facing /\ Remembered

LEMMA MemoryInit == Init => MemoryInv
<1> SUFFICES ASSUME Init PROVE MemoryInv
  OBVIOUS
<1>1. Timed(desk)
  BY OpenTimed DEF Init
<1>2. pc = "off" /\ clock = 1 /\ shown = <<>> /\ memory = Blank /\ file = NoFile
  BY DEF Init
<1>3. Facing
  BY <1>1, <1>2 DEF Facing
<1>4. memory = [series |-> memory.series, prices |-> memory.prices]
  BY <1>2 DEF Blank
<1>5. file.shown = <<>> /\ file.series = NoSeries /\ memory.series = NoSeries /\ DOMAIN NoSeries = Symbols
  BY <1>2 DEF NoFile, NoSeries, Blank
<1>6. Remembered
  BY <1>2, <1>4, <1>5, SeriesBlank DEF Remembered
<1> QED
  BY <1>3, <1>6 DEF MemoryInv

\* Nothing is learnt and the file is not written: time may pass.
LEMMA Unlearnt ==
  ASSUME Remembered, clock' \in Int, clock <= clock', pc' # "off" => pc # "off",
         UNCHANGED <<setup, memory, file, shown>>
  PROVE  Remembered'
<1>1. clock \in Int /\ History(shown, clock) /\ History(file.shown, clock)
  BY DEF Remembered
<1>2. \A series, h : SeriesInv(series, h, clock)' <=> SeriesInv(series', h', clock')
  BY DEF SeriesInv
<1>3. History(shown, clock') /\ History(file.shown, clock')
  <2>1. ASSUME NEW h, History(h, clock) PROVE History(h, clock')
    <3>1. \A i \in DOMAIN h : h[i] \in Entry
      BY <2>1 DEF History
    <3>2. \A i \in DOMAIN h : h[i].at \in Int
      BY <3>1 DEF Entry
    <3> QED
      BY <1>1, <2>1, <3>2 DEF History
  <2> QED
    BY <1>1, <2>1
<1>4. pc' # "off" => SeriesInv(memory.series, shown, clock') /\ PricesInv(memory.prices, shown)
  BY <1>1, SeriesLater DEF Remembered
<1>5. setup.name \in Pairs /\ ~file.torn => SeriesInv(file.series, file.shown, clock')
  BY <1>1, SeriesLater DEF Remembered
<1>6. /\ memory = [series |-> memory.series, prices |-> memory.prices]
      /\ DOMAIN memory.series = Symbols /\ DOMAIN file.series = Symbols
  BY DEF Remembered
<1> QED
  BY <1>3, <1>4, <1>5, <1>6 DEF Remembered, SeriesInv, PricesInv

LEMMA StartRemembers ==
  ASSUME MemoryInv, NEW reset \in BOOLEAN, Start(reset)
  PROVE  MemoryInv'
<1>1. /\ pc' = "idle" /\ ~file.torn /\ memory' = OnStart(reset)
      /\ shown' = IF reset \/ setup.name \notin Pairs THEN <<>> ELSE file.shown
      /\ UNCHANGED <<setup, file, clock>>
  BY DEF Start
<1>2. Timed(desk')
  BY OpenTimed DEF Start
<1>3. Facing'
  BY <1>1, <1>2 DEF Facing
<1>4. clock \in Int /\ History(file.shown, clock) /\ DOMAIN file.series = Symbols /\ DOMAIN NoSeries = Symbols
      /\ (setup.name \in Pairs => SeriesInv(file.series, file.shown, clock))
  BY <1>1 DEF MemoryInv, Remembered, NoSeries
<1>5. CASE reset \/ setup.name \notin Pairs
  <2>1. memory' = Blank /\ shown' = <<>>
    BY <1>1, <1>5 DEF OnStart, Loaded
  <2>2. memory'.series = NoSeries /\ memory'.prices = Blank.prices
        /\ memory' = [series |-> memory'.series, prices |-> memory'.prices]
    BY <2>1 DEF Blank
  <2>3. SeriesInv(NoSeries, <<>>, clock) /\ History(<<>>, clock) /\ PricesInv(Blank.prices, <<>>)
    BY SeriesBlank, PricesBlank
  <2>4. Remembered'
    BY <1>1, <1>4, <2>1, <2>2, <2>3 DEF Remembered, SeriesInv, PricesInv
  <2> QED
    BY <1>3, <2>4 DEF MemoryInv
<1>6. CASE ~reset /\ setup.name \in Pairs
  <2>1. memory' = [Blank EXCEPT !.series = file.series] /\ shown' = file.shown
    BY <1>1, <1>6 DEF OnStart, Loaded
  <2>2. memory'.series = file.series /\ memory' = [series |-> memory'.series, prices |-> memory'.prices]
    BY <2>1 DEF Blank
  <2>3. PricesInv(memory'.prices, file.shown)
    BY <1>6 DEF PricesInv, Pairs
  <2>4. Remembered'
    BY <1>1, <1>4, <1>6, <2>1, <2>2, <2>3 DEF Remembered, SeriesInv, PricesInv
  <2> QED
    BY <1>3, <2>4 DEF MemoryInv
<1> QED
  BY <1>5, <1>6

LEMMA DecideRemembers ==
  ASSUME MemoryInv, Decide
  PROVE  MemoryInv'
<1> DEFINE e == [at |-> clock, snap |-> desk.market]
<1>1. /\ pc = "told" /\ pc' = "done" /\ UNCHANGED <<setup, file, clock>>
      /\ DecidePair \/ DecideSingle
      /\ shown' = Append(shown, [at |-> desk.time, snap |-> desk.market])
  BY DEF Decide
<1>2. Timed(desk) /\ desk.time = clock /\ desk.market \in Snapshots
  BY <1>1 DEF MemoryInv, Facing
<1>3. shown' = Append(shown, e)
  BY <1>1, <1>2
<1>4. /\ clock \in Int /\ History(shown, clock) /\ History(file.shown, clock)
      /\ memory = [series |-> memory.series, prices |-> memory.prices]
      /\ DOMAIN memory.series = Symbols /\ DOMAIN file.series = Symbols
      /\ SeriesInv(memory.series, shown, clock) /\ PricesInv(memory.prices, shown)
      /\ setup.name \in Pairs /\ ~file.torn => SeriesInv(file.series, file.shown, clock)
  BY <1>1 DEF MemoryInv, Remembered
<1>5. History(Append(shown, e), clock)
  BY <1>2, <1>4, HistoryAppend
<1>6. CASE DecidePair
  <2>1. setup.name \in Pairs /\ memory' = [memory EXCEPT !.series = Windows]
    BY <1>6 DEF DecidePair
  <2>2. memory'.series = Windows /\ memory' = [series |-> memory'.series, prices |-> memory'.prices]
    BY <1>4, <2>1
  <2>3. SeriesInv(Windows, Append(shown, e), clock)
    <3>1. CASE setup.name = "bubble_rank"
      <4>1. Windows = AppendPremiums(memory.series, desk.market, clock)
        BY <1>2, <3>1 DEF Windows
      <4>2. \A s \in Symbols : Faithful(memory.series[s], PremiumPoints(shown, s), clock)
        BY <1>4, <3>1 DEF SeriesInv
      <4>3. \A s \in Symbols : Faithful(Windows[s], PremiumPoints(Append(shown, e), s), clock)
        BY <1>2, <1>4, <4>1, <4>2, AppendPremiumsFaithful
      <4> QED
        BY <3>1, <4>3 DEF SeriesInv
    <3>2. CASE setup.name = "pair_zscore"
      <4>0. setup.name # "bubble_rank"
        BY <3>2
      <4>1. Windows = [memory.series EXCEPT ![FundA] = AppendSpread(memory.series[FundA], desk.market, clock)]
        BY <1>2, <4>0 DEF Windows
      <4>2. Faithful(memory.series[FundA], SpreadPoints(shown), clock)
        BY <1>4, <3>2 DEF SeriesInv
      <4>3. Faithful(AppendSpread(memory.series[FundA], desk.market, clock), SpreadPoints(Append(shown, e)), clock)
        BY <1>2, <1>4, <4>2, AppendSpreadFaithful
      <4>4. FundA \in DOMAIN memory.series
        BY <1>4, SignalAssumption
      <4> QED
        BY <3>2, <4>0, <4>1, <4>3, <4>4 DEF SeriesInv
    <3> QED
      BY <2>1, <3>1, <3>2 DEF Pairs
  <2>8. DOMAIN Windows = Symbols
    BY <1>4 DEF Windows, AppendPremiums
  <2>4. Kept(desk, desk')
    <3>1. Kept(desk, ExitPair)
      BY <1>2, FlattenKeeps, KeptSame DEF ExitPair
    <3>2. Kept(desk, Rebalance.desk)
      <4> DEFINE flat == Flatten(desk)
      <4>1. Kept(desk, flat)
        BY <1>2, FlattenKeeps
      <4> HIDE DEF flat
      <4>2. Kept(flat, OpenPair(flat, intent, Target).desk)
        BY <4>1, OpenPairKeeps DEF Kept
      <4>3. Rebalance = OpenPair(flat, intent, Target)
        BY DEF Rebalance, flat
      <4> QED
        BY <4>1, <4>2, <4>3, KeptThrough
    <3>3. desk' \in {desk, ExitPair, Rebalance.desk}
      BY <1>6 DEF DecidePair
    <3> QED
      BY <1>2, <3>1, <3>2, <3>3, KeptSame
  <2>5. PricesInv(memory'.prices, Append(shown, e))
    BY <2>1 DEF PricesInv, Pairs
  <2>6. Facing'
    BY <1>1, <2>4 DEF Facing, Kept
  <2>7. Remembered'
    BY <1>1, <1>3, <1>4, <1>5, <2>2, <2>3, <2>5, <2>8 DEF Remembered, SeriesInv, PricesInv
  <2> QED
    BY <2>6, <2>7 DEF MemoryInv
<1>7. CASE DecideSingle
  <2> DEFINE more == [s \in Symbols |-> IF s \in DOMAIN desk.market
                                        THEN Remember(setup.name, s, memory.prices[s], desk.market[s])
                                        ELSE memory.prices[s]]
  <2>1. setup.name \notin Pairs /\ memory' = [memory EXCEPT !.prices = more]
    BY <1>7 DEF DecideSingle
  <2>2. PricesInv(more, Append(shown, e))
    BY <1>2, <1>4, RememberFollows
  <2> HIDE DEF more
  <2>3. /\ memory'.prices = more /\ memory'.series = memory.series
        /\ memory' = [series |-> memory'.series, prices |-> memory'.prices]
    BY <1>4, <2>1
  <2>4. SeriesInv(memory'.series, Append(shown, e), clock)
    BY <2>1 DEF SeriesInv, Pairs
  <2>5. Kept(desk, desk')
    BY <1>2, <1>7, TradeSingleKeeps DEF DecideSingle
  <2>6. Facing'
    BY <1>1, <2>5 DEF Facing, Kept
  <2>7. Remembered'
    BY <1>1, <1>3, <1>4, <1>5, <2>2, <2>3, <2>4 DEF Remembered, SeriesInv, PricesInv
  <2> QED
    BY <2>6, <2>7 DEF MemoryInv
<1> QED
  BY <1>1, <1>6, <1>7

LEMMA MemoryStep == MemoryInv /\ [Next]_vars => MemoryInv'
<1> SUFFICES ASSUME MemoryInv, [Next]_vars PROVE MemoryInv'
  OBVIOUS
<1> USE DEF MemoryInv
<1>0. clock \in Int /\ Timed(desk)
  BY DEF Remembered, Facing
<1>1. ASSUME NEW reset \in BOOLEAN, Start(reset) PROVE MemoryInv'
  BY <1>1, StartRemembers
<1>2. ASSUME NEW snap \in Snapshots, NEW gap \in Gaps, Process(snap, gap) PROVE MemoryInv'
  <2>1. /\ pc = "idle" /\ clock' = clock + gap /\ desk' = Fed(desk, snap, clock')
        /\ UNCHANGED <<setup, memory, file, shown>>
    BY <1>2 DEF Process
  <2>2. clock' \in Int /\ clock <= clock'
    BY <1>0, <2>1, DeskAssumption
  <2>3. Remembered'
    BY <2>1, <2>2, Unlearnt
  <2>4. Timed(desk') /\ desk'.time = clock' /\ desk'.market = snap
    BY <1>0, <2>1 DEF Fed, Activated, Timed
  <2> QED
    BY <2>3, <2>4 DEF Facing
<1>3. CASE Settle
  <2>1. /\ pc # "off" /\ pc' \in {"settle", "save"} /\ UNCHANGED <<setup, memory, file, shown, clock>>
        /\ \E orders : desk' \in {desk, [desk EXCEPT !.orders = orders]}
    BY <1>3 DEF Settle
  <2>2. Remembered'
    BY <1>0, <2>1, Unlearnt
  <2>3. Timed(desk')
    BY <1>0, <2>1 DEF Timed
  <2> QED
    BY <2>1, <2>2, <2>3 DEF Facing
<1>4. ASSUME NEW i \in todo, Match(i) PROVE MemoryInv'
  <2>1. /\ pc # "off" /\ desk' = Matched(desk, i) /\ UNCHANGED <<setup, memory, file, shown, clock, pc>>
    BY <1>4 DEF Match
  <2>2. Remembered'
    BY <1>0, <2>1, Unlearnt
  <2>3. Kept(desk, desk')
    BY <1>0, <2>1, MatchedKeeps
  <2> QED
    BY <2>1, <2>2, <2>3 DEF Facing, Kept
<1>5. CASE EndMatch
  <2>1. /\ pc # "off" /\ ((pc = "match" /\ pc' = "told") \/ (pc = "settle" /\ pc' = "save"))
        /\ desk' = Recorded(desk) /\ UNCHANGED <<setup, memory, file, shown, clock>>
    BY <1>5 DEF EndMatch
  <2>2. Remembered'
    BY <1>0, <2>1, Unlearnt
  <2>3. Kept(desk, desk')
    BY <1>0, <2>1 DEF Recorded, Kept, Timed
  <2> QED
    BY <2>1, <2>2, <2>3 DEF Facing, Kept
<1>6. ASSUME NEW f \in todo, OnFill(f) PROVE MemoryInv'
  <2>1. /\ pc # "off" /\ desk' \in {desk, RolledBack(desk, intent)}
        /\ UNCHANGED <<setup, memory, file, shown, clock, pc>>
    BY <1>6 DEF OnFill
  <2>2. Remembered'
    BY <1>0, <2>1, Unlearnt
  <2>3. Kept(desk, desk')
    BY <1>0, <2>1, FlattenKeeps, KeptSame DEF RolledBack
  <2> QED
    BY <2>1, <2>2, <2>3 DEF Facing, Kept
<1>7. CASE Decide
  BY <1>7, DecideRemembers
<1>8. CASE EndEvent
  <2>1. pc # "off" /\ pc' = "idle" /\ UNCHANGED <<setup, memory, file, shown, clock, desk>>
    BY <1>8 DEF EndEvent
  <2>2. Remembered'
    BY <1>0, <2>1, Unlearnt
  <2> QED
    BY <1>0, <2>1, <2>2 DEF Facing, Timed
<1>9. CASE Truncate
  <2>1. /\ UNCHANGED <<setup, pc, memory, shown, clock, desk>>
        /\ file' = [NoFile EXCEPT !.torn = TRUE]
    BY <1>9 DEF Truncate
  <2>2. file'.torn = TRUE /\ file'.shown = <<>> /\ file'.series = NoSeries /\ DOMAIN NoSeries = Symbols
    BY <2>1 DEF NoFile, NoSeries
  <2>3. Remembered'
    BY <2>1, <2>2, SeriesBlank DEF Remembered, SeriesInv, PricesInv
  <2> QED
    BY <2>1, <2>3 DEF Facing, Timed
<1>10. CASE Save
  <2>1. /\ pc = "save" /\ pc' = "off" /\ UNCHANGED <<setup, memory, shown, clock, desk>>
        /\ file' = [torn |-> FALSE, series |-> memory.series,
                    shown |-> IF setup.name \in Pairs THEN shown ELSE <<>>]
    BY <1>10 DEF Save
  <2>2. file'.series = memory.series /\ file'.shown = IF setup.name \in Pairs THEN shown ELSE <<>>
    BY <2>1
  <2>3. Remembered'
    BY <2>1, <2>2, SeriesBlank DEF Remembered, SeriesInv, PricesInv
  <2> QED
    BY <2>1, <2>3 DEF Facing, Timed
<1>11. CASE Stop
  <2>1. pc' = "off" /\ UNCHANGED <<setup, memory, file, shown, clock, desk>>
    BY <1>11 DEF Stop
  <2>2. Remembered'
    BY <1>0, <2>1, Unlearnt
  <2> QED
    BY <1>0, <2>1, <2>2 DEF Facing, Timed
<1>12. CASE UNCHANGED vars
  <2>1. UNCHANGED <<setup, pc, memory, file, shown, clock, desk>>
    BY <1>12 DEF vars
  <2>2. Remembered'
    BY <1>0, <2>1, Unlearnt
  <2> QED
    BY <2>1, <2>2 DEF Facing, Timed
<1> QED
  BY <1>1, <1>2, <1>3, <1>4, <1>5, <1>6, <1>7, <1>8, <1>9, <1>10, <1>11, <1>12 DEF Next

\* What is faithful has, in the window, what was shown and nothing else.
LEMMA FaithfulWindow ==
  ASSUME NEW q, NEW P, Faithful(q, P, clock)
  PROVE  InWindow(Range(q)) = InWindow(P) /\ Ascending(q)
  BY DEF Faithful, InWindow

LEMMA MemoryImplies == MemoryInv => RemembersShown
<1> SUFFICES ASSUME MemoryInv, pc # "off" PROVE RemembersShown
  BY DEF RemembersShown
<1>1. /\ SeriesInv(memory.series, shown, clock) /\ PricesInv(memory.prices, shown)
      /\ \A i \in DOMAIN shown : shown[i].snap \in Snapshots
  <2>1. shown \in Seq(Entry)
    BY DEF MemoryInv, Remembered, History
  <2>2. \A i \in DOMAIN shown : shown[i] \in Entry
    BY <2>1
  <2> QED
    BY <2>2 DEF MemoryInv, Remembered, Entry
<1>2. \A s : Prices(s) = PricesOf(shown, s)
  BY DEF Prices, PricesOf
<1>3. ASSUME NEW s
      PROVE  Points(LAMBDA snap : s \in Quoting(snap), LAMBDA snap : QuotePremium(snap[s]))
               = PremiumPoints(shown, s)
  <2>1. \A i \in DOMAIN shown : /\ s \in Quoting(shown[i].snap) <=> shown[i].snap \in Taken(s)
                                /\ Premium(s)[shown[i].snap] = QuotePremium(shown[i].snap[s])
    BY <1>1 DEF Taken, Premium
  <2> QED
    BY <2>1 DEF Points, PremiumPoints, PointsOf
<1>4. Points(LAMBDA snap : {FundA, FundB} \subseteq Quoting(snap),
             LAMBDA snap : QuotePremium(snap[FundA]) - QuotePremium(snap[FundB]))
        = SpreadPoints(shown)
  <2>1. \A i \in DOMAIN shown : /\ {FundA, FundB} \subseteq Quoting(shown[i].snap) <=> shown[i].snap \in Both
                                /\ Spread[shown[i].snap] = QuotePremium(shown[i].snap[FundA])
                                                            - QuotePremium(shown[i].snap[FundB])
    BY <1>1 DEF Both, Spread
  <2> QED
    BY <2>1 DEF Points, SpreadPoints, PointsOf
<1>5. CASE setup.name = "bubble_rank"
  <2>1. \A s \in Symbols : /\ InWindow(Range(memory.series[s])) = InWindow(PremiumPoints(shown, s))
                           /\ Ascending(memory.series[s])
    BY <1>1, <1>5, FaithfulWindow DEF SeriesInv
  <2> QED
    BY <1>3, <1>5, <2>1 DEF RemembersShown
<1>6. CASE setup.name = "pair_zscore"
  <2>1. /\ InWindow(Range(memory.series[FundA])) = InWindow(SpreadPoints(shown))
        /\ Ascending(memory.series[FundA])
    BY <1>1, <1>6, FaithfulWindow DEF SeriesInv
  <2> QED
    BY <1>4, <1>6, <2>1 DEF RemembersShown
<1>7. CASE setup.name \in {"streak", "price_momentum", "ma_band"}
  BY <1>1, <1>2, <1>7 DEF PricesInv, RemembersShown
<1>8. CASE setup.name \notin {"bubble_rank", "pair_zscore", "streak", "price_momentum", "ma_band"}
  BY <1>8 DEF RemembersShown
<1> QED
  BY <1>5, <1>6, <1>7, <1>8

\* Whatever is run, shown, saved and lost: a strategy decides on what its
\* snapshots said, no more and no less.
THEOREM RemembersShownHolds == Spec => []RemembersShown
<1>1. Init => MemoryInv
  BY MemoryInit
<1>2. MemoryInv /\ [Next]_vars => MemoryInv'
  BY MemoryStep
<1>3. MemoryInv => RemembersShown
  BY MemoryImplies
<1> QED
  BY <1>1, <1>2, <1>3, PTL DEF Spec

----------------------------------------------------------------------------
(* Orders and fills of a desk *)

\* A sequence, whatever it is of.
Listed(s) == Len(s) \in Nat /\ s = [i \in 1..Len(s) |-> s[i]]

LEMMA ListedAppend ==
  ASSUME NEW s, Listed(s), NEW e
  PROVE  /\ Listed(Append(s, e)) /\ Len(Append(s, e)) = Len(s) + 1
         /\ DOMAIN s = 1..Len(s) /\ DOMAIN Append(s, e) = 1..(Len(s) + 1)
         /\ Append(s, e)[Len(s) + 1] = e /\ \A i \in 1..Len(s) : Append(s, e)[i] = s[i]
<1> DEFINE n == Len(s)
           S == {s[i] : i \in 1..n} \cup {e}
           r == Append(s, e)
<1>1. n \in Nat /\ s = [i \in 1..n |-> s[i]] /\ \A i \in 1..n : s[i] \in S
  BY DEF Listed
<1> HIDE DEF n
<1>2. s \in Seq(S) /\ e \in S
  BY <1>1
<1>3. Len(s) = n
  BY DEF n
<1> HIDE DEF S
<1>4. /\ r \in Seq(S) /\ Len(r) = n + 1 /\ DOMAIN r = 1..(n + 1) /\ DOMAIN s = 1..n
      /\ r[n + 1] = e /\ \A i \in 1..n : r[i] = s[i]
  BY <1>2, <1>3
<1> HIDE DEF r
<1>5. r = [i \in 1..Len(r) |-> r[i]]
  BY <1>4
<1> QED
  BY <1>1, <1>4, <1>5 DEF Listed, n, r

LEMMA ListedDomain == \A s : Listed(s) => DOMAIN s = 1..Len(s)
<1> SUFFICES ASSUME NEW s, Listed(s) PROVE DOMAIN s = 1..Len(s)
  OBVIOUS
<1> DEFINE n == Len(s)
<1>1. s = [i \in 1..n |-> s[i]]
  BY DEF Listed
<1> HIDE DEF n
<1>2. DOMAIN s = 1..n
  BY <1>1
<1> QED
  BY <1>2 DEF n

LEMMA ListedExcept ==
  ASSUME NEW s, Listed(s), NEW i, NEW e
  PROVE  LET r == [s EXCEPT ![i] = e]
         IN  /\ Listed(r) /\ Len(r) = Len(s) /\ DOMAIN r = DOMAIN s
             /\ \A j \in DOMAIN s : r[j] = IF j = i THEN e ELSE s[j]
<1> DEFINE n == Len(s)
           S == {s[j] : j \in 1..n} \cup {e}
           r == [s EXCEPT ![i] = e]
<1>1. n \in Nat /\ s = [j \in 1..n |-> s[j]] /\ DOMAIN s = 1..n
  BY ListedDomain DEF Listed
<1> HIDE DEF n
<1>2. DOMAIN r = 1..n /\ \A j \in 1..n : r[j] = (IF j = i THEN e ELSE s[j]) /\ r[j] \in S
  BY <1>1
<1>3. r = [j \in 1..n |-> r[j]]
  <2>1. r = [j \in DOMAIN r |-> r[j]]
    BY DEF r
  <2> HIDE DEF r
  <2> QED
    BY <1>2, <2>1
<1> HIDE DEF r, S
<1>4. r \in Seq(S) /\ Len(r) = n
  BY <1>1, <1>2, <1>3
<1> QED
  BY <1>1, <1>2, <1>3, <1>4 DEF Listed, n, r

\* Orders no cancel of which is under way, and fills of them.
Sane(d) ==
  /\ "orders" \in DOMAIN d /\ "fills" \in DOMAIN d /\ "raised" \in DOMAIN d
  /\ Listed(d.orders) /\ Listed(d.fills)
  /\ \A i \in DOMAIN d.orders :
       /\ "status" \in DOMAIN d.orders[i] /\ "entry" \in DOMAIN d.orders[i]
       /\ d.orders[i].status # "CANCEL_PENDING"

Traded == {"FILLED", "PARTIALLY_FILLED"}

\* Matching touches one order and says what it made of it.
MatchedOne(d, e, i) ==
  /\ Sane(e) /\ DOMAIN e.orders = DOMAIN d.orders /\ Len(e.orders) = Len(d.orders)
  /\ d.raised => e.raised
  /\ \A j \in DOMAIN d.orders : j # i => e.orders[j] = d.orders[j]
  /\ e.orders[i].entry = d.orders[i].entry
  /\ e.orders[i].status \in {d.orders[i].status, "REJECTED", "CANCELLED"} \cup Traded
  /\ \/ e.fills = d.fills
     \/ e.orders[i].status \in Traded /\ \E n : e.fills = Append(d.fills, [order |-> i, qty |-> n])

LEMMA MatchedTouchesOne ==
  ASSUME NEW d, Sane(d), NEW i \in DOMAIN d.orders
  PROVE  MatchedOne(d, Matched(d, i), i)
<1> DEFINE o == d.orders[i]
<1>1. "status" \in DOMAIN o /\ "entry" \in DOMAIN o /\ o.status # "CANCEL_PENDING"
  BY DEF Sane
<1>2. MatchedOne(d, d, i)
  BY DEF MatchedOne, Sane
<1>3. ASSUME NEW r, "status" \in DOMAIN r, "entry" \in DOMAIN r, r.entry = o.entry,
             r.status \in {o.status, "REJECTED", "CANCELLED"} \cup Traded,
             NEW e, "orders" \in DOMAIN e, "fills" \in DOMAIN e, "raised" \in DOMAIN e, d.raised => e.raised,
             e.orders = [d.orders EXCEPT ![i] = r],
             \/ e.fills = d.fills
             \/ r.status \in Traded /\ \E n : e.fills = Append(d.fills, [order |-> i, qty |-> n])
      PROVE  MatchedOne(d, e, i)
  <2>1. /\ Listed(e.orders) /\ Len(e.orders) = Len(d.orders) /\ DOMAIN e.orders = DOMAIN d.orders
        /\ \A j \in DOMAIN d.orders : e.orders[j] = IF j = i THEN r ELSE d.orders[j]
    BY <1>3, ListedExcept DEF Sane
  <2>2. Listed(e.fills)
    <3>1. Listed(d.fills)
      BY DEF Sane
    <3>2. \A x : Listed(Append(d.fills, x))
      BY <3>1, ListedAppend
    <3>3. e.fills = d.fills \/ \E x : e.fills = Append(d.fills, x)
      BY <1>3
    <3> QED
      BY <3>1, <3>2, <3>3
  <2>3. r.status # "CANCEL_PENDING"
    BY <1>1, <1>3 DEF Traded
  <2>4. Sane(e)
    BY <1>3, <2>1, <2>2, <2>3 DEF Sane
  <2> QED
    BY <1>3, <2>1, <2>4 DEF MatchedOne
<1>4. CASE Matched(d, i) = [d EXCEPT !.orders[i] = AfterClose(d.orders[i], TRUE)]
  <2> DEFINE r == AfterClose(o, TRUE)
             e == Matched(d, i)
  <2>1. /\ "status" \in DOMAIN r /\ "entry" \in DOMAIN r /\ r.entry = o.entry
        /\ r.status \in {"REJECTED", "CANCELLED"}
    BY <1>1 DEF AfterClose, AfterReject, AfterConfirmCancel, MoveTo
  <2>2. /\ e.orders = [d.orders EXCEPT ![i] = r] /\ e.fills = d.fills /\ (d.raised => e.raised)
        /\ "orders" \in DOMAIN e /\ "fills" \in DOMAIN e /\ "raised" \in DOMAIN e
    BY <1>4 DEF Sane
  <2> HIDE DEF r, e
  <2> QED
    BY <1>3, <2>1, <2>2 DEF e
<1>5. ASSUME NEW n, Matched(d, i) = Filled(d, i, n)
      PROVE  MatchedOne(d, Matched(d, i), i)
  <2> DEFINE price == ExecPrice(o.side, d.book[o.symbol])
             b == Booked(d, o.symbol, o.side, n, price)
             r == AfterFill(o, n)
             e == [b EXCEPT !.orders[i] = r, !.fills = Append(@, [order |-> i, qty |-> n])]
             stuck == [d EXCEPT !.raised = TRUE]
  <2>1. Matched(d, i) \in {stuck, b, e}
    BY <1>5 DEF Filled
  <2>2. b.orders = d.orders /\ b.fills = d.fills /\ (d.raised => b.raised)
        /\ "orders" \in DOMAIN b /\ "fills" \in DOMAIN b /\ "raised" \in DOMAIN b
    BY DEF Sane, Booked
  <2>3. stuck.orders = d.orders /\ stuck.fills = d.fills /\ stuck.raised
        /\ "orders" \in DOMAIN stuck /\ "fills" \in DOMAIN stuck /\ "raised" \in DOMAIN stuck
    BY DEF Sane
  <2>4. /\ "status" \in DOMAIN r /\ "entry" \in DOMAIN r /\ r.entry = o.entry /\ r.status \in Traded
    BY <1>1 DEF AfterFill, StatusAfterFill, Traded
  <2> HIDE DEF b, r, stuck
  <2>5. /\ e.orders = [d.orders EXCEPT ![i] = r] /\ (d.raised => e.raised)
        /\ e.fills = Append(d.fills, [order |-> i, qty |-> n])
        /\ "orders" \in DOMAIN e /\ "fills" \in DOMAIN e /\ "raised" \in DOMAIN e
    BY <2>2
  <2> HIDE DEF e
  <2>6. MatchedOne(d, e, i)
    BY <1>3, <2>4, <2>5
  <2>7. MatchedOne(d, b, i)
    BY <2>2 DEF MatchedOne, Sane
  <2>8. MatchedOne(d, stuck, i)
    BY <2>3 DEF MatchedOne, Sane
  <2> QED
    BY <2>1, <2>6, <2>7, <2>8
<1>6. \/ Matched(d, i) = d
      \/ Matched(d, i) = [d EXCEPT !.orders[i] = AfterClose(d.orders[i], TRUE)]
      \/ \E n : Matched(d, i) = Filled(d, i, n)
  BY DEF Matched
<1> QED
  BY <1>2, <1>4, <1>5, <1>6

\* A desk that traded more: what it had stays, and what it made is entry or not.
Grown(d, e, entry) ==
  /\ Sane(e) /\ (d.raised => e.raised)
  /\ Len(d.orders) <= Len(e.orders)
  /\ \A i \in DOMAIN d.orders : i \in DOMAIN e.orders /\ e.orders[i] = d.orders[i]
  /\ \A i \in DOMAIN e.orders : i \in DOMAIN d.orders \/ e.orders[i].entry = entry
  /\ \A f \in DOMAIN e.fills :
       \/ f \in DOMAIN d.fills /\ e.fills[f] = d.fills[f]
       \/ /\ e.fills[f].order \in DOMAIN e.orders \ DOMAIN d.orders
          /\ e.orders[e.fills[f].order].status \in Traded
  /\ \A f \in DOMAIN d.fills : f \in DOMAIN e.fills

LEMMA GrownSame ==
  ASSUME NEW d, Sane(d), NEW entry
  PROVE  Grown(d, d, entry)
<1>1. Len(d.orders) <= Len(d.orders)
  BY DEF Sane, Listed
<1> QED
  BY <1>1 DEF Grown

LEMMA GrownThrough ==
  ASSUME NEW d, NEW e, NEW f, NEW entry, Sane(d), Grown(d, e, entry), Grown(e, f, entry)
  PROVE  Grown(d, f, entry)
<1>1. Len(d.orders) <= Len(f.orders)
  BY DEF Grown, Sane, Listed
<1>2. Sane(f) /\ (d.raised => f.raised)
  BY DEF Grown
<1>3. \A i \in DOMAIN d.orders : i \in DOMAIN f.orders /\ f.orders[i] = d.orders[i]
  BY DEF Grown
<1>4. \A i \in DOMAIN f.orders : i \in DOMAIN d.orders \/ f.orders[i].entry = entry
  BY DEF Grown
<1>5. ASSUME NEW x \in DOMAIN f.fills
      PROVE  \/ x \in DOMAIN d.fills /\ f.fills[x] = d.fills[x]
             \/ /\ f.fills[x].order \in DOMAIN f.orders \ DOMAIN d.orders
                /\ f.orders[f.fills[x].order].status \in Traded
  <2>1. CASE x \in DOMAIN e.fills /\ f.fills[x] = e.fills[x]
    <3>1. CASE x \in DOMAIN d.fills /\ e.fills[x] = d.fills[x]
      BY <2>1, <3>1
    <3>2. CASE /\ e.fills[x].order \in DOMAIN e.orders \ DOMAIN d.orders
               /\ e.orders[e.fills[x].order].status \in Traded
      <4>1. e.fills[x].order \in DOMAIN f.orders /\ f.orders[e.fills[x].order] = e.orders[e.fills[x].order]
        BY <3>2 DEF Grown
      <4> QED
        BY <2>1, <3>2, <4>1
    <3> QED
      BY <2>1, <3>1, <3>2 DEF Grown
  <2>2. CASE /\ f.fills[x].order \in DOMAIN f.orders \ DOMAIN e.orders
             /\ f.orders[f.fills[x].order].status \in Traded
    BY <2>2 DEF Grown
  <2> QED
    BY <2>1, <2>2 DEF Grown
<1>6. \A x \in DOMAIN d.fills : x \in DOMAIN f.fills
  BY DEF Grown
<1> QED
  BY <1>1, <1>2, <1>3, <1>4, <1>5, <1>6 DEF Grown

\* A submission makes one order more, unless the call raises.
LEMMA SubmitGrows ==
  ASSUME NEW d, Sane(d), NEW s, NEW side, NEW qty, NEW entry
  PROVE  LET e == Submit(d, s, side, qty, entry)
         IN  Grown(d, e, entry) /\ (~e.raised => ~d.raised /\ Len(e.orders) = Len(d.orders) + 1)
<1> DEFINE n == Len(d.orders)
           to == Translated(d, s, side, qty)
           created == [symbol |-> s, side |-> side, type |-> to.type, limit |-> to.limit,
                       qty |-> to.qty, filled |-> 0, status |-> "CREATED", at |-> d.time,
                       active |-> d.time + d.terms.lag, entry |-> entry]
           due == d.terms.lag = 0
           o == IF due THEN AfterAccept(created) ELSE created
           p == [d EXCEPT !.orders = Append(@, o)]
           e == Submit(d, s, side, qty, entry)
           stuck == [d EXCEPT !.raised = TRUE]
<1>1. e = IF d.raised THEN d ELSE IF Raises(d, s, side, qty) THEN stuck
          ELSE IF due THEN Matched(p, Len(p.orders)) ELSE p
  BY DEF Submit
<1>2. /\ "status" \in DOMAIN o /\ "entry" \in DOMAIN o /\ o.entry = entry
      /\ o.status # "CANCEL_PENDING"
  BY DEF AfterAccept, MoveTo
<1> HIDE DEF o
<1>3. p.orders = Append(d.orders, o) /\ p.fills = d.fills /\ p.raised = d.raised
      /\ "orders" \in DOMAIN p /\ "fills" \in DOMAIN p /\ "raised" \in DOMAIN p
  BY DEF Sane
<1> HIDE DEF p, due
<1>4. n \in Nat /\ Listed(d.orders) /\ Listed(d.fills) /\ DOMAIN d.orders = 1..n
  BY ListedDomain DEF Sane, Listed
<1>5. /\ Listed(p.orders) /\ Len(p.orders) = n + 1 /\ DOMAIN p.orders = 1..(n + 1)
      /\ p.orders[n + 1] = o /\ \A i \in 1..n : p.orders[i] = d.orders[i]
  BY <1>3, <1>4, ListedAppend
<1> HIDE DEF n
<1>6. /\ \A i \in 1..(n + 1) : i \in 1..n \/ i = n + 1
      /\ n + 1 \in 1..(n + 1) /\ n + 1 \notin 1..n /\ n <= n + 1 /\ n # n + 1
      /\ \A i \in 1..n : i \in 1..(n + 1) /\ i # n + 1
  BY <1>4
<1>7. Sane(p)
  BY <1>2, <1>3, <1>4, <1>5, <1>6 DEF Sane
<1>8. Grown(d, p, entry)
  BY <1>2, <1>3, <1>4, <1>5, <1>6, <1>7 DEF Grown, n
<1>9. MatchedOne(p, Matched(p, n + 1), n + 1)
  BY <1>5, <1>6, <1>7, MatchedTouchesOne
<1> DEFINE m == Matched(p, n + 1)
<1> HIDE DEF m
<1>10. Grown(d, m, entry) /\ Len(m.orders) = n + 1
  <2>1. /\ Sane(m) /\ DOMAIN m.orders = 1..(n + 1) /\ Len(m.orders) = n + 1 /\ (d.raised => m.raised)
        /\ \A i \in 1..n : m.orders[i] = d.orders[i]
        /\ m.orders[n + 1].entry = entry
    BY <1>2, <1>3, <1>5, <1>6, <1>9 DEF MatchedOne, m
  <2>2. ASSUME NEW f \in DOMAIN m.fills
        PROVE  \/ f \in DOMAIN d.fills /\ m.fills[f] = d.fills[f]
               \/ m.fills[f].order = n + 1 /\ m.orders[n + 1].status \in Traded
    <3>1. CASE m.fills = d.fills
      BY <3>1
    <3>2. ASSUME m.orders[n + 1].status \in Traded,
                 NEW k, m.fills = Append(d.fills, [order |-> n + 1, qty |-> k])
          PROVE  \/ f \in DOMAIN d.fills /\ m.fills[f] = d.fills[f]
                 \/ m.fills[f].order = n + 1 /\ m.orders[n + 1].status \in Traded
      <4> DEFINE l == Len(d.fills)
      <4>1. /\ DOMAIN d.fills = 1..l /\ DOMAIN m.fills = 1..(l + 1) /\ l \in Nat
            /\ m.fills[l + 1] = [order |-> n + 1, qty |-> k]
            /\ \A i \in 1..l : m.fills[i] = d.fills[i]
        BY <1>4, <3>2, ListedAppend DEF Listed
      <4> HIDE DEF l
      <4>2. f \in 1..l \/ f = l + 1
        BY <4>1
      <4> QED
        BY <3>2, <4>1, <4>2
    <3> QED
      BY <1>3, <1>9, <3>1, <3>2 DEF MatchedOne, m
  <2>3. \A f \in DOMAIN d.fills : f \in DOMAIN m.fills
    <3>1. CASE m.fills = d.fills
      BY <3>1
    <3>2. ASSUME NEW x, m.fills = Append(d.fills, x)
          PROVE  \A f \in DOMAIN d.fills : f \in DOMAIN m.fills
      <4> DEFINE l == Len(d.fills)
      <4>1. DOMAIN d.fills = 1..l /\ DOMAIN m.fills = 1..(l + 1) /\ l \in Nat
        BY <1>4, <3>2, ListedAppend DEF Listed
      <4> HIDE DEF l
      <4> QED
        BY <4>1
    <3> QED
      BY <1>3, <1>9, <3>1, <3>2 DEF MatchedOne, m
  <2> QED
    BY <1>4, <1>6, <2>1, <2>2, <2>3 DEF Grown, n
<1>11. Grown(d, stuck, entry) /\ stuck.raised
  <2>1. /\ stuck.orders = d.orders /\ stuck.fills = d.fills /\ stuck.raised = TRUE
        /\ "orders" \in DOMAIN stuck /\ "fills" \in DOMAIN stuck /\ "raised" \in DOMAIN stuck
    BY DEF Sane
  <2> HIDE DEF stuck
  <2>2. Sane(stuck)
    BY <2>1 DEF Sane
  <2>3. Len(d.orders) <= Len(stuck.orders)
    BY <1>4, <2>1 DEF n
  <2> QED
    BY <2>1, <2>2, <2>3 DEF Grown
<1>12. Grown(d, d, entry)
  BY GrownSame
<1> HIDE DEF stuck, e
<1> SUFFICES Grown(d, e, entry) /\ (~e.raised => ~d.raised /\ Len(e.orders) = n + 1)
  BY DEF e, n
<1>13. e \in {d, stuck, m, p} /\ (e = d => d.raised \/ e \in {stuck, m, p})
  BY <1>1, <1>5 DEF m
<1>14. Grown(d, e, entry)
  BY <1>8, <1>10, <1>11, <1>12, <1>13
<1>15. ~e.raised => ~d.raised /\ Len(e.orders) = n + 1
  BY <1>5, <1>10, <1>11, <1>13, <1>14 DEF Grown
<1> QED
  BY <1>14, <1>15

LEMMA SubmitEachGrows ==
  ASSUME NEW d, Sane(d), NEW wanted, NEW entry, Len(wanted) \in Nat
  PROVE  Grown(d, SubmitEach(d, wanted, entry), entry)
<1> DEFINE n == Len(wanted)
<1>1. PICK g : IsWalk(g, d, wanted, entry, n) /\ SubmitEach(d, wanted, entry) = g[n]
  BY SubmitEachWalk
<1> HIDE DEF n
<1>2. n \in Nat /\ n \in 0..n
  BY DEF n
<1> DEFINE Good == {s \in 0..n : Grown(d, g[s], entry)}
<1>3. g[0] = d /\ \A s \in 1..n : g[s] = IF wanted[s].qty = 0 THEN g[s - 1]
                                         ELSE Submit(g[s - 1], s, wanted[s].side, wanted[s].qty, entry)
  <2>1. 0 \in 0..n /\ \A s \in 1..n : s \in 0..n /\ s # 0
    BY <1>2
  <2> QED
    BY <1>1, <2>1 DEF IsWalk
<1>4. 0 \in Good
  BY <1>2, <1>3, GrownSame
<1>5. ASSUME NEW s \in 0..(n - 1), s \in Good PROVE s + 1 \in Good
  <2>1. s + 1 \in 1..n /\ s + 1 \in 0..n /\ s + 1 - 1 = s
    BY <1>2
  <2>2. Grown(d, g[s], entry) /\ Sane(g[s])
    BY <1>5 DEF Grown
  <2>3. Grown(g[s], g[s + 1], entry)
    <3>1. g[s + 1] = IF wanted[s + 1].qty = 0 THEN g[s]
                     ELSE Submit(g[s], s + 1, wanted[s + 1].side, wanted[s + 1].qty, entry)
      BY <1>3, <2>1
    <3>2. Grown(g[s], Submit(g[s], s + 1, wanted[s + 1].side, wanted[s + 1].qty, entry), entry)
      BY <2>2, SubmitGrows
    <3>3. Grown(g[s], g[s], entry)
      BY <2>2, GrownSame
    <3> QED
      BY <3>1, <3>2, <3>3
  <2> QED
    BY <2>1, <2>2, <2>3, GrownThrough
<1>6. \A s \in 0..n : s \in Good
  <2> HIDE DEF Good
  <2> QED
    BY <1>2, <1>4, <1>5, CountInduction
<1> QED
  BY <1>1, <1>2, <1>6

LEMMA FlattenGrows ==
  ASSUME NEW d, Sane(d)
  PROVE  Grown(d, Flatten(d), FALSE)
<1> DEFINE wanted == [s \in Symbols |-> [side |-> Opposite(d, s), qty |-> Abs(Held(d, s))]]
<1>1. Len(wanted) \in Nat
  <2> DEFINE n == Cardinality(Symbols)
             F(s) == [side |-> Opposite(d, s), qty |-> Abs(Held(d, s))]
  <2>1. wanted = [s \in 1..n |-> F(s)] /\ n \in Nat
    BY SignalAssumption, FS_CardinalityType
  <2> HIDE DEF n, F, wanted
  <2> QED
    BY <2>1
<1> HIDE DEF wanted
<1>2. Grown(d, SubmitEach(d, wanted, FALSE), FALSE)
  BY <1>1, SubmitEachGrows
<1> QED
  BY <1>2 DEF Flatten, wanted

\* Cancelling a leg touches only that leg, which then is not in flight.
CancelledOne(d, e, i) ==
  /\ Sane(e) /\ e.fills = d.fills /\ e.raised = d.raised /\ DOMAIN e.orders = DOMAIN d.orders
  /\ \A j \in DOMAIN d.orders :
       /\ e.orders[j].entry = d.orders[j].entry
       /\ j # i \/ ~InFlight(d.orders[j]) => e.orders[j] = d.orders[j]
       /\ j = i => ~InFlight(e.orders[j])

LEMMA CancelTouchesOne ==
  ASSUME NEW d, Sane(d), NEW i
  PROVE  CancelledOne(d, CancelLeg(d, i), i)
<1> DEFINE o == d.orders[i]
           p == AfterRequestCancel(o)
           r == IF p.status = "CANCEL_PENDING" THEN AfterConfirmCancel(p) ELSE p
           e == [d EXCEPT !.orders[i] = r]
<1>1. CancelLeg(d, i) = IF InFlight(o) THEN e ELSE d
  BY DEF CancelLeg, Cancelled
<1>2. CASE ~InFlight(o)
  BY <1>1, <1>2 DEF CancelledOne
<1>3. CASE InFlight(o) /\ i \in DOMAIN d.orders
  <2>1. "status" \in DOMAIN o /\ "entry" \in DOMAIN o
        /\ o.status \in {"CREATED", "ACCEPTED", "PARTIALLY_FILLED"}
    BY <1>3 DEF Sane, InFlight, Working
  <2>2. "status" \in DOMAIN r /\ "entry" \in DOMAIN r /\ r.entry = o.entry /\ r.status = "CANCELLED"
    BY <2>1 DEF AfterRequestCancel, AfterConfirmCancel, MoveTo, Terminal
  <2> HIDE DEF r
  <2>3. e.orders = [d.orders EXCEPT ![i] = r] /\ e.fills = d.fills /\ e.raised = d.raised
        /\ "orders" \in DOMAIN e /\ "fills" \in DOMAIN e /\ "raised" \in DOMAIN e
    BY DEF Sane
  <2> HIDE DEF e
  <2>4. /\ Listed(e.orders) /\ DOMAIN e.orders = DOMAIN d.orders
        /\ \A j \in DOMAIN d.orders : e.orders[j] = IF j = i THEN r ELSE d.orders[j]
    <3>1. Listed(d.orders)
      BY DEF Sane
    <3> QED
      BY <2>3, <3>1, ListedExcept
  <2>5. Sane(e)
    BY <2>2, <2>3, <2>4 DEF Sane
  <2>6. ~InFlight(r)
    BY <2>2 DEF InFlight, Working
  <2> QED
    BY <1>1, <1>3, <2>2, <2>3, <2>4, <2>5, <2>6 DEF CancelledOne
<1>4. CASE InFlight(o) /\ i \notin DOMAIN d.orders
  <2> DEFINE l == Len(d.orders)
  <2> HIDE DEF r
  <2>1. e.orders = [d.orders EXCEPT ![i] = r] /\ e.fills = d.fills /\ e.raised = d.raised
        /\ "orders" \in DOMAIN e /\ "fills" \in DOMAIN e /\ "raised" \in DOMAIN e
    BY DEF Sane
  <2> HIDE DEF e
  <2>2. /\ Listed(e.orders) /\ DOMAIN e.orders = DOMAIN d.orders
        /\ \A j \in DOMAIN d.orders : e.orders[j] = IF j = i THEN r ELSE d.orders[j]
    <3>1. Listed(d.orders)
      BY DEF Sane
    <3> QED
      BY <2>1, <3>1, ListedExcept
  <2>3. \A j \in DOMAIN d.orders : e.orders[j] = d.orders[j]
    BY <1>4, <2>2
  <2>4. Sane(e)
    BY <2>1, <2>2, <2>3 DEF Sane
  <2> QED
    BY <1>1, <1>4, <2>1, <2>2, <2>3, <2>4 DEF CancelledOne
<1> QED
  BY <1>2, <1>3, <1>4

LEMMA CancelInFlightTouchesLegs ==
  ASSUME NEW d, Sane(d), NEW held
  PROVE  LET e == CancelInFlight(d, held)
         IN  /\ Sane(e) /\ e.fills = d.fills /\ e.raised = d.raised /\ DOMAIN e.orders = DOMAIN d.orders
             /\ \A j \in DOMAIN d.orders :
                  /\ e.orders[j].entry = d.orders[j].entry
                  /\ ~InFlight(d.orders[j]) => e.orders[j] = d.orders[j]
                  /\ InFlight(e.orders[j]) => InFlight(d.orders[j]) /\ j \notin Legs(held)
<1> DEFINE once == CancelLeg(d, held.long)
           e == CancelInFlight(d, held)
<1>1. CancelledOne(d, once, held.long)
  BY CancelTouchesOne
<1>2. e = CancelLeg(once, held.short)
  BY DEF CancelInFlight
<1> HIDE DEF once
<1>3. CancelledOne(once, CancelLeg(once, held.short), held.short)
  BY <1>1, CancelTouchesOne DEF CancelledOne
<1>4. CancelledOne(once, e, held.short)
  BY <1>2, <1>3
<1> HIDE DEF e
<1>5. /\ Sane(e) /\ e.fills = d.fills /\ e.raised = d.raised /\ DOMAIN e.orders = DOMAIN d.orders
  BY <1>1, <1>4 DEF CancelledOne
<1>6. ASSUME NEW j \in DOMAIN d.orders
      PROVE  /\ e.orders[j].entry = d.orders[j].entry
             /\ ~InFlight(d.orders[j]) => e.orders[j] = d.orders[j]
             /\ InFlight(e.orders[j]) => InFlight(d.orders[j]) /\ j \notin Legs(held)
  <2>1. /\ once.orders[j].entry = d.orders[j].entry
        /\ j # held.long \/ ~InFlight(d.orders[j]) => once.orders[j] = d.orders[j]
        /\ j = held.long => ~InFlight(once.orders[j])
    BY <1>1 DEF CancelledOne
  <2>2. /\ e.orders[j].entry = once.orders[j].entry
        /\ j # held.short \/ ~InFlight(once.orders[j]) => e.orders[j] = once.orders[j]
        /\ j = held.short => ~InFlight(e.orders[j])
    BY <1>1, <1>4 DEF CancelledOne
  <2> QED
    BY <2>1, <2>2 DEF Legs
<1> QED
  BY <1>5, <1>6 DEF e

----------------------------------------------------------------------------
(* One entry in the market *)

\* Every fill of a leg filled it.
FillsWhole(d) ==
  \A f \in DOMAIN d.fills :
    /\ d.fills[f].order \in DOMAIN d.orders
    /\ d.orders[d.fills[f].order].entry => d.orders[d.fills[f].order].status = "FILLED"

\* The entry the strategy would act on is made of orders of the desk, and no
\* other leg is in flight.
OnlyEntry(d, held) ==
  /\ Live(held) => \A l \in Legs(held) : l \in DOMAIN d.orders /\ d.orders[l].entry
  /\ \A i \in DOMAIN d.orders :
       d.orders[i].entry /\ InFlight(d.orders[i]) => Live(held) /\ i \in Legs(held)

EntrySound(d, held) == Sane(d) /\ FillsWhole(d) /\ OnlyEntry(d, held)

\* No leg of an entry is filled in part.
LegsWholeIn(d) ==
  \A i \in DOMAIN d.orders : d.orders[i].entry => d.orders[i].status # "PARTIALLY_FILLED"
LegsWhole == LegsWholeIn(desk)

\* Orders that enter nothing change nothing about entries.
LEMMA SoundWhenGrown ==
  ASSUME NEW d, NEW e, NEW held, EntrySound(d, held), Grown(d, e, FALSE)
  PROVE  EntrySound(e, held)
<1>1. Sane(e)
  BY DEF Grown
<1>2. ASSUME NEW f \in DOMAIN e.fills
      PROVE  /\ e.fills[f].order \in DOMAIN e.orders
             /\ e.orders[e.fills[f].order].entry => e.orders[e.fills[f].order].status = "FILLED"
  <2>1. CASE f \in DOMAIN d.fills /\ e.fills[f] = d.fills[f]
    BY <2>1 DEF EntrySound, FillsWhole, Grown
  <2>2. CASE e.fills[f].order \in DOMAIN e.orders \ DOMAIN d.orders
    BY <2>2 DEF Grown
  <2> QED
    BY <2>1, <2>2 DEF Grown
<1>3. OnlyEntry(e, held)
  BY DEF EntrySound, OnlyEntry, Grown
<1> QED
  BY <1>1, <1>2, <1>3 DEF EntrySound, FillsWhole

\* A new entry takes the place of the one before it.
LEMMA SoundWhenOpened ==
  ASSUME NEW d, NEW held, EntrySound(d, held), NEW pair, pair # NoPair,
         NEW r, r = OpenPair(d, held, pair), ~r.desk.raised, LegsWholeIn(r.desk)
  PROVE  EntrySound(r.desk, r.intent)
<1> DEFINE free == IF Live(held) /\ held.pair # pair THEN CancelInFlight(d, held) ELSE d
           entered == EnterPair(free, pair)
<1>1. CASE r.desk = d /\ r.intent = held
  BY <1>1
<1>2. CASE ~Pending(d, held, pair) /\ r.desk = entered.desk /\ r.intent = entered.intent
  <2>1. /\ Sane(free) /\ free.fills = d.fills /\ DOMAIN free.orders = DOMAIN d.orders
        /\ \A j \in DOMAIN d.orders :
             /\ free.orders[j].entry = d.orders[j].entry
             /\ ~InFlight(d.orders[j]) => free.orders[j] = d.orders[j]
             /\ InFlight(free.orders[j]) => InFlight(d.orders[j])
        /\ Live(held) /\ held.pair # pair =>
             \A j \in DOMAIN d.orders : InFlight(free.orders[j]) => j \notin Legs(held)
    <3>1. Sane(d)
      BY DEF EntrySound
    <3>2. CASE Live(held) /\ held.pair # pair
      BY <3>1, <3>2, CancelInFlightTouchesLegs
    <3>3. CASE ~(Live(held) /\ held.pair # pair)
      BY <3>1, <3>3
    <3> QED
      BY <3>2, <3>3
  <2> HIDE DEF free
  <2>2. ASSUME NEW j \in DOMAIN d.orders, free.orders[j].entry PROVE ~InFlight(free.orders[j])
    <3> SUFFICES ASSUME InFlight(free.orders[j]) PROVE FALSE
      OBVIOUS
    <3>1. d.orders[j].entry /\ InFlight(d.orders[j])
      BY <2>1, <2>2
    <3>2. Live(held) /\ j \in Legs(held)
      BY <3>1 DEF EntrySound, OnlyEntry
    <3>3. held.pair = pair
      BY <2>1, <3>2
    <3> QED
      BY <1>2, <3>1, <3>2, <3>3 DEF Pending
  <2>3. FillsWhole(free)
    <3> SUFFICES ASSUME NEW f \in DOMAIN free.fills
                 PROVE  /\ free.fills[f].order \in DOMAIN free.orders
                        /\ free.orders[free.fills[f].order].entry
                             => free.orders[free.fills[f].order].status = "FILLED"
      BY DEF FillsWhole
    <3> DEFINE i == d.fills[f].order
    <3>1. /\ free.fills[f].order = i /\ i \in DOMAIN d.orders
          /\ d.orders[i].entry => d.orders[i].status = "FILLED"
      BY <2>1 DEF EntrySound, FillsWhole
    <3> HIDE DEF i
    <3>2. d.orders[i].entry => ~InFlight(d.orders[i])
      BY <3>1 DEF InFlight, Working
    <3>3. free.orders[i].entry => free.orders[i] = d.orders[i]
      BY <2>1, <3>1, <3>2
    <3> QED
      BY <2>1, <3>1, <3>3
  <2> DEFINE sold == Submit(free, pair[2], "SELL", LegSize(free, pair[2]), TRUE)
             both == Submit(sold, pair[1], "BUY", LegSize(free, pair[1]), TRUE)
             n == Len(free.orders)
             long == n + 1 + 1
             short == n + 1
             made == [pair |-> pair, long |-> long, short |-> short, applied |-> FALSE,
                      failed |-> ~Awaiting(both.orders[long], both.orders[short])]
  <2>4. Grown(free, sold, TRUE) /\ (~sold.raised => Len(sold.orders) = n + 1)
    <3>1. Sane(free)
      BY <2>1
    <3> QED
      BY <3>1, SubmitGrows
  <2>5. entered = IF both.raised THEN [desk |-> both, intent |-> NoIntent]
                  ELSE [desk |-> both, intent |-> made]
    BY DEF EnterPair
  <2> HIDE DEF sold
  <2>6. Sane(sold)
    BY <2>4 DEF Grown
  <2>7. Grown(sold, both, TRUE)
        /\ (~both.raised => ~sold.raised /\ Len(both.orders) = Len(sold.orders) + 1)
    BY <2>6, SubmitGrows
  <2> HIDE DEF both, made, entered
  <2>8. r.desk = both /\ ~both.raised /\ r.intent = made
    BY <1>2, <2>5
  <2>9. Grown(free, both, TRUE) /\ Len(both.orders) = n + 1 + 1
    BY <2>1, <2>4, <2>7, <2>8, GrownThrough
  <2>10. n \in Nat /\ DOMAIN free.orders = 1..n /\ DOMAIN both.orders = 1..(n + 1 + 1) /\ Sane(both)
    <3>1. Sane(both)
      BY <2>9 DEF Grown
    <3> QED
      BY <2>1, <2>9, <3>1, ListedDomain DEF Sane, Listed
  <2> HIDE DEF n
  <2>11. /\ \A i \in 1..(n + 1 + 1) : i \in 1..n \/ i = long \/ i = short
         /\ long \in 1..(n + 1 + 1) /\ short \in 1..(n + 1 + 1) /\ long \notin 1..n /\ short \notin 1..n
    BY <2>10
  <2> HIDE DEF long, short
  <2>12. both.orders[long].entry = TRUE /\ both.orders[short].entry = TRUE
    BY <2>9, <2>10, <2>11 DEF Grown
  <2>13. FillsWhole(both)
    <3> SUFFICES ASSUME NEW f \in DOMAIN both.fills
                 PROVE  /\ both.fills[f].order \in DOMAIN both.orders
                        /\ both.orders[both.fills[f].order].entry
                             => both.orders[both.fills[f].order].status = "FILLED"
      BY DEF FillsWhole
    <3>1. CASE f \in DOMAIN free.fills /\ both.fills[f] = free.fills[f]
      BY <2>3, <2>9, <3>1 DEF FillsWhole, Grown
    <3>2. CASE /\ both.fills[f].order \in DOMAIN both.orders \ DOMAIN free.orders
               /\ both.orders[both.fills[f].order].status \in Traded
      BY <2>8, <3>2 DEF LegsWholeIn, Traded
    <3> QED
      BY <2>9, <3>1, <3>2 DEF Grown
  <2>14. made.long = long /\ made.short = short /\ made.pair = pair /\ made.applied = FALSE
         /\ (made.failed <=> ~Awaiting(both.orders[long], both.orders[short]))
    BY DEF made
  <2>15. Legs(made) = {long, short}
    BY <2>14 DEF Legs
  <2>16. InFlight(both.orders[long]) \/ InFlight(both.orders[short]) => Live(made)
    <3>1. made # NoIntent
      BY <2>14 DEF NoIntent
    <3> QED
      BY <2>14, <3>1 DEF Live, Awaiting
  <2>17. OnlyEntry(both, made)
    <3>1. \A l \in Legs(made) : l \in DOMAIN both.orders /\ both.orders[l].entry
      BY <2>10, <2>11, <2>12, <2>15
    <3>2. ASSUME NEW i \in DOMAIN both.orders, both.orders[i].entry, InFlight(both.orders[i])
          PROVE  Live(made) /\ i \in Legs(made)
      <4>1. i \notin 1..n
        BY <2>1, <2>2, <2>9, <2>10, <3>2 DEF Grown
      <4> QED
        BY <2>10, <2>11, <2>15, <2>16, <3>2, <4>1
    <3> QED
      BY <3>1, <3>2 DEF OnlyEntry
  <2> QED
    BY <2>8, <2>10, <2>13, <2>17 DEF EntrySound
<1>3. \/ r.desk = d /\ r.intent = held
      \/ ~Pending(d, held, pair) /\ r.desk = entered.desk /\ r.intent = entered.intent
  BY DEF OpenPair
<1> QED
  BY <1>1, <1>2, <1>3

\* Orders that were waiting are accepted.
LEMMA SoundWhenAccepted ==
  ASSUME NEW d, Sane(d), NEW A, \A i \in A : d.orders[i].status = "CREATED",
         NEW e, e.orders = [i \in DOMAIN d.orders |-> IF i \in A THEN AfterAccept(d.orders[i]) ELSE d.orders[i]],
         e.fills = d.fills, "orders" \in DOMAIN e, "fills" \in DOMAIN e, "raised" \in DOMAIN e
  PROVE  Sane(e) /\ \A held : EntrySound(d, held) => EntrySound(e, held)
<1>1. /\ DOMAIN e.orders = DOMAIN d.orders
      /\ \A i \in DOMAIN d.orders : /\ "status" \in DOMAIN e.orders[i] /\ "entry" \in DOMAIN e.orders[i]
                                    /\ e.orders[i].entry = d.orders[i].entry
                                    /\ e.orders[i].status = IF i \in A THEN "ACCEPTED" ELSE d.orders[i].status
  BY DEF Sane, AfterAccept, MoveTo
<1>2. Listed(e.orders)
  <2> DEFINE n == Len(d.orders)
             r == e.orders
             S == {r[i] : i \in 1..n}
  <2>1. n \in Nat /\ DOMAIN d.orders = 1..n
    BY ListedDomain DEF Sane, Listed
  <2>2. r = [i \in 1..n |-> r[i]] /\ \A i \in 1..n : r[i] \in S
    <3>1. r = [i \in DOMAIN r |-> r[i]]
      OBVIOUS
    <3> HIDE DEF n, r
    <3> QED
      BY <1>1, <2>1, <3>1 DEF r
  <2> HIDE DEF n, r, S
  <2>3. r \in Seq(S) /\ Len(r) = n
    BY <2>1, <2>2
  <2> QED
    BY <2>1, <2>2, <2>3 DEF Listed, r
<1>3. Sane(e)
  BY <1>1, <1>2 DEF Sane
<1>4. ASSUME NEW i \in DOMAIN d.orders PROVE InFlight(e.orders[i]) <=> InFlight(d.orders[i])
  BY <1>1 DEF InFlight, Working
<1>5. ASSUME NEW held, EntrySound(d, held) PROVE EntrySound(e, held)
  <2>1. FillsWhole(e)
    <3> SUFFICES ASSUME NEW f \in DOMAIN d.fills
                 PROVE  /\ d.fills[f].order \in DOMAIN e.orders
                        /\ e.orders[d.fills[f].order].entry => e.orders[d.fills[f].order].status = "FILLED"
      BY DEF FillsWhole
    <3> DEFINE i == d.fills[f].order
    <3>1. i \in DOMAIN d.orders /\ (d.orders[i].entry => d.orders[i].status = "FILLED")
      BY <1>5 DEF EntrySound, FillsWhole
    <3> HIDE DEF i
    <3>2. d.orders[i].entry => i \notin A
      BY <3>1
    <3>3. i \in DOMAIN e.orders /\ (e.orders[i].entry => e.orders[i].status = "FILLED")
      BY <1>1, <3>1, <3>2
    <3> QED
      BY <3>3 DEF i
  <2>2. OnlyEntry(e, held)
    BY <1>1, <1>4, <1>5 DEF EntrySound, OnlyEntry
  <2> QED
    BY <1>3, <2>1, <2>2 DEF EntrySound
<1> QED
  BY <1>3, <1>5

\* One order was matched; if it was a leg it was not filled in part.
LEMMA SoundWhenMatched ==
  ASSUME NEW d, NEW e, NEW i \in WorkingOrders(d), NEW held, EntrySound(d, held), MatchedOne(d, e, i),
         LegsWholeIn(e)
  PROVE  EntrySound(e, held)
<1>0. i \in DOMAIN d.orders /\ d.orders[i].status \in Working
  BY DEF WorkingOrders
<1>1. /\ Sane(e) /\ DOMAIN e.orders = DOMAIN d.orders
      /\ \A j \in DOMAIN d.orders : j # i => e.orders[j] = d.orders[j]
      /\ e.orders[i].entry = d.orders[i].entry
      /\ \/ e.fills = d.fills
         \/ e.orders[i].status \in Traded /\ \E n : e.fills = Append(d.fills, [order |-> i, qty |-> n])
  BY DEF MatchedOne
<1>2. ASSUME NEW f \in DOMAIN d.fills
      PROVE  /\ d.fills[f].order \in DOMAIN e.orders
             /\ e.orders[d.fills[f].order].entry => e.orders[d.fills[f].order].status = "FILLED"
  <2> DEFINE j == d.fills[f].order
  <2>1. j \in DOMAIN d.orders /\ (d.orders[j].entry => d.orders[j].status = "FILLED")
    BY DEF EntrySound, FillsWhole
  <2> HIDE DEF j
  <2>2. CASE j # i
    BY <1>1, <2>1, <2>2 DEF j
  <2>3. CASE j = i
    <3>1. ~d.orders[i].entry
      BY <1>0, <2>1, <2>3 DEF Working
    <3> QED
      BY <1>0, <1>1, <2>3, <3>1 DEF j
  <2> QED
    BY <2>2, <2>3
<1>3. FillsWhole(e)
  <2>1. CASE e.fills = d.fills
    BY <1>2, <2>1 DEF FillsWhole
  <2>2. ASSUME e.orders[i].status \in Traded, NEW n, e.fills = Append(d.fills, [order |-> i, qty |-> n])
        PROVE  FillsWhole(e)
    <3> DEFINE l == Len(d.fills)
    <3>1. /\ DOMAIN d.fills = 1..l /\ DOMAIN e.fills = 1..(l + 1) /\ l \in Nat
          /\ e.fills[l + 1] = [order |-> i, qty |-> n]
          /\ \A k \in 1..l : e.fills[k] = d.fills[k]
      <4>1. Listed(d.fills)
        BY DEF EntrySound, Sane
      <4> QED
        BY <2>2, <4>1, ListedAppend DEF Listed
    <3> HIDE DEF l
    <3>2. \A f \in 1..(l + 1) : f \in 1..l \/ f = l + 1
      BY <3>1
    <3>3. e.orders[i].entry => e.orders[i].status = "FILLED"
      BY <1>0, <1>1, <2>2 DEF LegsWholeIn, Traded
    <3>4. e.fills[l + 1].order = i
      BY <3>1
    <3> QED
      BY <1>0, <1>1, <1>2, <3>1, <3>2, <3>3, <3>4 DEF FillsWhole
  <2> QED
    BY <1>1, <2>1, <2>2
<1>4. \A j \in DOMAIN d.orders : InFlight(e.orders[j]) => InFlight(d.orders[j])
  BY <1>0, <1>1 DEF InFlight
<1>5. \A j \in DOMAIN d.orders : e.orders[j].entry = d.orders[j].entry
  BY <1>1
<1>6. OnlyEntry(e, held)
  BY <1>1, <1>4, <1>5 DEF EntrySound, OnlyEntry
<1> QED
  BY <1>1, <1>3, <1>6 DEF EntrySound

\* What a fill says of the entry leaves no leg of it in flight.
LEMMA SoundWhenTold ==
  ASSUME NEW d, NEW held, EntrySound(d, held), NEW f \in DOMAIN d.fills, NEW outcome,
         outcome = Outcome(d, held, d.fills[f]), outcome # "none",
         NEW after, outcome = "opened" => after.applied, outcome = "failed" => after.failed
  PROVE  EntrySound(d, after)
<1> DEFINE i == d.fills[f].order
<1>1. /\ Live(held) /\ i \in Legs(held)
      /\ \/ outcome = "opened" /\ \A l \in Legs(held) : d.orders[l].status = "FILLED"
         \/ outcome = "failed" /\ \E l \in Legs(held) : LegFailed(d.orders[l])
  BY DEF Outcome
<1>2. \A l \in Legs(held) : l \in DOMAIN d.orders /\ d.orders[l].entry
  BY <1>1 DEF EntrySound, OnlyEntry
<1>3. \A j \in DOMAIN d.orders : d.orders[j].entry /\ InFlight(d.orders[j]) => j \in Legs(held)
  BY DEF EntrySound, OnlyEntry
<1>4. d.orders[i].entry => d.orders[i].status = "FILLED"
  BY DEF EntrySound, FillsWhole
<1> HIDE DEF i
<1>5. d.orders[i].status = "FILLED"
  BY <1>1, <1>2, <1>4
<1>6. ASSUME NEW j \in DOMAIN d.orders, d.orders[j].entry PROVE ~InFlight(d.orders[j])
  <2> SUFFICES ASSUME InFlight(d.orders[j]) PROVE FALSE
    OBVIOUS
  <2>1. j \in Legs(held)
    BY <1>3, <1>6
  <2>2. d.orders[j].status \in Working \cup {"CREATED"}
    BY DEF InFlight
  <2>3. d.orders[j].status \notin {"FILLED", "REJECTED", "CANCELLED", "EXPIRED"}
    BY <2>2 DEF Working
  <2>4. CASE \A l \in Legs(held) : d.orders[l].status = "FILLED"
    BY <2>1, <2>3, <2>4
  <2>5. CASE \E l \in Legs(held) : LegFailed(d.orders[l])
    <3>1. PICK l \in Legs(held) : LegFailed(d.orders[l])
      BY <2>5
    <3>2. d.orders[l].status \in {"REJECTED", "CANCELLED", "EXPIRED"}
      BY <3>1 DEF LegFailed
    <3>3. l # i /\ l # j /\ j # i
      BY <1>5, <2>3, <3>2
    <3> QED
      BY <1>1, <2>1, <3>1, <3>3 DEF Legs
  <2> QED
    BY <1>1, <2>4, <2>5
<1>7. ~Live(after)
  <2>1. outcome = "opened" \/ outcome = "failed"
    BY <1>1
  <2> QED
    BY <2>1 DEF Live
<1>8. OnlyEntry(d, after)
  BY <1>6, <1>7 DEF OnlyEntry
<1> QED
  BY <1>8 DEF EntrySound

\* What the fills still to be told and the orders still to be matched are, on
\* top of what is so of the entry.
EntryAt(d, held, at, left) ==
  /\ at = "idle" => ~d.raised
  /\ ~d.raised =>
       /\ EntrySound(d, held)
       /\ "applied" \in DOMAIN held /\ "failed" \in DOMAIN held
       /\ at \in {"match", "settle"} => left \subseteq WorkingOrders(d)
       /\ at \in {"told", "done"} => left \subseteq DOMAIN d.fills

EntryInv == setup.name \in Pairs => EntryAt(desk, intent, pc, todo)

LEMMA OpenSound ==
  \A symbols, cash, terms :
    LET d == OpenDesk(symbols, cash, terms)
    IN  EntrySound(d, NoIntent) /\ ~d.raised /\ "applied" \in DOMAIN NoIntent /\ "failed" \in DOMAIN NoIntent
<1> SUFFICES ASSUME NEW symbols, NEW cash, NEW terms
             PROVE  LET d == OpenDesk(symbols, cash, terms)
                    IN  EntrySound(d, NoIntent) /\ ~d.raised
                        /\ "applied" \in DOMAIN NoIntent /\ "failed" \in DOMAIN NoIntent
  OBVIOUS
<1> DEFINE d == OpenDesk(symbols, cash, terms)
<1>1. d.orders = <<>> /\ d.fills = <<>> /\ ~d.raised
      /\ "orders" \in DOMAIN d /\ "fills" \in DOMAIN d /\ "raised" \in DOMAIN d
  BY Zenon DEF OpenDesk
<1> HIDE DEF d
<1>2. Len(<<>>) = 0 /\ DOMAIN <<>> = {} /\ 1..0 = {}
  OBVIOUS
<1>3. Listed(<<>>)
  <2>1. [i \in {} |-> <<>>[i]] = <<>>
    OBVIOUS
  <2> QED
    BY <1>2, <2>1 DEF Listed
<1>4. Sane(d)
  BY <1>1, <1>2, <1>3 DEF Sane
<1>5. EntrySound(d, NoIntent)
  <2>1. ~Live(NoIntent)
    BY DEF Live
  <2> QED
    BY <1>1, <1>2, <1>4, <2>1 DEF EntrySound, FillsWhole, OnlyEntry
<1>6. "applied" \in DOMAIN NoIntent /\ "failed" \in DOMAIN NoIntent
  BY DEF NoIntent
<1> QED
  BY <1>1, <1>5, <1>6 DEF d

LEMMA EntryInit == Init => EntryInv
<1> SUFFICES ASSUME Init PROVE EntryAt(desk, intent, pc, todo)
  BY DEF EntryInv
<1>1. EntrySound(desk, intent) /\ ~desk.raised /\ "applied" \in DOMAIN intent /\ "failed" \in DOMAIN intent
  BY OpenSound DEF Init
<1>2. pc = "off"
  BY DEF Init
<1> QED
  BY <1>1, <1>2 DEF EntryAt

LEMMA EntryStarts ==
  ASSUME NEW reset, Start(reset)
  PROVE  EntryAt(desk', intent', pc', todo')
<1>1. EntrySound(desk', intent') /\ ~desk'.raised /\ "applied" \in DOMAIN intent' /\ "failed" \in DOMAIN intent'
  BY OpenSound DEF Start
<1>2. pc' = "idle"
  BY DEF Start
<1> QED
  BY <1>1, <1>2 DEF EntryAt

LEMMA EntryProcessed ==
  ASSUME EntryAt(desk, intent, pc, todo), NEW snap, NEW gap, Process(snap, gap)
  PROVE  EntryAt(desk', intent', pc', todo')
<1>1. ~desk.raised /\ EntrySound(desk, intent) /\ "applied" \in DOMAIN intent /\ "failed" \in DOMAIN intent
  BY DEF EntryAt, Process
<1>2. Sane(desk) /\ "orders" \in DOMAIN desk /\ "fills" \in DOMAIN desk /\ "raised" \in DOMAIN desk
  BY <1>1 DEF EntrySound, Sane
<1> DEFINE now == clock'
           A == {i \in DOMAIN desk.orders : desk.orders[i].status = "CREATED" /\ now >= desk.orders[i].active}
           fed == [desk EXCEPT !.market = snap, !.time = now,
                               !.book = [s \in DOMAIN @ |-> IF s \in DOMAIN snap THEN snap[s].last ELSE @[s]]]
           e == Fed(desk, snap, now)
<1>3. fed.orders = desk.orders /\ fed.fills = desk.fills /\ fed.raised = desk.raised
      /\ "orders" \in DOMAIN fed /\ "fills" \in DOMAIN fed /\ "raised" \in DOMAIN fed
  BY <1>2
<1>4. e = Activated(fed, now)
  BY DEF Fed
<1> HIDE DEF fed, now
<1>5. e.orders = [i \in DOMAIN desk.orders |-> IF i \in A THEN AfterAccept(desk.orders[i]) ELSE desk.orders[i]]
      /\ e.fills = desk.fills /\ e.raised = desk.raised
      /\ "orders" \in DOMAIN e /\ "fills" \in DOMAIN e /\ "raised" \in DOMAIN e
  BY <1>3, <1>4 DEF Activated
<1> HIDE DEF e
<1>6. \A i \in A : desk.orders[i].status = "CREATED"
  OBVIOUS
<1> HIDE DEF A
<1>7. EntrySound(e, intent)
  BY <1>1, <1>2, <1>5, <1>6, SoundWhenAccepted
<1>8. desk' = e /\ intent' = intent /\ pc' = "match" /\ todo' = WorkingOrders(desk')
  BY DEF Process, e, now
<1> QED
  BY <1>1, <1>5, <1>7, <1>8 DEF EntryAt

LEMMA EntrySettled ==
  ASSUME EntryAt(desk, intent, pc, todo), Settle
  PROVE  EntryAt(desk', intent', pc', todo')
<1>1. ~desk.raised /\ EntrySound(desk, intent) /\ "applied" \in DOMAIN intent /\ "failed" \in DOMAIN intent
  BY DEF EntryAt, Settle
<1>2. Sane(desk) /\ "orders" \in DOMAIN desk /\ "fills" \in DOMAIN desk /\ "raised" \in DOMAIN desk
  BY <1>1 DEF EntrySound, Sane
<1> DEFINE A == {i \in DOMAIN desk.orders : desk.orders[i].status = "CREATED"}
           e == [desk EXCEPT !.orders = [i \in DOMAIN @ |->
                   IF @[i].status = "CREATED" THEN AfterAccept(@[i]) ELSE @[i]]]
<1>3. CASE desk' = e /\ pc' = "settle" /\ todo' = WorkingOrders(desk') /\ intent' = intent
  <2>1. e.orders = [i \in DOMAIN desk.orders |-> IF i \in A THEN AfterAccept(desk.orders[i]) ELSE desk.orders[i]]
        /\ e.fills = desk.fills /\ e.raised = desk.raised
        /\ "orders" \in DOMAIN e /\ "fills" \in DOMAIN e /\ "raised" \in DOMAIN e
    BY <1>2
  <2> HIDE DEF e
  <2>2. \A i \in A : desk.orders[i].status = "CREATED"
    OBVIOUS
  <2> HIDE DEF A
  <2>3. EntrySound(e, intent)
    BY <1>1, <1>2, <2>1, <2>2, SoundWhenAccepted
  <2> QED
    BY <1>1, <1>3, <2>1, <2>3 DEF EntryAt
<1>4. CASE UNCHANGED <<desk, todo, intent>> /\ pc' = "save"
  BY <1>1, <1>4 DEF EntryAt
<1> QED
  BY <1>3, <1>4 DEF Settle

LEMMA EntryMatched ==
  ASSUME EntryAt(desk, intent, pc, todo), NEW i \in todo, Match(i), LegsWholeIn(desk')
  PROVE  EntryAt(desk', intent', pc', todo')
<1>1. ~desk.raised /\ pc \in {"match", "settle"} /\ pc' = pc /\ intent' = intent
      /\ desk' = Matched(desk, i) /\ todo' = todo \ {i}
  BY DEF Match
<1>2. /\ EntrySound(desk, intent) /\ "applied" \in DOMAIN intent /\ "failed" \in DOMAIN intent
      /\ todo \subseteq WorkingOrders(desk)
  BY <1>1 DEF EntryAt
<1>3. Sane(desk) /\ i \in DOMAIN desk.orders /\ i \in WorkingOrders(desk)
  BY <1>2 DEF EntrySound, WorkingOrders
<1>4. MatchedOne(desk, desk', i)
  BY <1>1, <1>3, MatchedTouchesOne
<1>5. EntrySound(desk', intent')
  BY <1>1, <1>2, <1>3, <1>4, SoundWhenMatched
<1>6. todo' \subseteq WorkingOrders(desk')
  <2> SUFFICES ASSUME NEW j \in todo, j # i
               PROVE  j \in DOMAIN desk'.orders /\ desk'.orders[j].status \in Working
    BY <1>1 DEF WorkingOrders
  <2>1. j \in DOMAIN desk.orders /\ desk.orders[j].status \in Working
    BY <1>2 DEF WorkingOrders
  <2>2. DOMAIN desk'.orders = DOMAIN desk.orders /\ \A k \in DOMAIN desk.orders : k # i => desk'.orders[k] = desk.orders[k]
    BY <1>4 DEF MatchedOne
  <2> QED
    BY <2>1, <2>2
<1> QED
  BY <1>1, <1>2, <1>5, <1>6 DEF EntryAt

LEMMA EntryMatchEnds ==
  ASSUME EntryAt(desk, intent, pc, todo), EndMatch
  PROVE  EntryAt(desk', intent', pc', todo')
<1>1. ~desk.raised /\ intent' = intent /\ desk' = Recorded(desk)
      /\ ((pc' = "told" /\ todo' = Fresh) \/ pc' = "save")
  BY DEF EndMatch
<1>2. EntrySound(desk, intent) /\ "applied" \in DOMAIN intent /\ "failed" \in DOMAIN intent
  BY <1>1 DEF EntryAt
<1>3. desk'.orders = desk.orders /\ desk'.fills = desk.fills /\ desk'.raised = desk.raised
      /\ "orders" \in DOMAIN desk' /\ "fills" \in DOMAIN desk' /\ "raised" \in DOMAIN desk'
  <2> DEFINE row == [equity |-> Equity(desk), fees |-> desk.fees]
             e == [desk EXCEPT !.curve = Append(@, row)]
  <2>1. "orders" \in DOMAIN desk /\ "fills" \in DOMAIN desk /\ "raised" \in DOMAIN desk
    BY <1>2 DEF EntrySound, Sane
  <2>2. desk' = e
    BY <1>1 DEF Recorded
  <2> HIDE DEF row
  <2> QED
    BY <2>1, <2>2
<1>4. EntrySound(desk', intent')
  BY <1>1, <1>2, <1>3 DEF EntrySound, Sane, FillsWhole, OnlyEntry
<1>5. Fresh \subseteq DOMAIN desk'.fills
  BY <1>3 DEF Fresh
<1> QED
  BY <1>1, <1>2, <1>4, <1>5 DEF EntryAt

LEMMA TwoFlags ==
  ASSUME NEW h, "applied" \in DOMAIN h, "failed" \in DOMAIN h, NEW a, NEW b
  PROVE  LET r == [h EXCEPT !.applied = a, !.failed = b]
         IN  r.applied = a /\ r.failed = b /\ "applied" \in DOMAIN r /\ "failed" \in DOMAIN r
OBVIOUS

LEMMA EntryTold ==
  ASSUME EntryAt(desk, intent, pc, todo), NEW f \in todo, OnFill(f)
  PROVE  EntryAt(desk', intent', pc', todo')
<1> DEFINE outcome == Outcome(desk, intent, desk.fills[f])
           told == [intent EXCEPT !.applied = outcome = "opened", !.failed = outcome = "failed"]
<1>1. /\ ~desk.raised /\ pc \in {"told", "done"} /\ pc' = pc /\ todo' = todo \ {f}
      /\ desk' = IF outcome = "failed" THEN RolledBack(desk, intent) ELSE desk
      /\ intent' = IF outcome = "none" THEN intent ELSE told
  BY Zenon DEF OnFill
<1>2. /\ EntrySound(desk, intent) /\ "applied" \in DOMAIN intent /\ "failed" \in DOMAIN intent
      /\ todo \subseteq DOMAIN desk.fills
  BY <1>1 DEF EntryAt
<1>3. /\ told.applied = (outcome = "opened") /\ told.failed = (outcome = "failed")
      /\ "applied" \in DOMAIN told /\ "failed" \in DOMAIN told
  <2> DEFINE a == outcome = "opened"
             b == outcome = "failed"
  <2> HIDE DEF a, b
  <2>1. LET r == [intent EXCEPT !.applied = a, !.failed = b]
        IN  r.applied = a /\ r.failed = b /\ "applied" \in DOMAIN r /\ "failed" \in DOMAIN r
    BY <1>2, TwoFlags
  <2> QED
    BY Zenon, <2>1 DEF a, b
<1> HIDE DEF told
<1>4. outcome # "none" => EntrySound(desk, told)
  <2>1. f \in DOMAIN desk.fills
    BY <1>2
  <2>2. (outcome = "opened" => told.applied) /\ (outcome = "failed" => told.failed)
    BY <1>3
  <2> SUFFICES ASSUME outcome # "none" PROVE EntrySound(desk, told)
    OBVIOUS
  <2>3. outcome = Outcome(desk, intent, desk.fills[f])
    OBVIOUS
  <2> HIDE DEF outcome
  <2> QED
    BY <1>2, <2>1, <2>2, <2>3, SoundWhenTold
<1> HIDE DEF outcome
<1>5. EntrySound(desk, intent') /\ "applied" \in DOMAIN intent' /\ "failed" \in DOMAIN intent'
  BY <1>1, <1>2, <1>3, <1>4
<1>6. Grown(desk, desk', FALSE)
  <2>1. Sane(desk)
    BY <1>2 DEF EntrySound
  <2>2. desk' = desk \/ desk' = Flatten(desk)
    BY <1>1 DEF RolledBack
  <2> QED
    BY <2>1, <2>2, GrownSame, FlattenGrows
<1>7. EntrySound(desk', intent')
  BY <1>5, <1>6, SoundWhenGrown
<1>8. todo' \subseteq DOMAIN desk'.fills
  BY <1>1, <1>2, <1>6 DEF Grown
<1> QED
  BY <1>1, <1>5, <1>7, <1>8 DEF EntryAt

LEMMA EntryFlags ==
  ASSUME NEW e, NEW p
  PROVE  "applied" \in DOMAIN EnterPair(e, p).intent /\ "failed" \in DOMAIN EnterPair(e, p).intent
<1> DEFINE sold == Submit(e, p[2], "SELL", LegSize(e, p[2]), TRUE)
           both == Submit(sold, p[1], "BUY", LegSize(e, p[1]), TRUE)
           short == Len(e.orders) + 1
           long == short + 1
           made == [pair |-> p, long |-> long, short |-> short, applied |-> FALSE,
                    failed |-> ~Awaiting(both.orders[long], both.orders[short])]
<1>1. EnterPair(e, p).intent \in {NoIntent, made}
  BY Zenon DEF EnterPair
<1>2. "applied" \in DOMAIN made /\ "failed" \in DOMAIN made
  BY Zenon
<1>3. "applied" \in DOMAIN NoIntent /\ "failed" \in DOMAIN NoIntent
  BY DEF NoIntent
<1> HIDE DEF made
<1> QED
  BY <1>1, <1>2, <1>3

LEMMA EntryDecided ==
  ASSUME EntryAt(desk, intent, pc, todo), setup.name \in Pairs, Decide, LegsWholeIn(desk')
  PROVE  EntryAt(desk', intent', pc', todo')
<1>1. ~desk.raised /\ pc = "told" /\ DecidePair /\ pc' = "done" /\ todo' \subseteq DOMAIN desk'.fills
  BY DEF Decide, DecideSingle
<1>2. /\ EntrySound(desk, intent) /\ Sane(desk)
      /\ "applied" \in DOMAIN intent /\ "failed" \in DOMAIN intent
  BY <1>1 DEF EntryAt, EntrySound
<1>3. EntrySound(Flatten(desk), intent)
  BY <1>2, FlattenGrows, SoundWhenGrown
<1>4. SUFFICES ASSUME ~desk'.raised
               PROVE  EntrySound(desk', intent') /\ "applied" \in DOMAIN intent' /\ "failed" \in DOMAIN intent'
  BY <1>1 DEF EntryAt
<1>5. CASE intent' = intent /\ (desk' = desk \/ desk' = Flatten(desk))
  BY <1>2, <1>3, <1>5
<1>6. CASE Target # NoPair /\ desk' = Rebalance.desk /\ intent' = Rebalance.intent
  <2> DEFINE d == Flatten(desk)
             pair == Target
             r == OpenPair(d, intent, pair)
  <2>1. \/ r.intent = intent
        \/ "applied" \in DOMAIN r.intent /\ "failed" \in DOMAIN r.intent
    <3>1. r.intent = intent \/ \E e, p : r.intent = EnterPair(e, p).intent
      BY DEF OpenPair
    <3>2. ASSUME NEW e, NEW p
          PROVE  "applied" \in DOMAIN EnterPair(e, p).intent /\ "failed" \in DOMAIN EnterPair(e, p).intent
      BY EntryFlags
    <3> HIDE DEF r
    <3>3. ASSUME NEW e, NEW p, r.intent = EnterPair(e, p).intent
          PROVE  "applied" \in DOMAIN r.intent /\ "failed" \in DOMAIN r.intent
      BY Zenon, <3>2, <3>3
    <3> QED
      BY Zenon, <3>1, <3>3
  <2>2. r = Rebalance
    BY DEF Rebalance
  <2>3. EntrySound(d, intent) /\ pair # NoPair
    BY <1>3, <1>6
  <2> HIDE DEF d, pair
  <2>4. r.desk = desk' /\ r.intent = intent'
    BY <1>6, <2>2
  <2>5. EntrySound(r.desk, r.intent)
    <3>1. ~r.desk.raised /\ LegsWholeIn(r.desk)
      BY <1>4, <2>4
    <3> QED
      BY <2>3, <3>1, SoundWhenOpened
  <2> HIDE DEF r
  <2> QED
    BY <1>2, <2>1, <2>4, <2>5
<1> QED
  BY <1>1, <1>5, <1>6 DEF DecidePair, ExitPair

\* Every step of every actor keeps the entry sound, as long as no leg it leaves
\* is filled in part.
LEMMA EntryStep == EntryInv /\ [Next]_vars /\ LegsWhole' => EntryInv'
<1> SUFFICES ASSUME EntryInv, [Next]_vars, LegsWholeIn(desk'), setup'.name \in Pairs
             PROVE  EntryAt(desk', intent', pc', todo')
  BY DEF EntryInv, LegsWhole
<1>1. CASE \E reset \in BOOLEAN : Start(reset)
  BY <1>1, EntryStarts
<1> SUFFICES ASSUME setup' = setup
             PROVE  EntryAt(desk', intent', pc', todo')
  BY <1>1 DEF Next, vars, Process, Settle, Match, EndMatch, OnFill, Decide, EndEvent, Truncate, Save, Stop
<1>2. EntryAt(desk, intent, pc, todo) /\ setup.name \in Pairs
  BY DEF EntryInv
<1>3. CASE \E snap \in Snapshots, gap \in Gaps : Process(snap, gap)
  BY <1>2, <1>3, EntryProcessed
<1>4. CASE Settle
  BY <1>2, <1>4, EntrySettled
<1>5. CASE \E i \in todo : Match(i)
  BY <1>2, <1>5, EntryMatched
<1>6. CASE EndMatch
  BY <1>2, <1>6, EntryMatchEnds
<1>7. CASE \E f \in todo : OnFill(f)
  BY <1>2, <1>7, EntryTold
<1>8. CASE Decide
  BY <1>2, <1>8, EntryDecided
<1>9. CASE EndEvent
  BY <1>2, <1>9 DEF EntryAt, EndEvent
<1>10. CASE Truncate
  BY <1>2, <1>10 DEF EntryAt, Truncate
<1>11. CASE Save
  BY <1>2, <1>11 DEF EntryAt, Save
<1>12. CASE Stop
  BY <1>2, <1>12 DEF EntryAt, Stop
<1>13. CASE UNCHANGED vars
  BY <1>2, <1>13 DEF EntryAt, vars
<1> QED
  BY <1>1, <1>3, <1>4, <1>5, <1>6, <1>7, <1>8, <1>9, <1>10, <1>11, <1>12, <1>13 DEF Next

\* However long orders wait and however runs end, no leg of an entry is in the
\* market but those of the entry the strategy would still act on (strategies/
\* pairs.py, open_pair, consume_pair_fill and flatten_positions), as long as
\* every leg fills whole: what is left of a leg filled in part stays in the
\* market when the other leg dies.
THEOREM OneEntryInFlightHolds == Spec /\ []LegsWhole => []OneEntryInFlight
<1>1. Init => EntryInv
  BY EntryInit
<1>2. EntryInv /\ [Next]_vars /\ LegsWhole' => EntryInv'
  BY EntryStep
<1>3. EntryInv => OneEntryInFlight
  BY DEF EntryInv, EntryAt, EntrySound, OnlyEntry, OneEntryInFlight
<1> QED
  BY <1>1, <1>2, <1>3, PTL DEF Spec

----------------------------------------------------------------------------
(* Sums over the symbols *)

\* What holds of every value holds of the sums.
LEMMA SumTogether ==
  ASSUME NEW S, IsFiniteSet(S), NEW a, NEW b, NEW c, NEW d, NEW m,
         \A x \in S : /\ a[x] \in Int /\ b[x] \in Int /\ c[x] \in Int /\ d[x] \in Int /\ m[x] \in Int
                      /\ a[x] + b[x] = c[x] + d[x] + Parts * m[x]
  PROVE  SumFunctionOnSet(a, S) + SumFunctionOnSet(b, S)
           = SumFunctionOnSet(c, S) + SumFunctionOnSet(d, S) + Parts * SumFunctionOnSet(m, S)
<1> DEFINE Sum(f, T) == SumFunctionOnSet(f, T)
           Good == {T \in SUBSET S : Sum(a, T) + Sum(b, T) = Sum(c, T) + Sum(d, T) + Parts * Sum(m, T)}
<1>1. ASSUME NEW T \in SUBSET S, \A U \in SUBSET T : U # T => U \in Good
      PROVE  T \in Good
  <2>0. IsFiniteSet(T)
    BY FS_Subset
  <2>1. CASE T = {}
    <3>1. \A f : Sum(f, T) = 0
      BY <2>1, SumEmpty
    <3> HIDE DEF Sum
    <3>2. Sum(a, T) + Sum(b, T) = Sum(c, T) + Sum(d, T) + Parts * Sum(m, T)
      BY <3>1 DEF Parts
    <3> QED
      BY <3>2
  <2>2. CASE T # {}
    <3> DEFINE x == SomeOf(T)
               W == T \ {x}
    <3>1. x \in T /\ x \in S /\ W \in Good
      BY <1>1, <2>2, SomeOfIn
    <3>2. \A f : Sum(f, T) = f[x] + Sum(f, W)
      BY <2>0, <2>2, SumStep
    <3>3. IsFiniteSet(W) /\ W \subseteq S
      BY <2>0, FS_Subset
    <3>4. /\ Sum(a, W) \in Int /\ Sum(b, W) \in Int /\ Sum(c, W) \in Int /\ Sum(d, W) \in Int
          /\ Sum(m, W) \in Int
      BY <3>3, SumInt
    <3>5. Sum(a, W) + Sum(b, W) = Sum(c, W) + Sum(d, W) + Parts * Sum(m, W)
      BY <3>1
    <3>6. /\ a[x] \in Int /\ b[x] \in Int /\ c[x] \in Int /\ d[x] \in Int /\ m[x] \in Int
          /\ a[x] + b[x] = c[x] + d[x] + Parts * m[x]
      BY <3>1
    <3> HIDE DEF x, W, Sum
    <3>7. Sum(a, T) + Sum(b, T) = Sum(c, T) + Sum(d, T) + Parts * Sum(m, T)
      BY <3>2, <3>4, <3>5, <3>6 DEF Parts
    <3> QED
      BY <3>7
  <2> QED
    BY <2>1, <2>2
<1>2. S \in Good
  <2> HIDE DEF Good
  <2> QED
    BY <1>1, SubsetInduction
<1> QED
  BY <1>2

----------------------------------------------------------------------------
(* The books of a position *)

Holding == [qty : Int, average : Int, realized : Int, rounded : Int]

\* What a position has brought in so far: what it realized less what it cost,
\* and less what the averages were rounded by.
Brought(h) == h.realized - h.average * h.qty - h.rounded

\* Products of integers distribute over sums and differences.
LEMMA Products == \A a, b, c \in Int : /\ a * (b + c) = a * b + a * c /\ a * (b - c) = a * b - a * c
                                     /\ (b + c) * a = b * a + c * a /\ (b - c) * a = b * a - c * a
                                     /\ a * b \in Int /\ a * b = b * a /\ a * (-b) = -(a * b) /\ (-a) * b = -(a * b)
OBVIOUS

\* A fill brings in what it was sold for, or costs what it was bought for.
LEMMA TradeBrings ==
  ASSUME NEW h \in Holding, NEW side, NEW n \in Nat \ {0}, NEW price \in Int
  PROVE  LET after == AfterTrade(h, side, n, price)
         IN  /\ after \in Holding /\ after.qty = PositionAfter(side, h.qty, n)
             /\ Brought(after) = IF side = "BUY" THEN Brought(h) - Parts * (n * price)
                                 ELSE Brought(h) + Parts * (n * price)
<1> DEFINE q == h.qty
           v == h.average
           w == Parts * price
           p == PositionAfter(side, q, n)
           sign == IF side = "BUY" THEN 1 ELSE -1
           paid == Abs(q) * v + n * Parts * price
           a == AfterTrade(h, side, n, price)
<1>1. q \in Int /\ v \in Int /\ w \in Int /\ h.realized \in Int /\ h.rounded \in Int /\ h \in [qty : Int, average : Int, realized : Int, rounded : Int]
  BY DEF Holding, Parts
<1>2. p \in Int /\ p = (IF side = "BUY" THEN q + n ELSE q - n)
  BY <1>1 DEF PositionAfter
<1>3. n * Parts * price = n * w /\ Parts * (n * price) = n * w /\ n * w \in Int
  BY DEF Parts
<1>4. CASE q = 0 \/ SameSign(q, p - q)
  <2> DEFINE r == paid % Abs(p)
             avg == paid \div Abs(p)
             left == IF p > 0 THEN r ELSE -r
  <2>1. p # 0 /\ Abs(p) \in Nat \ {0} /\ Abs(q) \in Nat
        /\ (p > 0 <=> side = "BUY") /\ (side = "BUY" => q >= 0) /\ (side # "BUY" => q <= 0)
    BY <1>1, <1>2, <1>4 DEF SameSign, Abs
  <2>2. paid \in Int /\ paid = Abs(q) * v + n * w
    <3>1. Abs(q) * v \in Int
      BY <1>1, <2>1
    <3> QED
      BY <1>3, <3>1
  <2>3. a = [qty |-> p, average |-> avg, realized |-> h.realized, rounded |-> h.rounded + left]
    BY <1>4 DEF AfterTrade
  <2> HIDE DEF paid, p
  <2>4. r \in Int /\ avg \in Int /\ paid = Abs(p) * avg + r
    BY <2>1, <2>2
  <2> HIDE DEF r, avg
  <2>0. left \in Int
    BY <1>2, <2>4
  <2> HIDE DEF left, a
  <2>5. a.qty = p /\ a.average = avg /\ a.realized = h.realized
        /\ a.rounded = h.rounded + left /\ a \in Holding
    <3> HIDE DEF q, v, w
    <3> QED
      BY <1>1, <1>2, <2>0, <2>3, <2>4 DEF Holding
  <2> HIDE DEF a, q, v, w
  <2>6. CASE side = "BUY"
    <3>1. Abs(p) = p /\ Abs(q) = q /\ p > 0
      BY <1>1, <1>2, <2>1, <2>6 DEF Abs
    <3>2. p * avg = q * v + n * w - r
      BY <1>1, <1>2, <1>3, <2>2, <2>4, <3>1
    <3>3. avg * p = p * avg /\ v * q = q * v /\ p * avg \in Int /\ q * v \in Int
      BY <1>1, <1>2, <2>4
    <3>4. Brought(a) = h.realized - avg * p - (h.rounded + r)
      BY <2>5, <3>1 DEF Brought, left
    <3>5. Brought(h) = h.realized - v * q - h.rounded
      BY DEF Brought, q, v
    <3>6. Brought(a) = Brought(h) - n * w
      BY <1>1, <1>3, <2>4, <3>2, <3>3, <3>4, <3>5
    <3> QED
      BY <1>3, <2>5, <2>6, <3>6 DEF a, p, q
  <2>7. CASE side # "BUY"
    <3>1. Abs(p) = -p /\ Abs(q) = -q /\ ~(p > 0)
      BY <1>1, <1>2, <2>1, <2>7 DEF Abs
    <3>2. (-p) * avg = (-q) * v + n * w - r
      BY <1>1, <1>2, <1>3, <2>2, <2>4, <3>1
    <3>3. (-p) * avg = -(avg * p) /\ (-q) * v = -(v * q) /\ avg * p \in Int /\ v * q \in Int
      BY <1>1, <1>2, <2>4, Products
    <3>4. Brought(a) = h.realized - avg * p - (h.rounded + -r)
      BY <2>5, <3>1 DEF Brought, left
    <3>5. Brought(h) = h.realized - v * q - h.rounded
      BY DEF Brought, q, v
    <3>6. Brought(a) = Brought(h) + n * w
      BY <1>1, <1>3, <2>4, <3>2, <3>3, <3>4, <3>5
    <3> QED
      BY <1>3, <2>5, <2>7, <3>6 DEF a, p, q
  <2> QED
    BY <2>6, <2>7
<1>5. CASE ~(q = 0 \/ SameSign(q, p - q))
  <2> DEFINE least == Least(Abs(q), n)
             gain == least * (w - v)
             profit == IF q > 0 THEN gain ELSE -gain
             avg == IF p = 0 THEN 0 ELSE IF TurnsOver(q, p) THEN w ELSE v
  <2>1. a = [qty |-> p, average |-> avg,
             realized |-> h.realized + profit, rounded |-> h.rounded]
    BY <1>5 DEF AfterTrade
  <2>2. q # 0 /\ (side = "BUY" <=> q < 0)
    BY <1>1, <1>2, <1>5 DEF SameSign
  <2>3. least \in Nat /\ least = (IF q > 0 THEN (IF q < n THEN q ELSE n) ELSE (IF -q < n THEN -q ELSE n))
    BY <1>1, <2>2 DEF Least, Abs
  <2>4. gain \in Int /\ avg \in Int /\ gain = least * w - least * v
    <3>1. least \in Int
      BY <2>3
    <3> HIDE DEF least, w, v
    <3> QED
      BY <1>1, <3>1, Products
  <2>5. TurnsOver(q, p) <=> (q > 0 /\ p <= 0) \/ (q < 0 /\ p > 0)
    BY <1>1, <1>2, <2>2 DEF TurnsOver, SameSign
  <2> HIDE DEF gain
  <2>6. a.qty = p /\ a.average = avg /\ a.rounded = h.rounded
        /\ a.realized = h.realized + profit /\ a \in Holding
    <3>1. profit \in Int
      BY <2>4
    <3> HIDE DEF avg, p, q, profit
    <3> QED
      BY <1>1, <1>2, <2>1, <2>4, <3>1 DEF Holding
  <2>7. Brought(a) = h.realized + profit - avg * p - h.rounded
    <3> HIDE DEF a, avg, p, q, profit
    <3>1. Brought(a) = a.realized - a.average * a.qty - a.rounded
      BY DEF Brought
    <3>2. a.average * a.qty = avg * p
      BY <2>6
    <3>3. Brought(a) = (h.realized + profit) - (avg * p) - h.rounded
      BY <2>6, <3>1, <3>2
    <3>4. profit \in Int /\ avg * p \in Int
      <4>1. profit \in Int
        BY <2>4 DEF profit
      <4> QED
        BY <1>2, <2>4, <4>1, Products
    <3> DEFINE x == avg * p
    <3> HIDE DEF x
    <3> QED
      BY <1>1, <3>3, <3>4 DEF x
  <2> HIDE DEF a, q, v, w, p, profit
  <2>8. Brought(h) = h.realized - v * q - h.rounded
    BY DEF Brought, q, v
  <2>9. profit - avg * p + v * q = (IF side = "BUY" THEN -(n * w) ELSE n * w)
    <3>1. v * n \in Int /\ v * q \in Int /\ w * n \in Int /\ w * q \in Int /\ n * w = w * n
      BY <1>1, Products
    <3>2. CASE q > 0 /\ n <= q
      <4>1. least = n /\ p = q - n /\ side # "BUY" /\ avg * p = v * q - v * n
        <5>1. least = n /\ p = q - n /\ side # "BUY"
          BY <1>1, <1>2, <2>2, <2>3, <3>2
        <5>2. CASE p = 0
          <6>1. q = n /\ avg = 0
            BY <1>1, <3>2, <5>1, <5>2
          <6>2. avg * p = 0 /\ v * n = v * q
            BY <5>2, <6>1
          <6> HIDE DEF avg, least
          <6> QED
            BY <3>1, <5>1, <6>2
        <5>3. CASE p # 0
          <6>1. avg = v
            BY <1>1, <1>2, <2>5, <3>2, <5>1, <5>3
          <6> QED
            BY <1>1, <5>1, <6>1, Products
        <5> QED
          BY <5>1, <5>2, <5>3
      <4>2. gain = n * w - n * v /\ n * v = v * n
        BY <1>1, <2>4, <4>1
      <4>3. profit = gain
        BY <3>2 DEF profit
      <4> HIDE DEF avg, least
      <4> QED
        BY <2>4, <3>1, <4>1, <4>2, <4>3
    <3>3. CASE q > 0 /\ n > q
      <4>1. least = q /\ p = q - n /\ p < 0 /\ side # "BUY"
        BY <1>1, <1>2, <2>2, <2>3, <3>3
      <4>2. avg = w
        BY <1>1, <2>5, <3>3, <4>1
      <4>3. avg * p = w * q - w * n /\ q * w = w * q /\ q * v = v * q
        BY <1>1, <4>1, <4>2, Products
      <4>4. profit = gain
        BY <3>3 DEF profit
      <4>5. gain = q * w - q * v
        BY <2>4, <4>1
      <4> HIDE DEF avg, least
      <4> QED
        BY <2>4, <3>1, <4>1, <4>3, <4>4, <4>5
    <3>4. CASE q < 0 /\ n <= -q
      <4>1. least = n /\ p = q + n /\ side = "BUY"
        BY <1>1, <1>2, <2>2, <2>3, <3>4
      <4>2. avg * p = v * q + v * n
        <5>2. CASE p = 0
          <6>1. q = -n /\ avg = 0
            BY <1>1, <3>4, <4>1, <5>2
          <6>2. v * q = -(v * n)
            BY <1>1, <6>1, Products
          <6> QED
            BY <3>1, <5>2, <6>1, <6>2
        <5>3. CASE p # 0
          <6>1. avg = v
            BY <1>1, <1>2, <2>5, <3>4, <4>1, <5>3
          <6> QED
            BY <1>1, <4>1, <6>1, Products
        <5> QED
          BY <5>2, <5>3
      <4>3. gain = n * w - n * v /\ n * v = v * n
        BY <1>1, <2>4, <4>1
      <4>4. profit = -gain
        BY <1>1, <3>4 DEF profit
      <4> HIDE DEF avg, least
      <4> QED
        BY <2>4, <3>1, <4>1, <4>2, <4>3, <4>4
    <3>5. CASE q < 0 /\ n > -q
      <4>1. least = -q /\ p = q + n /\ p > 0 /\ side = "BUY"
        BY <1>1, <1>2, <2>2, <2>3, <3>5
      <4>2. avg = w
        BY <1>1, <2>5, <3>5, <4>1
      <4>3. avg * p = w * q + w * n /\ (-q) * w = -(w * q) /\ (-q) * v = -(v * q)
        BY <1>1, <4>1, <4>2, Products
      <4>4. gain = (-q) * w - (-q) * v
        BY <2>4, <4>1
      <4>5. profit = -gain
        BY <1>1, <3>5 DEF profit
      <4> HIDE DEF avg, least
      <4> QED
        BY <2>4, <3>1, <4>1, <4>3, <4>4, <4>5
    <3> QED
      BY <1>1, <2>2, <3>2, <3>3, <3>4, <3>5
  <2>10. v * q \in Int /\ avg * p \in Int
    BY <1>1, <1>2, <2>4, Products
  <2>12. profit \in Int
    BY <2>4 DEF profit
  <2>11. Brought(a) = IF side = "BUY" THEN Brought(h) - n * w ELSE Brought(h) + n * w
    <3> DEFINE x == avg * p
               y == v * q
               z == n * w
    <3>1. Brought(a) = h.realized + profit - x - h.rounded
      BY <2>7
    <3>2. Brought(h) = h.realized - y - h.rounded
      BY <2>8
    <3>3. profit - x + y = (IF side = "BUY" THEN -z ELSE z)
      BY <2>9
    <3>4. x \in Int /\ y \in Int /\ z \in Int /\ h.realized \in Int /\ h.rounded \in Int
      BY <1>1, <1>3, <2>10
    <3> HIDE DEF x, y
    <3>5. Brought(a) = IF side = "BUY" THEN Brought(h) - z ELSE Brought(h) + z
      <4> HIDE DEF z, avg, least
      <4>1. CASE side = "BUY"
        BY <2>12, <3>1, <3>2, <3>3, <3>4, <4>1
      <4>2. CASE side # "BUY"
        BY <2>12, <3>1, <3>2, <3>3, <3>4, <4>2
      <4> QED
        BY <4>1, <4>2
    <3> QED
      BY <3>5
  <2> QED
    BY <1>3, <2>6, <2>11 DEF a, p, q
<1> QED
  BY <1>4, <1>5

----------------------------------------------------------------------------
(* The books of a desk *)

Accounted(d) ==
  /\ {"orders", "fills", "cash", "fees", "holdings", "book", "curve", "market", "terms", "raised"}
       \subseteq DOMAIN d
  /\ Listed(d.orders) /\ Listed(d.curve)
  /\ \A i \in DOMAIN d.orders :
       /\ {"symbol", "qty", "filled", "status"} \subseteq DOMAIN d.orders[i]
       /\ d.orders[i].symbol \in Symbols /\ d.orders[i].qty \in Int /\ d.orders[i].filled \in Int
  /\ d.cash \in Int /\ d.fees \in Int
  /\ d.holdings \in [Symbols -> Holding] /\ d.book \in [Symbols -> Nat \cup {NoRow}]
  /\ DOMAIN d.market \subseteq Symbols /\ \A s \in DOMAIN d.market : d.market[s].last \in Nat
  /\ d.terms.policy.quantum \in Nat \ {0}

\* What the positions brought in, less what the account paid for them: what it
\* began with, whatever it trades.
Cost(d) == Total([s \in Symbols |-> Brought(d.holdings[s])]) - Parts * (d.cash + d.fees)

\* What the account would be worth had it paid no fees.
Worth(d) == Equity(d) + d.fees

\* From d to e the account trades at the marks, or does nothing.
Books(d, e) ==
  /\ Accounted(e) /\ e.book = d.book /\ e.market = d.market /\ e.terms = d.terms /\ e.curve = d.curve
  /\ Cost(e) = Cost(d) /\ Worth(e) <= Worth(d) /\ (Slip = 0 => Worth(e) = Worth(d))

LEMMA SymbolsFinite == IsFiniteSet(Symbols)
  BY SignalAssumption

LEMMA EquityIs ==
  ASSUME NEW d, Accounted(d)
  PROVE  /\ Equity(d) = d.cash + Total([s \in Symbols |-> MarketValue(d.holdings[s], d.book[s])])
         /\ \A s \in Symbols : MarketValue(d.holdings[s], d.book[s]) \in Int
         /\ \A s \in Symbols : Brought(d.holdings[s]) \in Int
         /\ Equity(d) \in Int /\ Worth(d) \in Int /\ Cost(d) \in Int
<1> DEFINE f == [s \in Symbols |-> MarketValue(d.holdings[s], d.book[s])]
           g == [s \in Symbols |-> Brought(d.holdings[s])]
<1>1. DOMAIN d.holdings = Symbols /\ d.cash \in Int /\ d.fees \in Int
  BY DEF Accounted
<1>2. ASSUME NEW s \in Symbols
      PROVE  f[s] \in Int /\ g[s] \in Int
  <2>1. d.holdings[s] \in Holding /\ d.book[s] \in Int
    BY DEF Accounted, NoRow
  <2>2. /\ d.holdings[s].qty \in Int /\ d.holdings[s].average \in Int
        /\ d.holdings[s].realized \in Int /\ d.holdings[s].rounded \in Int
    BY <2>1 DEF Holding
  <2>3. d.holdings[s].qty * d.book[s] \in Int /\ d.holdings[s].average * d.holdings[s].qty \in Int
    BY <2>1, <2>2, Products
  <2> QED
    BY <2>2, <2>3 DEF MarketValue, Brought
<1>3. Total(f) \in Int /\ Total(g) \in Int
  <2>1. SumFunctionOnSet(f, Symbols) \in Int /\ SumFunctionOnSet(g, Symbols) \in Int
    <3> HIDE DEF f, g
    <3> QED
      BY <1>2, SymbolsFinite, SumInt
  <2>2. DOMAIN f = Symbols /\ DOMAIN g = Symbols
    OBVIOUS
  <2> HIDE DEF f, g
  <2> QED
    BY <2>1, <2>2, SumWhole DEF Total
<1>4. Equity(d) = d.cash + Total(f)
  BY <1>1 DEF Equity, Total
<1>5. Cost(d) = Total(g) - Parts * (d.cash + d.fees)
  BY DEF Cost
<1> HIDE DEF f, g
<1>6. Equity(d) \in Int /\ Worth(d) \in Int /\ Cost(d) \in Int
  BY <1>1, <1>3, <1>4, <1>5 DEF Worth, Parts
<1> QED
  BY <1>2, <1>4, <1>6 DEF f, g

LEMMA BooksSame ==
  ASSUME NEW d, Accounted(d)
  PROVE  Books(d, d)
<1>1. Worth(d) \in Int
  BY EquityIs
<1> QED
  BY <1>1 DEF Books

LEMMA BooksThrough ==
  ASSUME NEW d, NEW e, NEW f, Accounted(d), Books(d, e), Books(e, f)
  PROVE  Books(d, f)
<1>1. Worth(d) \in Int /\ Worth(e) \in Int /\ Worth(f) \in Int
  BY EquityIs DEF Books
<1> QED
  BY <1>1 DEF Books

\* Whatever becomes of the orders and the fills, the books are as they were.
LEMMA BooksOfOrders ==
  ASSUME NEW d, Accounted(d), NEW e,
         {"orders", "fills", "cash", "fees", "holdings", "book", "curve", "market", "terms", "raised"}
           \subseteq DOMAIN e,
         e.cash = d.cash, e.fees = d.fees, e.holdings = d.holdings, e.book = d.book, e.curve = d.curve,
         e.market = d.market, e.terms = d.terms,
         Listed(e.orders),
         \A i \in DOMAIN e.orders :
           /\ {"symbol", "qty", "filled", "status"} \subseteq DOMAIN e.orders[i]
           /\ e.orders[i].symbol \in Symbols /\ e.orders[i].qty \in Int /\ e.orders[i].filled \in Int
  PROVE  Books(d, e)
<1>1. Accounted(e)
  BY DEF Accounted
<1>2. Cost(e) = Cost(d) /\ Worth(e) = Worth(d)
  BY DEF Cost, Worth, Equity
<1>3. Worth(d) \in Int
  BY EquityIs
<1> QED
  BY <1>1, <1>2, <1>3 DEF Books

LEMMA FeeInt ==
  ASSUME NEW n \in Int, NEW price \in Int
  PROVE  FeeFor(n, price) \in Int
<1> DEFINE a == n * price * FeeNum
           b == FeeDen * MoneyQuantum
<1>1. n * price \in Int /\ FeeNum \in Int /\ FeeDen \in Nat \ {0} /\ MoneyQuantum \in Nat \ {0}
  BY FeeAssumption, Products
<1>2. a \in Int /\ b \in Nat \ {0}
  <2>1. \A x \in Int, y \in Int : x * y \in Int
    OBVIOUS
  <2>2. a \in Int
    BY <1>1, <2>1
  <2>3. \A x, y \in Nat \ {0} : x * y \in Nat \ {0}
    OBVIOUS
  <2> QED
    BY <1>1, <2>2, <2>3
<1> HIDE DEF a, b
<1>3. a \div b \in Int
  BY <1>2
<1>4. RoundHalfEven(a, b) \in Int
  BY <1>3 DEF RoundHalfEven
<1> QED
  BY <1>1, <1>4 DEF FeeFor, a, b


\* A fill at the mark moves as much into the position as it takes out of the
\* account, fee and slippage aside.
LEMMA BookedBooks ==
  ASSUME NEW d, Accounted(d), NEW s \in Symbols, NEW side, NEW n \in Nat \ {0}, d.book[s] > 0,
         ~Booked(d, s, side, n, ExecPrice(side, d.book[s])).raised, ~d.raised
  PROVE  LET e == Booked(d, s, side, n, ExecPrice(side, d.book[s]))
         IN  Books(d, e) /\ e.orders = d.orders /\ e.fills = d.fills
<1> DEFINE mark == d.book[s]
           price == ExecPrice(side, mark)
           fee == FeeFor(n, price)
           h == d.holdings[s]
           a == AfterTrade(h, side, n, price)
           e == Booked(d, s, side, n, price)
           bought == IF side = "BUY" THEN n ELSE -n
<1>1. /\ mark \in Int /\ mark > 0 /\ Slip \in Nat /\ h \in Holding /\ d.cash \in Int /\ d.fees \in Int
      /\ DOMAIN d.holdings = Symbols /\ Accounted(d)
  BY SlipAssumption DEF Accounted, NoRow
<1>2. price \in Int /\ price = (IF side = "BUY" THEN mark + Slip ELSE mark - Slip) /\ fee \in Int
  <2>1. price \in Int /\ price = (IF side = "BUY" THEN mark + Slip ELSE mark - Slip)
    BY <1>1 DEF ExecPrice
  <2>2. fee \in Int
    <3> HIDE DEF price
    <3>1. n \in Int
      OBVIOUS
    <3> QED
      BY <2>1, <3>1, FeeInt
  <2> QED
    BY <2>1, <2>2
<1>3. e = [d EXCEPT !.cash = CashAfter(side, d.cash, n, price), !.fees = @ + fee, !.holdings[s] = a]
  <2>1. e = IF CashAfter(side, d.cash, n, price) < 0 THEN [d EXCEPT !.raised = TRUE]
            ELSE [d EXCEPT !.cash = CashAfter(side, d.cash, n, price), !.fees = @ + fee, !.holdings[s] = a]
    BY DEF Booked
  <2>2. ~e.raised
    OBVIOUS
  <2>3. [d EXCEPT !.raised = TRUE].raised = TRUE
    BY DEF Accounted
  <2> HIDE DEF e, a, price, fee
  <2> QED
    BY <2>1, <2>2, <2>3
<1> HIDE DEF price, fee, mark, h
<1>4. /\ a \in Holding /\ a.qty = PositionAfter(side, h.qty, n)
      /\ Brought(a) = IF side = "BUY" THEN Brought(h) - Parts * (n * price)
                      ELSE Brought(h) + Parts * (n * price)
  BY <1>1, <1>2, TradeBrings
<1> HIDE DEF a, e
<1>5. /\ e.cash = CashAfter(side, d.cash, n, price) /\ e.fees = d.fees + fee
      /\ e.holdings = [d.holdings EXCEPT ![s] = a]
      /\ e.orders = d.orders /\ e.fills = d.fills /\ e.book = d.book /\ e.curve = d.curve
      /\ e.market = d.market /\ e.terms = d.terms /\ DOMAIN e = DOMAIN d
  BY <1>3 DEF Accounted
<1>6. e.cash = (IF side = "BUY" THEN d.cash - n * price - fee ELSE d.cash + n * price - fee)
      /\ n * price \in Int /\ e.cash \in Int /\ e.fees \in Int
  <2>1. n * price \in Int
    BY <1>2, Products
  <2> DEFINE z == n * price
  <2>2. CashAfter(side, d.cash, n, price) = (IF side = "BUY" THEN d.cash - z - fee ELSE d.cash + z - fee)
    BY DEF CashAfter, fee
  <2> HIDE DEF z
  <2> QED
    BY <1>1, <1>2, <1>5, <2>1, <2>2 DEF z
<1>7. /\ e.holdings \in [Symbols -> Holding] /\ e.holdings[s] = a
      /\ \A x \in Symbols : x # s => e.holdings[x] = d.holdings[x]
  BY <1>1, <1>4, <1>5 DEF Accounted
<1>8. Accounted(e)
  BY <1>1, <1>5, <1>6, <1>7 DEF Accounted
<1>9. Total([x \in Symbols |-> Brought(e.holdings[x])])
        = Total([x \in Symbols |-> Brought(d.holdings[x])]) + (Brought(a) - Brought(h))
      /\ Total([x \in Symbols |-> Brought(d.holdings[x])]) \in Int
      /\ Brought(a) \in Int /\ Brought(h) \in Int
  <2> DEFINE f == [x \in Symbols |-> Brought(d.holdings[x])]
             g == [x \in Symbols |-> Brought(e.holdings[x])]
  <2>1. /\ DOMAIN f = Symbols /\ DOMAIN g = Symbols
        /\ \A x \in Symbols : f[x] \in Int /\ g[x] \in Int
        /\ \A x \in Symbols : x # s => g[x] = f[x]
        /\ g[s] = Brought(a) /\ f[s] = Brought(h)
    BY <1>1, <1>7, <1>8, EquityIs DEF h
  <2> HIDE DEF f, g
  <2>2. SumFunction(f) \in Int /\ SumFunction(g) = SumFunction(f) + (g[s] - f[s])
    BY <2>1, SymbolsFinite, SumChange
  <2>3. g[s] = Brought(a) /\ f[s] = Brought(h) /\ f[s] \in Int /\ g[s] \in Int
    BY <2>1
  <2> QED
    BY <2>2, <2>3 DEF Total, f, g
<1>10. Cost(e) = Cost(d)
  <2> DEFINE S == Total([x \in Symbols |-> Brought(e.holdings[x])])
             T == Total([x \in Symbols |-> Brought(d.holdings[x])])
             z == n * price
  <2>1. Cost(e) = S - Parts * (e.cash + e.fees) /\ Cost(d) = T - Parts * (d.cash + d.fees)
    BY DEF Cost
  <2>2. S = T + (Brought(a) - Brought(h)) /\ T \in Int /\ Brought(a) \in Int /\ Brought(h) \in Int
    BY <1>9
  <2>3. z \in Int /\ Brought(a) = (IF side = "BUY" THEN Brought(h) - Parts * z ELSE Brought(h) + Parts * z)
    BY <1>4, <1>6
  <2>4. e.cash = (IF side = "BUY" THEN d.cash - z - fee ELSE d.cash + z - fee) /\ e.fees = d.fees + fee
    BY <1>5, <1>6
  <2> HIDE DEF S, T, z
  <2>5. CASE side = "BUY"
    BY <1>1, <1>2, <2>1, <2>2, <2>3, <2>4, <2>5 DEF Parts
  <2>6. CASE side # "BUY"
    BY <1>1, <1>2, <2>1, <2>2, <2>3, <2>4, <2>6 DEF Parts
  <2> QED
    BY <2>5, <2>6
<1>11. MarketValue(a, mark) = MarketValue(h, mark) + bought * mark /\ bought * mark \in Int
  <2>1. h.qty \in Int
    BY <1>1 DEF Holding
  <2>2. bought \in Int /\ a.qty = h.qty + bought
    BY <1>4, <2>1 DEF PositionAfter
  <2> HIDE DEF bought
  <2>3. (h.qty + bought) * mark = h.qty * mark + bought * mark /\ bought * mark \in Int
    BY <1>1, <2>1, <2>2, Products
  <2> QED
    BY <1>1, <2>2, <2>3 DEF MarketValue, Marked
<1>12. Equity(e) - e.cash = Equity(d) - d.cash + bought * mark
       /\ Equity(e) \in Int /\ Equity(d) \in Int
  <2> DEFINE f == [x \in Symbols |-> MarketValue(d.holdings[x], d.book[x])]
             g == [x \in Symbols |-> MarketValue(e.holdings[x], e.book[x])]
  <2>1. /\ DOMAIN f = Symbols /\ DOMAIN g = Symbols
        /\ \A x \in Symbols : f[x] \in Int /\ g[x] \in Int
        /\ \A x \in Symbols : x # s => g[x] = f[x]
        /\ g[s] = MarketValue(a, mark) /\ f[s] = MarketValue(h, mark)
    BY <1>1, <1>5, <1>7, <1>8, EquityIs DEF h, mark
  <2>2. Equity(e) = e.cash + Total(g) /\ Equity(d) = d.cash + Total(f) /\ Equity(e) \in Int /\ Equity(d) \in Int
    BY <1>1, <1>8, EquityIs
  <2> DEFINE moved == bought * mark
  <2> HIDE DEF f, g
  <2>3. SumFunction(f) \in Int /\ SumFunction(g) = SumFunction(f) + (g[s] - f[s])
    BY <2>1, SymbolsFinite, SumChange
  <2>4. g[s] = f[s] + moved /\ moved \in Int /\ f[s] \in Int /\ g[s] \in Int
    BY <1>11, <2>1
  <2> HIDE DEF moved, bought
  <2>5. Total(g) = Total(f) + moved /\ Total(f) \in Int
    BY <2>3, <2>4 DEF Total
  <2> QED
    BY <1>1, <1>6, <2>2, <2>4, <2>5 DEF moved
<1>13. Worth(e) = Worth(d) - n * Slip /\ n * Slip \in Nat /\ (Slip = 0 => n * Slip = 0)
  <2> DEFINE moved == bought * mark
             x == n * mark
             y == n * Slip
             z == n * price
  <2>1. x \in Int /\ y \in Int /\ z \in Int /\ y \in Nat /\ (Slip = 0 => y = 0)
    BY <1>1, <1>2, Products
  <2>2. moved = (IF side = "BUY" THEN x ELSE -x) /\ z = (IF side = "BUY" THEN x + y ELSE x - y)
    BY <1>1, <1>2, Products
  <2>3. Equity(e) - e.cash = Equity(d) - d.cash + moved /\ Equity(e) \in Int /\ Equity(d) \in Int
    BY <1>12
  <2>4. e.cash = (IF side = "BUY" THEN d.cash - z - fee ELSE d.cash + z - fee) /\ e.fees = d.fees + fee
    BY <1>5, <1>6
  <2> HIDE DEF moved, x, y, z, bought
  <2>5. Worth(e) = Worth(d) - y
    <3>1. CASE side = "BUY"
      BY <1>1, <1>2, <2>1, <2>2, <2>3, <2>4, <3>1 DEF Worth
    <3>2. CASE side # "BUY"
      BY <1>1, <1>2, <2>1, <2>2, <2>3, <2>4, <3>2 DEF Worth
    <3> QED
      BY <3>1, <3>2
  <2> QED
    BY <2>1, <2>5 DEF y
<1>14. Worth(d) \in Int
  BY EquityIs
<1>15. Worth(e) <= Worth(d) /\ (Slip = 0 => Worth(e) = Worth(d))
  <2> DEFINE y == n * Slip
  <2>1. Worth(e) = Worth(d) - y /\ y \in Nat /\ (Slip = 0 => y = 0)
    BY <1>13
  <2> HIDE DEF y
  <2> QED
    BY <1>14, <2>1
<1> QED
  BY <1>5, <1>8, <1>10, <1>15 DEF Books, e, price, mark

\* An order of the desk may be replaced by one for as much of the same symbol.
LEMMA OrderReplaced ==
  ASSUME NEW d, Accounted(d), NEW i, NEW r,
         i \in DOMAIN d.orders => /\ {"symbol", "qty", "filled", "status"} \subseteq DOMAIN r
                                  /\ r.symbol \in Symbols /\ r.qty \in Int /\ r.filled \in Int
  PROVE  Books(d, [d EXCEPT !.orders[i] = r])
<1> DEFINE e == [d EXCEPT !.orders[i] = r]
<1>1. /\ e.cash = d.cash /\ e.fees = d.fees /\ e.holdings = d.holdings /\ e.book = d.book
      /\ e.curve = d.curve /\ e.market = d.market /\ e.terms = d.terms /\ DOMAIN e = DOMAIN d
      /\ e.orders = [d.orders EXCEPT ![i] = r]
  BY DEF Accounted
<1>2. /\ Listed(e.orders) /\ DOMAIN e.orders = DOMAIN d.orders
      /\ \A j \in DOMAIN d.orders : e.orders[j] = IF j = i THEN r ELSE d.orders[j]
  BY <1>1, ListedExcept DEF Accounted
<1> HIDE DEF e
<1>3. \A j \in DOMAIN e.orders :
        /\ {"symbol", "qty", "filled", "status"} \subseteq DOMAIN e.orders[j]
        /\ e.orders[j].symbol \in Symbols /\ e.orders[j].qty \in Int /\ e.orders[j].filled \in Int
  <2> SUFFICES ASSUME NEW j \in DOMAIN e.orders
               PROVE  /\ {"symbol", "qty", "filled", "status"} \subseteq DOMAIN e.orders[j]
                      /\ e.orders[j].symbol \in Symbols /\ e.orders[j].qty \in Int /\ e.orders[j].filled \in Int
    OBVIOUS
  <2>1. CASE j = i
    BY <1>2, <2>1
  <2>2. CASE j # i
    <3>1. e.orders[j] = d.orders[j] /\ j \in DOMAIN d.orders
      BY <1>2, <2>2
    <3> QED
      BY <3>1 DEF Accounted
  <2> QED
    BY <2>1, <2>2
<1> QED
  BY <1>1, <1>2, <1>3, BooksOfOrders DEF Accounted, e

LEMMA RaisedBooks ==
  ASSUME NEW d, Accounted(d)
  PROVE  Books(d, [d EXCEPT !.raised = TRUE])
<1> DEFINE e == [d EXCEPT !.raised = TRUE]
<1>1. /\ e.cash = d.cash /\ e.fees = d.fees /\ e.holdings = d.holdings /\ e.book = d.book
      /\ e.curve = d.curve /\ e.market = d.market /\ e.terms = d.terms /\ DOMAIN e = DOMAIN d
      /\ e.orders = d.orders
  BY DEF Accounted
<1> HIDE DEF e
<1>2. Books(d, e)
  BY <1>1, BooksOfOrders DEF Accounted
<1> QED
  BY <1>2 DEF e

LEMMA FilledBooks ==
  ASSUME NEW d, Accounted(d), NEW i \in DOMAIN d.orders, NEW n \in Nat \ {0}, ~d.raised,
         d.book[d.orders[i].symbol] > 0
  PROVE  Books(d, Filled(d, i, n))
<1> DEFINE o == d.orders[i]
           s == o.symbol
           price == ExecPrice(o.side, d.book[s])
           b == Booked(d, s, o.side, n, price)
           r == AfterFill(o, n)
           made == [b EXCEPT !.orders[i] = r]
           e == [b EXCEPT !.orders[i] = r, !.fills = Append(@, [order |-> i, qty |-> n])]
           stuck == [d EXCEPT !.raised = TRUE]
<1>1. Filled(d, i, n) = IF price <= 0 THEN stuck ELSE IF b.raised THEN b ELSE e
  BY DEF Filled
<1>2. b.raised => b = stuck
  <2>1. b = stuck \/ b = [d EXCEPT !.cash = CashAfter(o.side, d.cash, n, price),
                                   !.fees = @ + FeeFor(n, price),
                                   !.holdings[s] = AfterTrade(@, o.side, n, price)]
    BY DEF Booked
  <2>2. [d EXCEPT !.cash = CashAfter(o.side, d.cash, n, price), !.fees = @ + FeeFor(n, price),
                  !.holdings[s] = AfterTrade(@, o.side, n, price)].raised = d.raised
    BY DEF Accounted
  <2> HIDE DEF b, stuck, price
  <2> QED
    BY <2>1, <2>2
<1>3. Books(d, stuck)
  BY RaisedBooks
<1>4. ASSUME ~b.raised PROVE Books(d, e)
  <2>1. s \in Symbols /\ o.qty \in Int /\ o.filled \in Int
        /\ {"symbol", "qty", "filled", "status"} \subseteq DOMAIN o
    BY DEF Accounted
  <2> DEFINE side == o.side
  <2> HIDE DEF side, s
  <2>2. Books(d, b) /\ b.orders = d.orders /\ b.fills = d.fills
    <3>1. ~Booked(d, s, side, n, ExecPrice(side, d.book[s])).raised
      BY <1>4 DEF side
    <3>2. d.book[s] > 0
      BY DEF s
    <3> QED
      BY <2>1, <3>1, <3>2, BookedBooks DEF side
  <2>3. /\ {"symbol", "qty", "filled", "status"} \subseteq DOMAIN r
        /\ r.symbol \in Symbols /\ r.qty \in Int /\ r.filled \in Int
    BY <2>1 DEF AfterFill, s
  <2> HIDE DEF b, r, o
  <2>4. Accounted(b)
    BY <2>2 DEF Books
  <2>5. Books(b, made)
    BY <2>3, <2>4, OrderReplaced
  <2>6. Books(made, e)
    <3>1. Accounted(made) /\ "orders" \in DOMAIN b
      BY <2>4, <2>5 DEF Books, Accounted
    <3>2. /\ e.cash = made.cash /\ e.fees = made.fees /\ e.holdings = made.holdings
          /\ e.book = made.book /\ e.curve = made.curve /\ e.market = made.market
          /\ e.terms = made.terms /\ DOMAIN e = DOMAIN made /\ e.orders = made.orders
      BY <2>4 DEF Accounted
    <3> HIDE DEF e, made
    <3> QED
      BY <3>1, <3>2, BooksOfOrders DEF Accounted
  <2> HIDE DEF e, made
  <2> QED
    BY <2>2, <2>4, <2>5, <2>6, BooksThrough
<1> HIDE DEF b, e, stuck, price
<1> QED
  BY <1>1, <1>2, <1>3, <1>4

LEMMA MatchedBooks ==
  ASSUME NEW d, Accounted(d), NEW i \in DOMAIN d.orders
  PROVE  Books(d, Matched(d, i))
<1> DEFINE o == d.orders[i]
           raw == d.book[o.symbol]
           sizes == Fillable(d, o)
           most == CHOOSE n \in sizes : \A m \in sizes : m <= n
           closed == [d EXCEPT !.orders[i] = AfterClose(o, TRUE)]
<1>1. o.symbol \in Symbols /\ o.qty \in Int /\ o.filled \in Int /\ raw \in Nat \cup {NoRow}
      /\ {"symbol", "qty", "filled", "status"} \subseteq DOMAIN o
  BY DEF Accounted
<1>2. Books(d, closed)
  <2>1. LET r == AfterClose(o, TRUE)
        IN  /\ {"symbol", "qty", "filled", "status"} \subseteq DOMAIN r
            /\ r.symbol \in Symbols /\ r.qty \in Int /\ r.filled \in Int
    BY <1>1 DEF AfterClose, AfterReject, AfterConfirmCancel, MoveTo
  <2> QED
    BY <2>1, OrderReplaced
<1>3. \/ Matched(d, i) \in {d, closed}
      \/ ~d.raised /\ raw > 0 /\ sizes # {} /\ Matched(d, i) = Filled(d, i, most)
  BY <1>1 DEF Matched, NoRow
<1>4. ASSUME sizes # {} PROVE most \in Nat \ {0}
  <2> DEFINE k == o.qty - o.filled
  <2>1. k \in Int /\ sizes \subseteq 1..k
    BY <1>1 DEF Fillable
  <2> HIDE DEF sizes, k
  <2>2. PICK any \in sizes : TRUE
    BY <1>4
  <2>3. k \in Nat
    BY <2>1, <2>2
  <2>4. 1..k \subseteq 0..k
    BY <2>3
  <2>5. PICK x \in sizes : \A y \in sizes : x >= y
    <3>1. sizes \in SUBSET (0..k)
      BY <2>1, <2>4
    <3> QED
      BY <1>4, <2>3, <3>1, GreatestExists
  <2>6. \A y \in sizes : y <= x
    BY <2>1, <2>5
  <2>7. most \in sizes
    BY <2>6
  <2> HIDE DEF most
  <2>8. most \in 1..k
    BY <2>1, <2>7
  <2> QED
    BY <2>3, <2>8
<1>5. Books(d, d)
  BY BooksSame
<1> HIDE DEF most, closed, sizes
<1>6. ASSUME ~d.raised, raw > 0, sizes # {} PROVE Books(d, Filled(d, i, most))
  BY <1>4, <1>6, FilledBooks
<1> QED
  BY <1>2, <1>3, <1>5, <1>6

LEMMA TranslatedInt ==
  ASSUME NEW d, Accounted(d), NEW s, NEW side, NEW qty \in Int
  PROVE  Translated(d, s, side, qty).qty \in Int
<1> DEFINE k == d.terms.policy.quantum
<1>1. k \in Nat \ {0}
  BY DEF Accounted
<1>2. (qty \div k) * k \in Int
  <2> HIDE DEF k
  <2>1. qty \div k \in Int
    BY <1>1
  <2> QED
    BY <1>1, <2>1, Products
<1> QED
  BY <1>2 DEF Translated, RoundQuantity

LEMMA SubmitBooks ==
  ASSUME NEW d, Accounted(d), NEW s \in Symbols, NEW side, NEW qty \in Int, NEW entry
  PROVE  Books(d, Submit(d, s, side, qty, entry))
<1> DEFINE n == Len(d.orders)
           to == Translated(d, s, side, qty)
           created == [symbol |-> s, side |-> side, type |-> to.type, limit |-> to.limit,
                       qty |-> to.qty, filled |-> 0, status |-> "CREATED", at |-> d.time,
                       active |-> d.time + d.terms.lag, entry |-> entry]
           due == d.terms.lag = 0
           o == IF due THEN AfterAccept(created) ELSE created
           p == [d EXCEPT !.orders = Append(@, o)]
           e == Submit(d, s, side, qty, entry)
           stuck == [d EXCEPT !.raised = TRUE]
<1>1. e = IF d.raised THEN d ELSE IF Raises(d, s, side, qty) THEN stuck
          ELSE IF due THEN Matched(p, Len(p.orders)) ELSE p
  BY DEF Submit
<1>2. /\ {"symbol", "qty", "filled", "status"} \subseteq DOMAIN o
      /\ o.symbol \in Symbols /\ o.qty \in Int /\ o.filled \in Int
  <2>1. to.qty \in Int
    BY TranslatedInt
  <2> HIDE DEF to
  <2> QED
    BY <2>1 DEF AfterAccept, MoveTo
<1> HIDE DEF o
<1>3. /\ p.cash = d.cash /\ p.fees = d.fees /\ p.holdings = d.holdings /\ p.book = d.book
      /\ p.curve = d.curve /\ p.market = d.market /\ p.terms = d.terms /\ DOMAIN p = DOMAIN d
      /\ p.orders = Append(d.orders, o)
  BY DEF Accounted
<1> HIDE DEF p, due
<1>4. n \in Nat /\ Listed(d.orders) /\ DOMAIN d.orders = 1..n
  BY ListedDomain DEF Accounted, Listed
<1>5. /\ Listed(p.orders) /\ Len(p.orders) = n + 1 /\ DOMAIN p.orders = 1..(n + 1)
      /\ p.orders[n + 1] = o /\ \A i \in 1..n : p.orders[i] = d.orders[i]
  BY <1>3, <1>4, ListedAppend
<1> HIDE DEF n
<1>6. n + 1 \in 1..(n + 1) /\ \A i \in 1..(n + 1) : i \in 1..n \/ i = n + 1
  BY <1>4
<1>7. \A i \in DOMAIN p.orders :
        /\ {"symbol", "qty", "filled", "status"} \subseteq DOMAIN p.orders[i]
        /\ p.orders[i].symbol \in Symbols /\ p.orders[i].qty \in Int /\ p.orders[i].filled \in Int
  <2>1. \A i \in 1..n : /\ {"symbol", "qty", "filled", "status"} \subseteq DOMAIN d.orders[i]
                        /\ d.orders[i].symbol \in Symbols /\ d.orders[i].qty \in Int /\ d.orders[i].filled \in Int
    BY <1>4 DEF Accounted
  <2> QED
    BY <1>2, <1>5, <1>6, <2>1
<1>8. Books(d, p)
  BY <1>3, <1>5, <1>7, BooksOfOrders DEF Accounted
<1> DEFINE m == Matched(p, n + 1)
<1>9. Books(d, m)
  <2>1. Books(p, m)
    <3>1. Accounted(p) /\ n + 1 \in DOMAIN p.orders
      BY <1>5, <1>6, <1>8 DEF Books
    <3> QED
      BY <3>1, MatchedBooks
  <2> HIDE DEF m
  <2> QED
    BY <1>8, <2>1, BooksThrough
<1>10. Books(d, stuck) /\ Books(d, d)
  BY RaisedBooks, BooksSame
<1> HIDE DEF stuck, e
<1>11. e \in {d, stuck, m, p}
  BY <1>1, <1>5
<1> HIDE DEF m
<1> QED
  BY <1>8, <1>9, <1>10, <1>11 DEF e

LEMMA SubmitEachBooks ==
  ASSUME NEW d, Accounted(d), NEW wanted, NEW entry, Len(wanted) \in Nat, 1..Len(wanted) = Symbols,
         \A s \in Symbols : wanted[s].qty \in Int
  PROVE  Books(d, SubmitEach(d, wanted, entry))
<1> DEFINE n == Len(wanted)
<1>1. PICK g : IsWalk(g, d, wanted, entry, n) /\ SubmitEach(d, wanted, entry) = g[n]
  BY SubmitEachWalk
<1>0. 1..n = Symbols
  OBVIOUS
<1> HIDE DEF n
<1>2. n \in Nat /\ n \in 0..n
  BY DEF n
<1> DEFINE Good == {s \in 0..n : Books(d, g[s])}
<1>3. g[0] = d /\ \A s \in 1..n : g[s] = IF wanted[s].qty = 0 THEN g[s - 1]
                                         ELSE Submit(g[s - 1], s, wanted[s].side, wanted[s].qty, entry)
  <2>1. 0 \in 0..n /\ \A s \in 1..n : s \in 0..n /\ s # 0
    BY <1>2
  <2> QED
    BY <1>1, <2>1 DEF IsWalk
<1>4. 0 \in Good
  BY <1>2, <1>3, BooksSame
<1>5. ASSUME NEW s \in 0..(n - 1), s \in Good PROVE s + 1 \in Good
  <2>1. s + 1 \in 1..n /\ s + 1 \in 0..n /\ s + 1 - 1 = s
    BY <1>2
  <2>2. Books(d, g[s]) /\ Accounted(g[s])
    BY <1>5 DEF Books
  <2>3. Books(g[s], g[s + 1])
    <3> DEFINE next == Submit(g[s], s + 1, wanted[s + 1].side, wanted[s + 1].qty, entry)
    <3>1. g[s + 1] = IF wanted[s + 1].qty = 0 THEN g[s] ELSE next
      BY <1>3, <2>1
    <3>2. s + 1 \in Symbols /\ wanted[s + 1].qty \in Int
      BY <1>0, <2>1
    <3>3. Books(g[s], next)
      BY <2>2, <3>2, SubmitBooks
    <3>4. Books(g[s], g[s])
      BY <2>2, BooksSame
    <3> HIDE DEF next
    <3> QED
      BY <3>1, <3>3, <3>4
  <2> QED
    BY <2>1, <2>2, <2>3, BooksThrough
<1>6. \A s \in 0..n : s \in Good
  <2> HIDE DEF Good
  <2> QED
    BY <1>2, <1>4, <1>5, CountInduction
<1> QED
  BY <1>1, <1>2, <1>6

\* What is wanted of every symbol is a list of them all.
LEMMA WantedEach ==
  ASSUME NEW wanted, DOMAIN wanted = Symbols, wanted = [s \in Symbols |-> wanted[s]]
  PROVE  Len(wanted) \in Nat /\ 1..Len(wanted) = Symbols
<1> DEFINE n == Cardinality(Symbols)
<1>1. n \in Nat /\ Symbols = 1..n
  BY SignalAssumption, FS_CardinalityType
<1> HIDE DEF n
<1>2. wanted = [s \in 1..n |-> wanted[s]]
  BY <1>1
<1>3. Len(wanted) = n
  BY <1>1, <1>2
<1> QED
  BY <1>1, <1>3

LEMMA FlattenBooks ==
  ASSUME NEW d, Accounted(d)
  PROVE  Books(d, Flatten(d))
<1> DEFINE wanted == [s \in Symbols |-> [side |-> Opposite(d, s), qty |-> Abs(Held(d, s))]]
<1>1. \A s \in Symbols : wanted[s].qty \in Int
  <2> SUFFICES ASSUME NEW s \in Symbols PROVE Abs(Held(d, s)) \in Int
    OBVIOUS
  <2>1. d.holdings[s].qty \in Int
    BY DEF Accounted, Holding
  <2> QED
    BY <2>1 DEF Abs, Held
<1>2. DOMAIN wanted = Symbols /\ wanted = [s \in Symbols |-> wanted[s]]
  OBVIOUS
<1> HIDE DEF wanted
<1>3. Len(wanted) \in Nat /\ 1..Len(wanted) = Symbols
  BY <1>2, WantedEach
<1>4. Books(d, SubmitEach(d, wanted, FALSE))
  BY <1>1, <1>3, SubmitEachBooks
<1> QED
  BY <1>4 DEF Flatten, wanted

LEMMA TradeSingleBooks ==
  ASSUME NEW d, Accounted(d), NEW name, NEW prices
  PROVE  Books(d, TradeSingle(name, prices, d))
<1> DEFINE Side(s) == IF s \in DOMAIN d.market
                      THEN SideOf(name, s, prices[s], d.market[s]) ELSE "NONE"
           wanted == [s \in Symbols |-> [side |-> Side(s),
                                         qty |-> IF Tradable(d, s, Side(s)) THEN Quantity ELSE 0]]
<1>1. \A s \in Symbols : wanted[s].qty \in Int
  <2> HIDE DEF Side
  <2> QED
    BY SingleAssumption
<1>2. DOMAIN wanted = Symbols /\ wanted = [s \in Symbols |-> wanted[s]]
  OBVIOUS
<1>3. TradeSingle(name, prices, d) = SubmitEach(d, wanted, TRUE)
  BY DEF TradeSingle
<1> HIDE DEF wanted
<1>4. Len(wanted) \in Nat /\ 1..Len(wanted) = Symbols
  BY <1>2, WantedEach
<1> QED
  BY <1>1, <1>3, <1>4, SubmitEachBooks

LEMMA CancelBooks ==
  ASSUME NEW d, Accounted(d), NEW i
  PROVE  Books(d, CancelLeg(d, i))
<1> DEFINE pending == AfterRequestCancel(d.orders[i])
           r == IF pending.status = "CANCEL_PENDING" THEN AfterConfirmCancel(pending) ELSE pending
<1>1. i \in DOMAIN d.orders => /\ {"symbol", "qty", "filled", "status"} \subseteq DOMAIN r
                               /\ r.symbol \in Symbols /\ r.qty \in Int /\ r.filled \in Int
  BY DEF Accounted, AfterRequestCancel, AfterConfirmCancel, MoveTo
<1>2. Cancelled(d, i) = [d EXCEPT !.orders[i] = r]
  BY DEF Cancelled
<1> HIDE DEF r
<1>3. Books(d, Cancelled(d, i))
  BY <1>1, <1>2, OrderReplaced
<1> QED
  BY <1>3, BooksSame DEF CancelLeg

LEMMA OpenPairBooks ==
  ASSUME NEW d, Accounted(d), NEW held, NEW pair
  PROVE  Books(d, OpenPair(d, held, pair).desk)
<1>1. ASSUME NEW e, Accounted(e), pair[1] \in DOMAIN e.market, pair[2] \in DOMAIN e.market
      PROVE  Books(e, EnterPair(e, pair).desk)
  <2>0. /\ pair[1] \in Symbols /\ pair[2] \in Symbols
        /\ LegSize(e, pair[1]) \in Int /\ LegSize(e, pair[2]) \in Int
    BY <1>1, CapitalAssumption DEF Accounted, LegSize, Close
  <2> DEFINE sold == Submit(e, pair[2], "SELL", LegSize(e, pair[2]), TRUE)
             both == Submit(sold, pair[1], "BUY", LegSize(e, pair[1]), TRUE)
  <2>1. EnterPair(e, pair).desk = both
    BY DEF EnterPair
  <2>2. Books(e, sold)
    BY <1>1, <2>0, SubmitBooks
  <2> HIDE DEF sold
  <2>3. Accounted(sold)
    BY <2>2 DEF Books
  <2>4. Books(sold, both)
    BY <1>1, <2>0, <2>3, SubmitBooks
  <2> HIDE DEF both
  <2> QED
    BY <1>1, <2>1, <2>2, <2>4, BooksThrough
<1> DEFINE once == CancelLeg(d, held.long)
           free == IF Live(held) /\ held.pair # pair THEN CancelInFlight(d, held) ELSE d
<1>2. Books(d, free)
  <2>1. Books(d, once)
    BY CancelBooks
  <2> HIDE DEF once
  <2>2. Books(once, CancelLeg(once, held.short))
    BY <2>1, CancelBooks DEF Books
  <2>3. Books(d, CancelInFlight(d, held))
    BY <2>1, <2>2, BooksThrough DEF CancelInFlight, once
  <2> QED
    BY <2>3, BooksSame
<1>3. \/ OpenPair(d, held, pair).desk = d
      \/ /\ OpenPair(d, held, pair).desk = EnterPair(free, pair).desk
         /\ LegSize(d, pair[1]) # 0 /\ LegSize(d, pair[2]) # 0
  BY DEF OpenPair
<1> HIDE DEF free
<1>4. ASSUME LegSize(d, pair[1]) # 0, LegSize(d, pair[2]) # 0
      PROVE  Books(free, EnterPair(free, pair).desk)
  <2>1. pair[1] \in DOMAIN d.market /\ pair[2] \in DOMAIN d.market
    BY <1>4 DEF LegSize, Close
  <2>2. Accounted(free) /\ free.market = d.market
    BY <1>2 DEF Books
  <2> QED
    BY <1>1, <2>1, <2>2
<1> QED
  BY <1>2, <1>3, <1>4, BooksSame, BooksThrough

\* A position that has a mark is worth what it brought in and what it would
\* bring in now.
LEMMA ProfitOf ==
  ASSUME NEW h \in Holding, NEW mark \in Int, h.qty # 0 => Marked(mark)
  PROVE  h.realized + Unrealized(h, mark) = Brought(h) + h.rounded + Parts * MarketValue(h, mark)
<1> DEFINE q == h.qty
           v == h.average
<1>1. q \in Int /\ v \in Int /\ h.realized \in Int /\ h.rounded \in Int
  BY DEF Holding
<1>2. Brought(h) = h.realized - v * q - h.rounded /\ v * q \in Int
  BY <1>1, Products DEF Brought
<1>3. CASE Marked(mark)
  <2> DEFINE x == v * q
             y == q * mark
  <2>1. y \in Int /\ mark * q = y /\ Parts * mark \in Int
    BY <1>1, Products DEF Parts
  <2>2. (Parts * mark) * q = Parts * y
    BY <1>1, <2>1 DEF Parts
  <2>3. (Parts * mark - v) * q = (Parts * mark) * q - x
    BY <1>1, <2>1, Products
  <2>4. Unrealized(h, mark) = Parts * y - x
    BY <1>3, <2>2, <2>3 DEF Unrealized
  <2>5. MarketValue(h, mark) = y
    BY <1>3 DEF MarketValue
  <2>6. x \in Int /\ Brought(h) = h.realized - x - h.rounded
    BY <1>2
  <2> HIDE DEF x, y
  <2> QED
    BY <1>1, <2>1, <2>4, <2>5, <2>6 DEF Parts
<1>4. CASE ~Marked(mark)
  <2>1. q = 0
    BY <1>4
  <2>2. v * q = 0
    BY <1>1, <2>1
  <2> QED
    BY <1>1, <1>2, <1>4, <2>2 DEF Unrealized, MarketValue, Parts
<1> QED
  BY <1>3, <1>4

LEMMA SumZero ==
  ASSUME NEW S, IsFiniteSet(S), NEW f, DOMAIN f = S, \A x \in S : f[x] = 0
  PROVE  SumFunction(f) = 0
<1>1. \A x \in S : /\ f[x] \in Int /\ f[x] + f[x] = f[x] + f[x] + Parts * f[x]
  BY DEF Parts
<1> DEFINE F == SumFunctionOnSet(f, S)
<1>2. F \in Int
  BY <1>1, SumInt
<1>3. F + F = F + F + Parts * F
  BY <1>1, SumTogether
<1> HIDE DEF F
<1>4. F = 0
  BY <1>2, <1>3 DEF Parts
<1> QED
  BY <1>4, SumWhole DEF F

----------------------------------------------------------------------------
(* The books of a run *)

\* Since the last point of its history the account has traded at the marks.
Since(d) ==
  LET row == LastOf(d.curve)
      then == row.equity + row.fees
  IN  /\ row.equity \in Int /\ row.fees \in Int
      /\ Worth(d) <= then /\ (Slip = 0 => Worth(d) = then)

BooksAt(d, at) ==
  /\ Accounted(d) /\ Cost(d) = -(Parts * InitialCash)
  /\ at \in {"told", "done", "idle", "settle", "save"} /\ d.curve # <<>> => Since(d)

BooksInv ==
  /\ setup \in Setups /\ BooksAt(desk, pc)
  /\ pc \in {"match", "settle"} => todo \subseteq DOMAIN desk.orders

LEMMA BooksKept ==
  ASSUME NEW d, NEW e, NEW p, NEW q, BooksAt(d, p), Books(d, e),
         q \in {"told", "done", "idle", "settle", "save"} =>
           p \in {"told", "done", "idle", "settle", "save"}
  PROVE  BooksAt(e, q)
<1>1. Accounted(d) /\ Accounted(e) /\ Cost(e) = -(Parts * InitialCash) /\ e.curve = d.curve
  BY DEF Books, BooksAt
<1>2. Worth(d) \in Int /\ Worth(e) \in Int
  BY <1>1, EquityIs
<1>3. Since(d) => Since(e)
  <2> DEFINE equity == LastOf(d.curve).equity
             fees == LastOf(d.curve).fees
  <2> SUFFICES ASSUME Since(d) PROVE Since(e)
    OBVIOUS
  <2>1. /\ equity \in Int /\ fees \in Int
        /\ Worth(d) <= equity + fees /\ (Slip = 0 => Worth(d) = equity + fees)
    BY DEF Since
  <2>2. Worth(e) <= Worth(d) /\ (Slip = 0 => Worth(e) = Worth(d))
    BY DEF Books
  <2> HIDE DEF equity, fees
  <2>3. Worth(e) <= equity + fees /\ (Slip = 0 => Worth(e) = equity + fees)
    BY <1>2, <2>1, <2>2
  <2> QED
    BY <1>1, <2>1, <2>3 DEF Since, equity, fees
<1> QED
  BY <1>1, <1>3 DEF BooksAt

LEMMA OpenBooks ==
  ASSUME NEW terms \in Setups, NEW at
  PROVE  BooksAt(OpenDesk(Symbols, InitialCash, terms), at)
<1> DEFINE d == OpenDesk(Symbols, InitialCash, terms)
           f == [s \in Symbols |-> Brought(d.holdings[s])]
<1>1. /\ DOMAIN d = {"orders", "fills", "cash", "fees", "holdings", "curve", "book", "time", "market",
                     "terms", "raised"}
      /\ d.orders = <<>> /\ d.curve = <<>> /\ d.cash = InitialCash /\ d.fees = 0
      /\ d.holdings = [s \in Symbols |-> NoHolding] /\ d.book = [s \in Symbols |-> NoRow]
      /\ d.market = <<>> /\ d.terms = terms
  BY DEF OpenDesk
<1> HIDE DEF d
<1>2. InitialCash \in Int /\ terms.policy.quantum \in Nat \ {0}
  BY DeskAssumption
<1>3. NoHolding \in Holding /\ Brought(NoHolding) = 0
  BY DEF NoHolding, Holding, Brought
<1>4. Listed(<<>>) /\ DOMAIN <<>> = {}
  BY DEF Listed
<1>5. d.holdings \in [Symbols -> Holding] /\ d.book \in [Symbols -> Nat \cup {NoRow}]
  BY <1>1, <1>3
<1>6. Accounted(d)
  BY <1>1, <1>2, <1>4, <1>5 DEF Accounted
<1>7. Total(f) = 0
  <2>1. DOMAIN f = Symbols /\ \A s \in Symbols : f[s] = 0
    BY <1>1, <1>3
  <2> HIDE DEF f
  <2> QED
    BY <2>1, SymbolsFinite, SumZero DEF Total
<1>8. Cost(d) = -(Parts * InitialCash)
  <2>1. Cost(d) = Total(f) - Parts * (d.cash + d.fees)
    BY DEF Cost
  <2> HIDE DEF f
  <2> QED
    BY <1>1, <1>2, <1>7, <2>1 DEF Parts
<1> QED
  BY <1>1, <1>6, <1>8 DEF BooksAt, d

LEMMA MatchedOrders ==
  ASSUME NEW d, Accounted(d), NEW i
  PROVE  DOMAIN Matched(d, i).orders = DOMAIN d.orders
<1> DEFINE o == d.orders[i]
           price == ExecPrice(o.side, d.book[o.symbol])
<1>1. ASSUME NEW n PROVE DOMAIN Filled(d, i, n).orders = DOMAIN d.orders
  <2> DEFINE b == Booked(d, o.symbol, o.side, n, price)
             r == AfterFill(o, n)
             e == [b EXCEPT !.orders[i] = r, !.fills = Append(@, [order |-> i, qty |-> n])]
             stuck == [d EXCEPT !.raised = TRUE]
  <2>1. Filled(d, i, n) \in {stuck, b, e}
    BY DEF Filled
  <2>2. b.orders = d.orders /\ "orders" \in DOMAIN b /\ stuck.orders = d.orders
    BY DEF Booked, Accounted
  <2> HIDE DEF b, r, stuck
  <2>3. DOMAIN e.orders = DOMAIN d.orders
    BY <2>2
  <2> HIDE DEF e
  <2> QED
    BY <2>1, <2>2, <2>3
<1>2. DOMAIN [d EXCEPT !.orders[i] = AfterClose(o, TRUE)].orders = DOMAIN d.orders
  BY DEF Accounted
<1>3. \/ Matched(d, i) = d
      \/ Matched(d, i) = [d EXCEPT !.orders[i] = AfterClose(o, TRUE)]
      \/ \E n : Matched(d, i) = Filled(d, i, n)
  BY DEF Matched
<1> QED
  BY <1>1, <1>2, <1>3

\* Orders that are accepted stay what they are orders of.
LEMMA AcceptedBooks ==
  ASSUME NEW d, Accounted(d), NEW Due
  PROVE  LET e == [d EXCEPT !.orders = [i \in DOMAIN @ |-> IF i \in Due THEN AfterAccept(@[i]) ELSE @[i]]]
         IN  Books(d, e) /\ DOMAIN e.orders = DOMAIN d.orders
<1> DEFINE n == Len(d.orders)
           F(i) == IF i \in Due THEN AfterAccept(d.orders[i]) ELSE d.orders[i]
           e == [d EXCEPT !.orders = [i \in DOMAIN @ |-> IF i \in Due THEN AfterAccept(@[i]) ELSE @[i]]]
<1>1. n \in Nat /\ DOMAIN d.orders = 1..n
  BY ListedDomain DEF Accounted, Listed
<1>2. /\ e.cash = d.cash /\ e.fees = d.fees /\ e.holdings = d.holdings /\ e.book = d.book
      /\ e.curve = d.curve /\ e.market = d.market /\ e.terms = d.terms /\ DOMAIN e = DOMAIN d
      /\ e.orders = [i \in 1..n |-> F(i)]
  BY <1>1 DEF Accounted
<1> HIDE DEF e, n
<1>3. \A i \in 1..n :
        /\ {"symbol", "qty", "filled", "status"} \subseteq DOMAIN F(i)
        /\ F(i).symbol \in Symbols /\ F(i).qty \in Int /\ F(i).filled \in Int
  BY <1>1 DEF Accounted, AfterAccept, MoveTo
<1> HIDE DEF F
<1>4. Listed(e.orders) /\ DOMAIN e.orders = 1..n
  <2>1. DOMAIN e.orders = 1..n /\ Len(e.orders) = n
    BY <1>1, <1>2
  <2>2. e.orders = [i \in 1..n |-> e.orders[i]]
    BY <1>2
  <2> QED
    BY <1>1, <2>1, <2>2 DEF Listed
<1>5. \A i \in DOMAIN e.orders :
        /\ {"symbol", "qty", "filled", "status"} \subseteq DOMAIN e.orders[i]
        /\ e.orders[i].symbol \in Symbols /\ e.orders[i].qty \in Int /\ e.orders[i].filled \in Int
  BY <1>2, <1>3, <1>4
<1>6. Books(d, e)
  BY <1>2, <1>4, <1>5, BooksOfOrders DEF Accounted
<1> QED
  BY <1>1, <1>4, <1>6 DEF e

\* The book takes the quotes: what the positions cost stays.
LEMMA FedBooks ==
  ASSUME NEW d, Accounted(d), Cost(d) = -(Parts * InitialCash), NEW snap \in Snapshots, NEW now
  PROVE  LET e == Fed(d, snap, now)
         IN  Accounted(e) /\ Cost(e) = -(Parts * InitialCash)
<1> DEFINE e == [d EXCEPT !.market = snap, !.time = now,
                          !.book = [s \in DOMAIN @ |->
                                      IF s \in DOMAIN snap THEN snap[s].last ELSE @[s]]]
           book == [s \in Symbols |-> IF s \in DOMAIN snap THEN snap[s].last ELSE d.book[s]]
<1>1. DOMAIN snap \subseteq Symbols /\ \A s \in DOMAIN snap : snap[s].last \in Nat
  BY DeskAssumption
<1>2. DOMAIN d.book = Symbols /\ book \in [Symbols -> Nat \cup {NoRow}]
  BY <1>1 DEF Accounted
<1>3. /\ e.cash = d.cash /\ e.fees = d.fees /\ e.holdings = d.holdings /\ e.book = book
      /\ e.curve = d.curve /\ e.market = snap /\ e.terms = d.terms /\ DOMAIN e = DOMAIN d
      /\ e.orders = d.orders
  BY <1>2 DEF Accounted
<1> HIDE DEF e, book
<1>4. Accounted(e)
  BY <1>1, <1>2, <1>3 DEF Accounted
<1>5. Cost(e) = Cost(d)
  BY <1>3 DEF Cost
<1>6. Books(e, Fed(d, snap, now))
  <2> DEFINE Due == {i \in DOMAIN e.orders : e.orders[i].status = "CREATED" /\ now >= e.orders[i].active}
             f == [e EXCEPT !.orders = [i \in DOMAIN @ |-> IF i \in Due THEN AfterAccept(@[i]) ELSE @[i]]]
  <2>1. Fed(d, snap, now) = f
    BY <1>4 DEF Fed, Activated, e, Accounted
  <2> HIDE DEF Due
  <2>2. Books(e, f)
    BY <1>4, AcceptedBooks
  <2> QED
    BY <2>1, <2>2
<1> QED
  BY <1>5, <1>6 DEF Books

\* A point of the history is what the account is worth then.
LEMMA RecordedBooks ==
  ASSUME NEW d, NEW p, NEW q, BooksAt(d, p)
  PROVE  BooksAt(Recorded(d), q)
<1> DEFINE row == [equity |-> Equity(d), fees |-> d.fees]
           e == Recorded(d)
<1>1. Accounted(d) /\ Cost(d) = -(Parts * InitialCash)
  BY DEF BooksAt
<1>2. /\ e.cash = d.cash /\ e.fees = d.fees /\ e.holdings = d.holdings /\ e.book = d.book
      /\ e.curve = Append(d.curve, row) /\ e.market = d.market /\ e.terms = d.terms
      /\ DOMAIN e = DOMAIN d /\ e.orders = d.orders
  BY <1>1 DEF Recorded, Accounted
<1> HIDE DEF e, row
<1>3. Listed(e.curve) /\ LastOf(e.curve) = row
  BY <1>1, <1>2, ListedAppend DEF Accounted, LastOf
<1>4. Accounted(e)
  BY <1>1, <1>2, <1>3 DEF Accounted
<1>5. Cost(e) = Cost(d) /\ Equity(e) = Equity(d)
  BY <1>2 DEF Cost, Equity
<1>6. row.equity = Equity(d) /\ row.fees = d.fees /\ Equity(d) \in Int /\ d.fees \in Int
  BY <1>1, EquityIs DEF row, Accounted
<1>7. Since(e)
  BY <1>2, <1>3, <1>5, <1>6 DEF Since, Worth
<1> QED
  BY <1>1, <1>4, <1>5, <1>7 DEF BooksAt, e

LEMMA BooksInit == Init => BooksInv
<1> SUFFICES ASSUME Init PROVE BooksInv
  OBVIOUS
<1>1. setup \in Setups /\ pc = "off" /\ desk = OpenDesk(Symbols, InitialCash, setup)
  BY DEF Init
<1>2. BooksAt(desk, pc)
  BY <1>1, OpenBooks
<1> QED
  BY <1>1, <1>2 DEF BooksInv

\* Whatever a decision sends, it trades at the marks.
LEMMA BooksDecided ==
  ASSUME BooksInv, Decide
  PROVE  Books(desk, desk')
<1>1. Accounted(desk)
  BY DEF BooksInv, BooksAt
<1>2. CASE DecidePair
  <2> DEFINE flat == Flatten(desk)
  <2>1. desk' \in {desk, flat, OpenPair(flat, intent, Target).desk}
    BY <1>2 DEF DecidePair, ExitPair, Rebalance
  <2>2. Books(desk, flat)
    BY <1>1, FlattenBooks
  <2> HIDE DEF flat
  <2>3. Books(flat, OpenPair(flat, intent, Target).desk)
    BY <2>2, OpenPairBooks DEF Books
  <2>4. Books(desk, OpenPair(flat, intent, Target).desk)
    BY <1>1, <2>2, <2>3, BooksThrough
  <2> QED
    BY <1>1, <2>1, <2>2, <2>4, BooksSame
<1>3. CASE DecideSingle
  <2>1. desk' = TradeSingle(setup.name, memory.prices, desk)
    BY <1>3 DEF DecideSingle
  <2> QED
    BY <1>1, <2>1, TradeSingleBooks
<1> QED
  BY <1>2, <1>3 DEF Decide

LEMMA BooksStep == BooksInv /\ [Next]_vars => BooksInv'
<1> SUFFICES ASSUME BooksInv, [Next]_vars PROVE BooksInv'
  OBVIOUS
<1> DEFINE Then == {"told", "done", "idle", "settle", "save"}
<1>0. setup \in Setups /\ BooksAt(desk, pc) /\ Accounted(desk) /\ Cost(desk) = -(Parts * InitialCash)
  BY DEF BooksInv, BooksAt
<1> DEFINE Matching == pc \in {"match", "settle"} => todo \subseteq DOMAIN desk.orders
<1>a. ASSUME Books(desk, desk'), pc' \in Then => pc \in Then, setup' = setup, Matching'
      PROVE  BooksInv'
  <2>1. BooksAt(desk', pc')
    BY <1>0, <1>a, BooksKept
  <2> QED
    BY <1>0, <1>a, <2>1 DEF BooksInv, BooksAt, Since, Worth, Equity, Cost, Accounted
<1>1. ASSUME NEW reset \in BOOLEAN, Start(reset) PROVE BooksInv'
  <2>1. pc' = "idle" /\ desk' = OpenDesk(Symbols, InitialCash, setup) /\ setup' = setup
    BY <1>1 DEF Start
  <2>2. BooksAt(desk', pc')
    BY <1>0, <2>1, OpenBooks
  <2> QED
    BY <1>0, <2>1, <2>2 DEF BooksInv, BooksAt, Since, Worth, Equity, Cost, Accounted
<1>2. ASSUME NEW snap \in Snapshots, NEW gap \in Gaps, Process(snap, gap) PROVE BooksInv'
  <2>1. pc' = "match" /\ desk' = Fed(desk, snap, clock') /\ todo' = WorkingOrders(desk') /\ setup' = setup
    BY <1>2 DEF Process
  <2>2. Accounted(desk') /\ Cost(desk') = -(Parts * InitialCash)
    BY <1>0, <2>1, FedBooks
  <2>3. BooksAt(desk', pc')
    BY <2>1, <2>2 DEF BooksAt
  <2>4. todo' \subseteq DOMAIN desk'.orders
    BY <2>1 DEF WorkingOrders
  <2> QED
    BY <1>0, <2>1, <2>3, <2>4 DEF BooksInv, BooksAt, Since, Worth, Equity, Cost, Accounted
<1>3. CASE Settle
  <2> DEFINE Due == {i \in DOMAIN desk.orders : desk.orders[i].status = "CREATED"}
  <2>1. pc = "idle" /\ pc' \in {"settle", "save"} /\ setup' = setup
        /\ \/ desk' = desk /\ pc' = "save"
           \/ /\ desk' = [desk EXCEPT !.orders = [i \in DOMAIN @ |->
                            IF i \in Due THEN AfterAccept(@[i]) ELSE @[i]]]
              /\ todo' = WorkingOrders(desk')
    BY <1>0, <1>3 DEF Settle, Accounted
  <2> HIDE DEF Due
  <2>2. Books(desk, desk')
    BY <1>0, <2>1, AcceptedBooks, BooksSame
  <2>3. Matching'
    BY <2>1 DEF WorkingOrders
  <2> HIDE DEF Matching
  <2> QED
    BY <1>a, <2>1, <2>2, <2>3
<1>4. ASSUME NEW i \in todo, Match(i) PROVE BooksInv'
  <2>1. /\ pc \in {"match", "settle"} /\ desk' = Matched(desk, i) /\ todo' = todo \ {i}
        /\ UNCHANGED <<setup, pc>>
    BY <1>4 DEF Match
  <2>2. i \in DOMAIN desk.orders /\ todo \subseteq DOMAIN desk.orders
    BY <2>1 DEF BooksInv
  <2>3. Books(desk, desk') /\ DOMAIN desk'.orders = DOMAIN desk.orders
    BY <1>0, <2>1, <2>2, MatchedBooks, MatchedOrders
  <2>4. Matching'
    BY <2>1, <2>2, <2>3
  <2> HIDE DEF Matching
  <2> QED
    BY <1>a, <2>1, <2>3, <2>4
<1>5. CASE EndMatch
  <2>1. pc' \in {"told", "save"} /\ desk' = Recorded(desk) /\ setup' = setup
    BY <1>5 DEF EndMatch
  <2>2. BooksAt(desk', pc')
    BY <1>0, <2>1, RecordedBooks
  <2> QED
    BY <1>0, <2>1, <2>2 DEF BooksInv, BooksAt, Since, Worth, Equity, Cost, Accounted
<1>6. ASSUME NEW f \in todo, OnFill(f) PROVE BooksInv'
  <2>1. pc \in {"told", "done"} /\ desk' \in {desk, RolledBack(desk, intent)} /\ UNCHANGED <<setup, pc>>
    BY <1>6 DEF OnFill
  <2>2. Books(desk, desk')
    BY <1>0, <2>1, FlattenBooks, BooksSame DEF RolledBack
  <2>3. Matching'
    BY <2>1
  <2> HIDE DEF Matching
  <2> QED
    BY <1>a, <2>1, <2>2, <2>3
<1>7. CASE Decide
  <2>1. pc = "told" /\ pc' = "done" /\ setup' = setup
    BY <1>7 DEF Decide
  <2>2. Books(desk, desk')
    BY <1>7, BooksDecided
  <2>3. Matching'
    BY <2>1
  <2> HIDE DEF Matching
  <2> QED
    BY <1>a, <2>1, <2>2, <2>3
<1>8. CASE EndEvent \/ Truncate \/ Save \/ Stop \/ UNCHANGED vars
  <2>1. UNCHANGED <<setup, desk, todo>> /\ (pc' \in Then => pc \in Then)
        /\ (pc' = pc \/ pc' \in {"idle", "off"})
    BY <1>8 DEF EndEvent, Truncate, Save, Stop, vars
  <2>2. Books(desk, desk')
    BY <1>0, <2>1, BooksSame
  <2>3. Matching'
    BY <2>1 DEF BooksInv
  <2> HIDE DEF Matching
  <2> QED
    BY <1>a, <2>1, <2>2, <2>3
<1> QED
  BY <1>1, <1>2, <1>3, <1>4, <1>5, <1>6, <1>7, <1>8 DEF Next

LEMMA BooksImply == BooksInv => BooksBalance
<1> SUFFICES ASSUME BooksInv PROVE BooksBalance
  OBVIOUS
<1>1. Accounted(desk) /\ Cost(desk) = -(Parts * InitialCash)
  BY DEF BooksInv, BooksAt
<1> DEFINE realized == [s \in Symbols |-> desk.holdings[s].realized]
           open == [s \in Symbols |-> Unrealized(desk.holdings[s], desk.book[s])]
           brought == [s \in Symbols |-> Brought(desk.holdings[s])]
           rounded == [s \in Symbols |-> desk.holdings[s].rounded]
           value == [s \in Symbols |-> MarketValue(desk.holdings[s], desk.book[s])]
           Sum(f) == SumFunctionOnSet(f, Symbols)
<1>2. \A s \in Symbols :
        /\ realized[s] \in Int /\ open[s] \in Int /\ brought[s] \in Int /\ rounded[s] \in Int
        /\ value[s] \in Int
  <2> SUFFICES ASSUME NEW s \in Symbols
               PROVE  /\ desk.holdings[s].realized \in Int /\ desk.holdings[s].rounded \in Int
                      /\ Unrealized(desk.holdings[s], desk.book[s]) \in Int
                      /\ Brought(desk.holdings[s]) \in Int
                      /\ MarketValue(desk.holdings[s], desk.book[s]) \in Int
    OBVIOUS
  <2>1. desk.holdings[s] \in Holding /\ desk.book[s] \in Int
    BY <1>1 DEF Accounted, NoRow
  <2>2. desk.holdings[s].qty \in Int /\ desk.holdings[s].average \in Int
        /\ desk.holdings[s].realized \in Int /\ desk.holdings[s].rounded \in Int
    BY <2>1 DEF Holding
  <2>3. Unrealized(desk.holdings[s], desk.book[s]) \in Int
    <3> DEFINE gap == Parts * desk.book[s] - desk.holdings[s].average
    <3>1. gap \in Int
      BY <2>1, <2>2 DEF Parts
    <3> HIDE DEF gap
    <3>2. gap * desk.holdings[s].qty \in Int
      BY <2>2, <3>1, Products
    <3> QED
      BY <3>2 DEF Unrealized, gap
  <2> QED
    BY <1>1, <2>2, <2>3, EquityIs
<1>3. ASSUME \A s \in Symbols : Held(desk, s) # 0 => Marked(desk.book[s])
      PROVE  \A s \in Symbols : realized[s] + open[s] = brought[s] + rounded[s] + Parts * value[s]
  <2> SUFFICES ASSUME NEW s \in Symbols
               PROVE  realized[s] + open[s] = brought[s] + rounded[s] + Parts * value[s]
    OBVIOUS
  <2>1. desk.holdings[s] \in Holding /\ desk.book[s] \in Int
    BY <1>1 DEF Accounted, NoRow
  <2>2. desk.holdings[s].qty # 0 => Marked(desk.book[s])
    BY <1>3 DEF Held
  <2> QED
    BY <2>1, <2>2, ProfitOf
<1>4. /\ Total(realized) = Sum(realized) /\ Total(open) = Sum(open) /\ Total(brought) = Sum(brought)
      /\ Total(rounded) = Sum(rounded) /\ Total(value) = Sum(value)
  <2>1. /\ DOMAIN realized = Symbols /\ DOMAIN open = Symbols /\ DOMAIN brought = Symbols
        /\ DOMAIN rounded = Symbols /\ DOMAIN value = Symbols
    OBVIOUS
  <2> HIDE DEF realized, open, brought, rounded, value
  <2> QED
    BY <2>1, SumWhole DEF Total
<1>5. /\ TotalPnl = Total(realized) + Total(open) - Parts * desk.fees
      /\ Rounding = Total(rounded)
      /\ Cost(desk) = Total(brought) - Parts * (desk.cash + desk.fees)
      /\ Equity(desk) = desk.cash + Total(value)
  BY <1>1, EquityIs DEF TotalPnl, Rounding, Cost
<1> HIDE DEF realized, open, brought, rounded, value
<1>6. Sum(realized) \in Int /\ Sum(open) \in Int /\ Sum(brought) \in Int /\ Sum(rounded) \in Int /\ Sum(value) \in Int
  BY <1>2, SymbolsFinite, SumInt
<1>7. desk.cash \in Int /\ desk.fees \in Int /\ InitialCash \in Int
  BY <1>1, DeskAssumption DEF Accounted
<1>8. ASSUME \A s \in Symbols : Held(desk, s) # 0 => Marked(desk.book[s])
      PROVE  TotalPnl = Parts * (Equity(desk) - InitialCash) + Rounding
  <2>1. Sum(realized) + Sum(open) = Sum(brought) + Sum(rounded) + Parts * Sum(value)
    BY <1>2, <1>3, <1>8, SymbolsFinite, SumTogether
  <2> HIDE DEF Sum
  <2>2. Sum(brought) = Parts * (desk.cash + desk.fees) - Parts * InitialCash
    BY <1>1, <1>4, <1>5, <1>6, <1>7 DEF Parts
  <2>3. TotalPnl = (Sum(realized) + Sum(open)) - Parts * desk.fees
    BY <1>4, <1>5, <1>6, <1>7 DEF Parts
  <2>4. Equity(desk) = desk.cash + Sum(value) /\ Rounding = Sum(rounded)
    BY <1>4, <1>5
  <2> QED
    BY <1>6, <1>7, <2>1, <2>2, <2>3, <2>4 DEF Parts
<1>9. ASSUME pc \in {"told", "done", "idle", "settle", "save"}, desk.curve # <<>>
      PROVE  LET now  == Equity(desk) + desk.fees
                 then == LastOf(desk.curve).equity + LastOf(desk.curve).fees
             IN  now <= then /\ (Slip = 0 => now = then)
  BY <1>9 DEF BooksInv, BooksAt, Since, Worth
<1> QED
  BY <1>8, <1>9 DEF BooksBalance

\* The ways a run reports its profit agree and nothing is earned by trading at
\* the marks (apply_position_fill and PortfolioService.snapshot), for every
\* strategy, policy, latency, fee, slippage and set of snapshots.
THEOREM BooksBalanceHolds == Spec => []BooksBalance
<1>1. Init => BooksInv
  BY BooksInit
<1>2. BooksInv /\ [Next]_vars => BooksInv'
  BY BooksStep
<1>3. BooksInv => BooksBalance
  BY BooksImply
<1> QED
  BY <1>1, <1>2, <1>3, PTL DEF Spec

----------------------------------------------------------------------------
(* Whole orders *)

\* Every order traded in one piece or was refused.
WholeIn(d) == \A i \in DOMAIN d.orders : d.orders[i].status \in {"FILLED", "REJECTED"}

\* No order that was to undo a position was refused.
Clean(d) == \A i \in DOMAIN d.orders : d.orders[i].entry \/ d.orders[i].status # "REJECTED"

\* What the policy makes of a quantity.
Lot(policy, qty) == IF policy.noop THEN qty ELSE RoundQuantity(policy, qty)

\* Every position could be undone by one order.
Even(d) == \A s \in Symbols : Lot(d.terms.policy, Abs(Held(d, s))) = Abs(Held(d, s))

\* A smaller multiple is smaller by at least one factor.
LEMMA Multiples ==
  ASSUME NEW k \in Nat \ {0}, NEW a \in Int, NEW b \in Int, NEW r \in 0..(k - 1), k * a = k * b + r
  PROVE  a = b
<1> DEFINE c == a - b
<1>1. c \in Int /\ a = b + c /\ k \in Int /\ r \in Int /\ 0 <= r /\ r < k /\ k > 0
  OBVIOUS
<1> HIDE DEF c
<1>2. k * a = k * b + k * c /\ k * b \in Int /\ k * c \in Int
  BY <1>1, Products
<1>3. k * c = r
  <2> DEFINE x == k * a
             y == k * b
             z == k * c
  <2>1. x = y + z /\ x = y + r /\ y \in Int /\ z \in Int
    BY <1>2
  <2> HIDE DEF x, y, z
  <2>2. z = r
    BY <1>1, <2>1
  <2> QED
    BY <2>2 DEF z
<1>4. c < 1
  <2> SUFFICES ASSUME c >= 1 PROVE FALSE
    BY <1>1
  <2> DEFINE e == c - 1
  <2>1. e \in Nat /\ c = e + 1
    BY <1>1
  <2> HIDE DEF e
  <2>2. k * c = k * e + k /\ k * e \in Nat
    BY <1>1, <2>1
  <2> QED
    BY <1>1, <1>3, <2>2
<1>5. c > -1
  <2> SUFFICES ASSUME c <= -1 PROVE FALSE
    BY <1>1
  <2> DEFINE e == -c
  <2>1. e \in Nat /\ e >= 1 /\ c = -e
    BY <1>1
  <2> HIDE DEF e
  <2>2. k * c = -(k * e) /\ k * e \in Nat
    BY <1>1, <2>1, Products
  <2>3. k * e > 0
    BY <1>1, <2>1
  <2> QED
    BY <1>1, <1>3, <2>2, <2>3
<1> QED
  BY <1>1, <1>4, <1>5

\* A lot is a whole order of itself, and no more than was asked for.
LEMMA LotTwice ==
  ASSUME NEW policy, policy.quantum \in Nat \ {0}, NEW q \in Nat
  PROVE  Lot(policy, q) \in 0..q /\ Lot(policy, Lot(policy, q)) = Lot(policy, q)
<1> DEFINE k == policy.quantum
           a == q \div k
           r == q % k
           p == a * k
           b == p \div k
           t == p % k
<1>1. k \in Nat \ {0}
  OBVIOUS
<1> HIDE DEF k
<1>2. a \in Nat /\ r \in 0..(k - 1) /\ q = k * a + r
  BY <1>1
<1> HIDE DEF a, r
<1>3. p \in Nat /\ p = k * a /\ p <= q
  <2>1. p \in Nat /\ p = k * a
    BY <1>1, <1>2
  <2> HIDE DEF p
  <2>2. p <= q
    BY <1>2, <2>1
  <2> QED
    BY <2>1, <2>2
<1> HIDE DEF p
<1>4. b \in Int /\ t \in 0..(k - 1) /\ p = k * b + t
  <2>1. p \in Nat
    BY <1>3
  <2> QED
    BY <1>1, <2>1
<1> HIDE DEF b, t
<1>5. a = b
  <2>1. k * a = k * b + t
    BY <1>3, <1>4
  <2> QED
    BY <1>1, <1>2, <1>4, <2>1, Multiples
<1>6. RoundQuantity(policy, q) = p
  BY DEF RoundQuantity, p, a, k
<1>7. RoundQuantity(policy, p) = p
  <2>1. RoundQuantity(policy, p) = b * k
    BY DEF RoundQuantity, b, k
  <2> QED
    BY <1>5, <2>1 DEF p
<1> QED
  BY <1>3, <1>6, <1>7 DEF Lot

----------------------------------------------------------------------------
(* What an order that is settled at once does to the positions *)

\* Order i, for n of symbol s, traded whole or was refused.
Moved(d, e, i, s, side, n) ==
  \/ /\ e.orders[i].status = "REJECTED" /\ e.orders[i].filled = 0
     /\ e.holdings = d.holdings /\ e.fills = d.fills
  \/ /\ e.orders[i].status = "FILLED" /\ e.orders[i].filled > 0 /\ n > 0
     /\ \A r \in Symbols : Held(e, r) = IF r = s THEN PositionAfter(side, Held(d, s), n) ELSE Held(d, r)
     /\ e.fills = Append(d.fills, [order |-> i, qty |-> n])

LEMMA MatchedMoves ==
  ASSUME NEW d, Sane(d), Accounted(d), NEW i \in DOMAIN d.orders,
         d.orders[i].status = "ACCEPTED", d.orders[i].filled = 0,
         Matched(d, i).orders[i].status \in {"FILLED", "REJECTED"}, ~Matched(d, i).raised
  PROVE  Moved(d, Matched(d, i), i, d.orders[i].symbol, d.orders[i].side, d.orders[i].qty)
<1> DEFINE o == d.orders[i]
           s == o.symbol
           raw == d.book[s]
           sizes == Fillable(d, o)
           most == CHOOSE n \in sizes : \A m \in sizes : m <= n
           closed == [d EXCEPT !.orders[i] = AfterClose(o, TRUE)]
           e == Matched(d, i)
<1>1. s \in Symbols /\ o.qty \in Int /\ o.filled = 0 /\ raw \in Nat \cup {NoRow} /\ o.status = "ACCEPTED"
      /\ {"symbol", "qty", "filled", "status"} \subseteq DOMAIN o
  BY DEF Accounted
<1>2. \/ e \in {d, closed}
      \/ sizes # {} /\ e = Filled(d, i, most)
  BY <1>1 DEF Matched, NoRow
<1>3. sizes \subseteq 1..o.qty
  BY <1>1 DEF Fillable
<1>4. sizes # {} => most \in 1..o.qty
  <2> SUFFICES ASSUME sizes # {} PROVE most \in 1..o.qty
    OBVIOUS
  <2> DEFINE k == o.qty
  <2> HIDE DEF sizes, k
  <2>1. PICK any \in sizes : TRUE
    OBVIOUS
  <2>2. k \in Nat /\ sizes \subseteq 1..k
    BY <1>1, <1>3, <2>1 DEF k
  <2>3. sizes \in SUBSET (0..k)
    BY <2>2
  <2>4. PICK x \in sizes : \A y \in sizes : x >= y
    BY <2>1, <2>2, <2>3, GreatestExists
  <2>5. \A y \in sizes : y <= x
    BY <2>2, <2>4
  <2>6. most \in sizes
    BY <2>5
  <2> QED
    BY <2>2, <2>6 DEF k
<1> HIDE DEF most, sizes
<1>5. e # d
  BY <1>1 DEF e
<1>6. CASE e = closed
  <2> DEFINE r == AfterClose(o, TRUE)
  <2>1. r.status = "REJECTED" /\ r.filled = 0
    BY <1>1 DEF AfterClose, AfterReject, MoveTo
  <2> HIDE DEF r
  <2>2. closed.orders[i] = r /\ closed.holdings = d.holdings /\ closed.fills = d.fills
    BY DEF Accounted, r
  <2> HIDE DEF closed, e
  <2>3. Moved(d, e, i, s, o.side, o.qty)
    BY <1>6, <2>1, <2>2 DEF Moved
  <2> QED
    BY <2>3 DEF e
<1>7. CASE sizes # {} /\ e = Filled(d, i, most)
  <2> DEFINE n == most
             price == ExecPrice(o.side, d.book[s])
             b == Booked(d, s, o.side, n, price)
             r == AfterFill(o, n)
             h == [d.holdings EXCEPT ![s] = AfterTrade(d.holdings[s], o.side, n, price)]
             done == [b EXCEPT !.orders[i] = r, !.fills = Append(@, [order |-> i, qty |-> n])]
             stuck == [d EXCEPT !.raised = TRUE]
  <2>1. e \in {stuck, b, done} /\ (e = b => b.raised \/ e \in {stuck, done})
    BY <1>7 DEF Filled
  <2>2. stuck.raised
    BY DEF Accounted
  <2>3. b = stuck \/ b = [d EXCEPT !.cash = CashAfter(o.side, d.cash, n, price), !.fees = @ + FeeFor(n, price),
                                   !.holdings = h]
    BY DEF Booked
  <2> HIDE DEF e
  <2>4. e = done
    <3> HIDE DEF b, stuck, done
    <3> QED
      BY <2>1, <2>2 DEF e
  <2>5. b.raised => b = stuck
    <3>1. [d EXCEPT !.cash = CashAfter(o.side, d.cash, n, price), !.fees = @ + FeeFor(n, price),
                    !.holdings = h].raised = d.raised
      BY DEF Accounted
    <3>2. ~d.raised
      BY <1>5, <1>7 DEF Matched, e
    <3> HIDE DEF b, stuck, h, price
    <3> QED
      BY <2>3, <3>1, <3>2
  <2>6. done.raised = b.raised
    <3>1. "raised" \in DOMAIN b
      BY DEF Booked, Accounted
    <3> HIDE DEF b, r
    <3> QED
      BY <3>1
  <2>7. b.holdings = h /\ b.orders = d.orders /\ b.fills = d.fills
        /\ {"holdings", "orders", "fills"} \subseteq DOMAIN b
    <3>1. b # stuck
      <4> HIDE DEF b, stuck, done
      <4> QED
        BY <2>2, <2>4, <2>6 DEF e
    <3> HIDE DEF h, price, stuck, b
    <3>2. b = [d EXCEPT !.cash = CashAfter(o.side, d.cash, n, price), !.fees = @ + FeeFor(n, price),
                        !.holdings = h]
      BY <2>3, <3>1
    <3> QED
      BY <3>2 DEF Accounted
  <2> HIDE DEF b
  <2>8. n \in 1..o.qty
    BY <1>4, <1>7
  <2> HIDE DEF n
  <2>9. r.status \in {"FILLED", "PARTIALLY_FILLED"} /\ r.filled = n /\ (r.status = "FILLED" => n = o.qty)
    <3> DEFINE q == o.qty
    <3>1. o.filled + n = n /\ n \in Int
      BY <1>1, <2>8
    <3>2. r.filled = n /\ r.status = IF n >= q THEN "FILLED" ELSE "PARTIALLY_FILLED"
      BY <1>1, <3>1 DEF AfterFill, StatusAfterFill
    <3> HIDE DEF r, q
    <3>3. n >= q => n = q
      <4>1. n \in 1..q /\ q \in Int
        BY <1>1, <2>8 DEF q
      <4> QED
        BY <4>1
    <3> QED
      BY <3>2, <3>3 DEF q
  <2> HIDE DEF r
  <2>10. done.orders[i] = r /\ done.fills = Append(d.fills, [order |-> i, qty |-> n]) /\ done.holdings = h
    BY <2>7
  <2> HIDE DEF done
  <2>11. r.status = "FILLED" /\ n = o.qty
    BY <2>4, <2>9, <2>10 DEF e
  <2>12. \A x \in Symbols : Held(e, x) = IF x = s THEN PositionAfter(o.side, Held(d, s), n) ELSE Held(d, x)
    <3>1. AfterTrade(d.holdings[s], o.side, n, price).qty = PositionAfter(o.side, d.holdings[s].qty, n)
      BY DEF AfterTrade
    <3>2. \A x \in Symbols : h[x] = IF x = s THEN AfterTrade(d.holdings[s], o.side, n, price) ELSE d.holdings[x]
      BY DEF Accounted
    <3> HIDE DEF h, price
    <3> QED
      BY <2>4, <2>10, <3>1, <3>2 DEF Held
  <2>13. Moved(d, e, i, s, o.side, o.qty)
    <3> DEFINE q == o.qty
               sd == o.side
    <3>1. n > 0 /\ n = q
      BY <2>8, <2>11
    <3> HIDE DEF q, sd
    <3>2. \A x \in Symbols : Held(e, x) = IF x = s THEN PositionAfter(sd, Held(d, s), q) ELSE Held(d, x)
      BY <2>12, <3>1 DEF sd
    <3>3. e.orders[i].status = "FILLED" /\ e.orders[i].filled = q /\ q > 0
          /\ e.fills = Append(d.fills, [order |-> i, qty |-> q])
      BY <2>4, <2>9, <2>10, <2>11, <3>1
    <3>4. Moved(d, e, i, s, sd, q)
      BY <3>2, <3>3 DEF Moved
    <3> QED
      BY <3>4 DEF q, sd
  <2> QED
    BY <2>13 DEF e
<1> HIDE DEF e
<1> QED
  BY <1>2, <1>5, <1>6, <1>7 DEF e

\* One order more.
LEMMA OrderAdded ==
  ASSUME NEW d, Sane(d), Accounted(d), NEW o,
         {"symbol", "qty", "filled", "status", "entry"} \subseteq DOMAIN o, o.status # "CANCEL_PENDING",
         o.symbol \in Symbols, o.qty \in Int, o.filled \in Int
  PROVE  LET p == [d EXCEPT !.orders = Append(@, o)]
             n == Len(d.orders) + 1
         IN  /\ Sane(p) /\ Accounted(p) /\ p.raised = d.raised /\ p.fills = d.fills /\ p.holdings = d.holdings
             /\ n \in DOMAIN p.orders /\ n \notin DOMAIN d.orders /\ Len(p.orders) = n /\ p.orders[n] = o
<1> DEFINE p == [d EXCEPT !.orders = Append(@, o)]
           n == Len(d.orders) + 1
<1>1. /\ p.cash = d.cash /\ p.fees = d.fees /\ p.holdings = d.holdings /\ p.book = d.book
      /\ p.curve = d.curve /\ p.market = d.market /\ p.terms = d.terms /\ DOMAIN p = DOMAIN d
      /\ p.orders = Append(d.orders, o) /\ p.fills = d.fills /\ p.raised = d.raised
  BY DEF Accounted
<1> HIDE DEF p
<1>2. Listed(d.orders) /\ Len(d.orders) \in Nat /\ DOMAIN d.orders = 1..Len(d.orders)
  BY ListedDomain DEF Accounted, Listed
<1>3. /\ Listed(p.orders) /\ Len(p.orders) = n /\ DOMAIN p.orders = 1..n
      /\ p.orders[n] = o /\ \A i \in DOMAIN d.orders : p.orders[i] = d.orders[i]
  BY <1>1, <1>2, ListedAppend
<1>4. n \in DOMAIN p.orders /\ n \notin DOMAIN d.orders
      /\ \A i \in DOMAIN p.orders : i = n \/ i \in DOMAIN d.orders
  BY <1>2, <1>3
<1> HIDE DEF n
<1>5. Sane(p)
  BY <1>1, <1>3, <1>4 DEF Sane
<1>6. \A i \in DOMAIN p.orders :
        /\ {"symbol", "qty", "filled", "status"} \subseteq DOMAIN p.orders[i]
        /\ p.orders[i].symbol \in Symbols /\ p.orders[i].qty \in Int /\ p.orders[i].filled \in Int
  <2> SUFFICES ASSUME NEW i \in DOMAIN p.orders
               PROVE  /\ {"symbol", "qty", "filled", "status"} \subseteq DOMAIN p.orders[i]
                      /\ p.orders[i].symbol \in Symbols /\ p.orders[i].qty \in Int /\ p.orders[i].filled \in Int
    OBVIOUS
  <2>1. CASE i = n
    BY <1>3, <2>1
  <2>2. CASE i # n
    <3>1. p.orders[i] = d.orders[i] /\ i \in DOMAIN d.orders
      BY <1>3, <1>4, <2>2
    <3> QED
      BY <3>1 DEF Accounted
  <2> QED
    BY <2>1, <2>2
<1>7. Accounted(p)
  BY <1>1, <1>3, <1>6 DEF Accounted
<1> QED
  BY <1>1, <1>3, <1>4, <1>5, <1>7 DEF p, n

LEMMA SubmitMoves ==
  ASSUME NEW d, Sane(d), Accounted(d), d.terms.lag = 0,
         NEW s \in Symbols, NEW side, NEW qty \in Int, NEW entry
  PROVE  LET e == Submit(d, s, side, qty, entry)
             n == Len(d.orders) + 1
         IN  ~e.raised /\ WholeIn(e) =>
               /\ n \in DOMAIN e.orders /\ n \notin DOMAIN d.orders /\ Len(e.orders) = n
               /\ Moved(d, e, n, s, side, Lot(d.terms.policy, qty))
<1> SUFFICES ASSUME NEW e, e = Submit(d, s, side, qty, entry), ~e.raised, WholeIn(e)
             PROVE  LET n == Len(d.orders) + 1
                    IN  /\ n \in DOMAIN e.orders /\ n \notin DOMAIN d.orders /\ Len(e.orders) = n
                        /\ Moved(d, e, n, s, side, Lot(d.terms.policy, qty))
  OBVIOUS
<1> DEFINE n == Len(d.orders) + 1
           to == Translated(d, s, side, qty)
           created == [symbol |-> s, side |-> side, type |-> to.type, limit |-> to.limit,
                       qty |-> to.qty, filled |-> 0, status |-> "CREATED", at |-> d.time,
                       active |-> d.time + d.terms.lag, entry |-> entry]
           o == AfterAccept(created)
           p == [d EXCEPT !.orders = Append(@, o)]
           stuck == [d EXCEPT !.raised = TRUE]
<1>1. e = IF d.raised THEN d ELSE IF Raises(d, s, side, qty) THEN stuck
          ELSE Matched(p, Len(p.orders))
  BY DEF Submit
<1>2. to.qty = Lot(d.terms.policy, qty)
  BY DEF Translated, Lot
<1>3. to.qty \in Int
  BY TranslatedInt
<1> HIDE DEF to
<1>4. /\ {"symbol", "qty", "filled", "status", "entry"} \subseteq DOMAIN o
      /\ o.symbol = s /\ o.side = side /\ o.qty = to.qty /\ o.filled = 0 /\ o.status = "ACCEPTED"
  BY DEF AfterAccept, MoveTo
<1> HIDE DEF o
<1>5. /\ Sane(p) /\ Accounted(p) /\ p.raised = d.raised /\ p.fills = d.fills /\ p.holdings = d.holdings
      /\ n \in DOMAIN p.orders /\ n \notin DOMAIN d.orders /\ Len(p.orders) = n /\ p.orders[n] = o
  BY <1>3, <1>4, OrderAdded
<1>6. stuck.raised
  BY DEF Accounted
<1> HIDE DEF p, stuck, n
<1>7. e = Matched(p, n)
  BY <1>1, <1>5, <1>6
<1>8. n \in DOMAIN e.orders /\ Len(e.orders) = n
  BY <1>5, <1>7, MatchedTouchesOne DEF MatchedOne
<1>9. Moved(p, e, n, s, side, to.qty)
  <2>1. e.orders[n].status \in {"FILLED", "REJECTED"}
    BY <1>8 DEF WholeIn
  <2>2. Moved(p, Matched(p, n), n, p.orders[n].symbol, p.orders[n].side, p.orders[n].qty)
    BY <1>4, <1>5, <1>7, <2>1, MatchedMoves
  <2> QED
    BY <1>4, <1>5, <1>7, <2>2
<1>10. Moved(d, e, n, s, side, to.qty)
  BY <1>5, <1>9 DEF Moved, Held
<1> QED
  BY <1>2, <1>5, <1>8, <1>10 DEF n

\* What is whole after more was traded was whole before.
LEMMA WholeBefore ==
  ASSUME NEW d, NEW e, NEW entry, Grown(d, e, entry), ~e.raised
  PROVE  ~d.raised /\ (WholeIn(e) => WholeIn(d)) /\ (Clean(e) => Clean(d))
<1>1. \A i \in DOMAIN d.orders : i \in DOMAIN e.orders /\ e.orders[i] = d.orders[i]
  BY DEF Grown
<1> QED
  BY <1>1 DEF Grown, WholeIn, Clean

\* What became of symbol s when orders were sent for what is wanted of each.
Settled(d, e, wanted, s) ==
  \/ wanted[s].qty = 0 /\ Held(e, s) = Held(d, s)
  \/ /\ wanted[s].qty # 0 /\ Held(e, s) = Held(d, s)
     /\ \E i \in DOMAIN e.orders \ DOMAIN d.orders : e.orders[i].status = "REJECTED"
  \/ /\ wanted[s].qty # 0
     /\ Held(e, s) = PositionAfter(wanted[s].side, Held(d, s), Lot(d.terms.policy, wanted[s].qty))

LEMMA EachSettled ==
  ASSUME NEW d, Sane(d), Accounted(d), d.terms.lag = 0, NEW wanted, NEW entry,
         Len(wanted) \in Nat, 1..Len(wanted) = Symbols, \A s \in Symbols : wanted[s].qty \in Int,
         NEW e, e = SubmitEach(d, wanted, entry), ~e.raised, WholeIn(e)
  PROVE  \A s \in Symbols : Settled(d, e, wanted, s)
<1> DEFINE n == Len(wanted)
<1>1. PICK g : IsWalk(g, d, wanted, entry, n) /\ SubmitEach(d, wanted, entry) = g[n]
  BY SubmitEachWalk
<1>0. 1..n = Symbols
  OBVIOUS
<1> HIDE DEF n
<1>2. n \in Nat /\ n \in 0..n
  BY DEF n
<1> DEFINE Fine(x) == ~x.raised /\ WholeIn(x)
           Good == {s \in 0..n :
                     /\ Grown(d, g[s], entry) /\ Books(d, g[s])
                     /\ Fine(g[s]) => /\ \A r \in 1..s : Settled(d, g[s], wanted, r)
                                      /\ \A r \in (s + 1)..n : Held(g[s], r) = Held(d, r)}
<1>3. g[0] = d /\ \A s \in 1..n : g[s] = IF wanted[s].qty = 0 THEN g[s - 1]
                                         ELSE Submit(g[s - 1], s, wanted[s].side, wanted[s].qty, entry)
  <2>1. 0 \in 0..n /\ \A s \in 1..n : s \in 0..n /\ s # 0
    BY <1>2
  <2> QED
    BY <1>1, <2>1 DEF IsWalk
<1>4. 0 \in Good
  <2>1. \A r \in 1..0 : FALSE
    OBVIOUS
  <2>2. 0 \in 0..n
    BY <1>2
  <2> QED
    BY <1>3, <2>1, <2>2, GrownSame, BooksSame
<1>5. ASSUME NEW s \in 0..(n - 1), s \in Good PROVE s + 1 \in Good
  <2>1. /\ s + 1 \in 1..n /\ s + 1 \in 0..n /\ s + 1 - 1 = s
        /\ s + 1 \in (s + 1)..n
        /\ \A r \in 1..(s + 1) : r = s + 1 \/ (r \in 1..s /\ r # s + 1)
        /\ \A r \in (s + 1 + 1)..n : r \in (s + 1)..n /\ r # s + 1
        /\ \A r \in (s + 1)..n : r \in 1..n
        /\ \A r \in 1..s : r \in 1..n /\ r # s + 1
    <3>1. s \in Int /\ n \in Int /\ 0 <= s /\ s + 1 <= n
      BY <1>2
    <3>2. s + 1 \in 1..n /\ s + 1 \in 0..n /\ s + 1 - 1 = s /\ s + 1 \in (s + 1)..n
      BY <3>1
    <3>3. \A r \in 1..(s + 1) : r = s + 1 \/ (r \in 1..s /\ r # s + 1)
      BY <3>1
    <3>4. \A r \in (s + 1 + 1)..n : r \in (s + 1)..n /\ r # s + 1
      BY <3>1
    <3>5. (\A r \in (s + 1)..n : r \in 1..n) /\ \A r \in 1..s : r \in 1..n /\ r # s + 1
      BY <3>1
    <3> QED
      BY <3>2, <3>3, <3>4, <3>5
  <2> DEFINE a == g[s]
             b == g[s + 1]
             next == Submit(a, s + 1, wanted[s + 1].side, wanted[s + 1].qty, entry)
  <2>2. /\ Grown(d, a, entry) /\ Books(d, a) /\ Sane(a) /\ Accounted(a) /\ a.terms = d.terms
        /\ Fine(a) => /\ \A r \in 1..s : Settled(d, a, wanted, r)
                      /\ \A r \in (s + 1)..n : Held(a, r) = Held(d, r)
    BY <1>5 DEF Books, Grown
  <2>3. b = IF wanted[s + 1].qty = 0 THEN a ELSE next
    BY <1>3, <2>1
  <2>4. s + 1 \in Symbols /\ wanted[s + 1].qty \in Int
    BY <1>0, <2>1
  <2>5. Books(a, next) /\ Grown(a, next, entry)
    BY <2>2, <2>4, SubmitBooks, SubmitGrows
  <2>6. Books(a, a) /\ Grown(a, a, entry)
    BY <2>2, BooksSame, GrownSame
  <2> HIDE DEF a
  <2>7. Books(d, b) /\ Grown(d, b, entry) /\ Grown(a, b, entry)
    <3> HIDE DEF next, b
    <3>1. Books(a, b) /\ Grown(a, b, entry)
      BY <2>3, <2>5, <2>6
    <3> QED
      BY <2>2, <3>1, BooksThrough, GrownThrough
  <2> HIDE DEF b, next
  <2>8. ASSUME Fine(b)
        PROVE  /\ \A r \in 1..(s + 1) : Settled(d, b, wanted, r)
               /\ \A r \in (s + 1 + 1)..n : Held(b, r) = Held(d, r)
    <3>1. Fine(a)
      BY <2>7, <2>8, WholeBefore
    <3>2. CASE wanted[s + 1].qty = 0
      <4>1. b = a
        BY <2>3, <3>2
      <4>2. Settled(d, b, wanted, s + 1)
        BY <2>1, <2>2, <3>1, <3>2, <4>1 DEF Settled
      <4> QED
        BY <2>1, <2>2, <3>1, <4>1, <4>2
    <3>3. CASE wanted[s + 1].qty # 0
      <4> DEFINE k == Len(a.orders) + 1
                 sd == wanted[s + 1].side
                 q == wanted[s + 1].qty
      <4>1. b = Submit(a, s + 1, sd, q, entry)
        BY <2>3, <3>3 DEF next
      <4> HIDE DEF sd, q
      <4>2. /\ k \in DOMAIN b.orders /\ k \notin DOMAIN a.orders
            /\ Moved(a, b, k, s + 1, sd, Lot(a.terms.policy, q))
        <5>1. q \in Int /\ a.terms.lag = 0
          BY <2>2, <2>4 DEF q
        <5> QED
          BY <2>2, <2>4, <2>8, <4>1, <5>1, SubmitMoves
      <4> HIDE DEF k
      <4>3. k \notin DOMAIN d.orders
        BY <2>2, <4>2 DEF Grown
      <4>4. \A r \in Symbols : r # s + 1 => Held(b, r) = Held(a, r)
        BY <4>2 DEF Moved, Held
      <4>5. Settled(d, b, wanted, s + 1)
        <5>1. Held(a, s + 1) = Held(d, s + 1)
          BY <2>1, <2>2, <3>1
        <5>2. CASE b.orders[k].status = "REJECTED"
          <6>1. Held(b, s + 1) = Held(a, s + 1)
            BY <4>2, <5>2 DEF Moved, Held
          <6> QED
            BY <3>3, <4>2, <4>3, <5>1, <5>2, <6>1 DEF Settled
        <5>3. CASE b.orders[k].status # "REJECTED"
          <6>1. Held(b, s + 1) = PositionAfter(sd, Held(a, s + 1), Lot(a.terms.policy, q))
            BY <2>4, <4>2, <5>3 DEF Moved
          <6> QED
            BY <2>2, <3>3, <5>1, <6>1 DEF Settled, sd, q
        <5> QED
          BY <5>2, <5>3
      <4>6. ASSUME NEW r \in 1..s PROVE Settled(d, b, wanted, r)
        <5>1. Settled(d, a, wanted, r)
          BY <2>2, <3>1
        <5>2. Held(b, r) = Held(a, r)
          BY <1>0, <2>1, <4>4
        <5>3. \A i \in DOMAIN a.orders : i \in DOMAIN b.orders /\ b.orders[i] = a.orders[i]
          BY <2>7 DEF Grown
        <5> QED
          BY <5>1, <5>2, <5>3 DEF Settled
      <4>7. \A r \in (s + 1 + 1)..n : Held(b, r) = Held(d, r)
        BY <1>0, <2>1, <2>2, <3>1, <4>4
      <4> QED
        BY <2>1, <4>5, <4>6, <4>7
    <3> QED
      BY <3>2, <3>3
  <2> HIDE DEF Fine
  <2>9. /\ Grown(d, g[s + 1], entry) /\ Books(d, g[s + 1])
        /\ Fine(g[s + 1]) => /\ \A r \in 1..(s + 1) : Settled(d, g[s + 1], wanted, r)
                             /\ \A r \in (s + 1 + 1)..n : Held(g[s + 1], r) = Held(d, r)
    BY <2>7, <2>8 DEF b
  <2> QED
    BY <2>1, <2>9
<1>6. \A s \in 0..n : s \in Good
  <2> HIDE DEF Good
  <2> QED
    BY <1>2, <1>4, <1>5, CountInduction
<1>7. n \in Good /\ e = g[n]
  BY <1>1, <1>2, <1>6
<1> QED
  BY <1>0, <1>7

LEMMA HeldInt ==
  ASSUME NEW d, Accounted(d), NEW s \in Symbols
  PROVE  Held(d, s) \in Int
<1>1. d.holdings[s] \in Holding
  BY DEF Accounted
<1> QED
  BY <1>1 DEF Held, Holding

\* Once the orders that undo the positions have traded there is none.
LEMMA FlattenClears ==
  ASSUME NEW d, Sane(d), Accounted(d), d.terms.lag = 0, Even(d),
         NEW e, e = Flatten(d), ~e.raised, WholeIn(e), Clean(e)
  PROVE  \A s \in Symbols : Held(e, s) = 0
<1> DEFINE wanted == [s \in Symbols |-> [side |-> Opposite(d, s), qty |-> Abs(Held(d, s))]]
<1>1. \A s \in Symbols : wanted[s].qty \in Int
  <2> SUFFICES ASSUME NEW s \in Symbols PROVE Abs(Held(d, s)) \in Int
    OBVIOUS
  <2> QED
    BY HeldInt DEF Abs
<1>2. DOMAIN wanted = Symbols /\ wanted = [s \in Symbols |-> wanted[s]]
  OBVIOUS
<1>3. \A s \in Symbols : wanted[s].side = Opposite(d, s) /\ wanted[s].qty = Abs(Held(d, s))
  OBVIOUS
<1>4. e = SubmitEach(d, wanted, FALSE)
  BY DEF Flatten
<1> HIDE DEF wanted
<1>5. Len(wanted) \in Nat /\ 1..Len(wanted) = Symbols
  BY <1>2, WantedEach
<1>6. \A s \in Symbols : Settled(d, e, wanted, s)
  BY <1>1, <1>4, <1>5, EachSettled
<1>7. \A i \in DOMAIN e.orders \ DOMAIN d.orders : e.orders[i].status # "REJECTED"
  BY FlattenGrows DEF Grown, Clean
<1> SUFFICES ASSUME NEW s \in Symbols PROVE Held(e, s) = 0
  OBVIOUS
<1>8. Held(d, s) \in Int
  BY HeldInt
<1>9. CASE wanted[s].qty = 0
  <2>1. Held(d, s) = 0
    BY <1>3, <1>8, <1>9 DEF Abs
  <2> QED
    BY <1>6, <1>9, <2>1 DEF Settled
<1>10. CASE wanted[s].qty # 0
  <2>1. Held(e, s) = PositionAfter(wanted[s].side, Held(d, s), Lot(d.terms.policy, wanted[s].qty))
    BY <1>6, <1>7, <1>10 DEF Settled
  <2>2. Lot(d.terms.policy, wanted[s].qty) = Abs(Held(d, s))
    BY <1>3 DEF Even
  <2> QED
    BY <1>3, <1>8, <2>1, <2>2 DEF PositionAfter, Abs, Opposite
<1> QED
  BY <1>9, <1>10

\* A strategy of one symbol has bought the quantity it orders, or nothing.
LEMMA SinglesHold ==
  ASSUME NEW d, Sane(d), Accounted(d), d.terms.lag = 0, NEW lot, lot = Lot(d.terms.policy, Quantity),
         \A s \in Symbols : Held(d, s) \in {0, lot},
         NEW name, NEW prices, NEW e, e = TradeSingle(name, prices, d), ~e.raised, WholeIn(e)
  PROVE  \A s \in Symbols : Held(e, s) \in {0, lot}
<1> DEFINE Side(s) == IF s \in DOMAIN d.market
                      THEN SideOf(name, s, prices[s], d.market[s]) ELSE "NONE"
           wanted == [s \in Symbols |-> [side |-> Side(s),
                                         qty |-> IF Tradable(d, s, Side(s)) THEN Quantity ELSE 0]]
<1>1. \A s \in Symbols : wanted[s].qty \in Int
  <2> HIDE DEF Side
  <2> QED
    BY SingleAssumption
<1>2. DOMAIN wanted = Symbols /\ wanted = [s \in Symbols |-> wanted[s]]
  OBVIOUS
<1>3. e = SubmitEach(d, wanted, TRUE)
  BY DEF TradeSingle
<1>4. \A s \in Symbols : wanted[s].qty # 0 => wanted[s].qty = Quantity /\ Tradable(d, s, wanted[s].side)
  <2> HIDE DEF Side
  <2> QED
    OBVIOUS
<1> HIDE DEF wanted
<1>5. Len(wanted) \in Nat /\ 1..Len(wanted) = Symbols
  BY <1>2, WantedEach
<1>6. \A s \in Symbols : Settled(d, e, wanted, s)
  BY <1>1, <1>3, <1>5, EachSettled
<1>7. lot \in Nat
  <2>1. d.terms.policy.quantum \in Nat \ {0} /\ Quantity \in Nat
    BY SingleAssumption DEF Accounted
  <2>2. Lot(d.terms.policy, Quantity) \in 0..Quantity
    BY <2>1, LotTwice
  <2> QED
    BY <2>1, <2>2
<1> SUFFICES ASSUME NEW s \in Symbols PROVE Held(e, s) \in {0, lot}
  OBVIOUS
<1>8. CASE Held(e, s) = Held(d, s)
  BY <1>8
<1>9. CASE /\ wanted[s].qty # 0
           /\ Held(e, s) = PositionAfter(wanted[s].side, Held(d, s), Lot(d.terms.policy, wanted[s].qty))
  <2>1. wanted[s].qty = Quantity /\ Tradable(d, s, wanted[s].side)
    BY <1>4, <1>9
  <2>2. Held(e, s) = PositionAfter(wanted[s].side, Held(d, s), lot)
    BY <1>9, <2>1
  <2> QED
    BY <1>7, <2>1, <2>2 DEF Tradable, PositionAfter
<1> QED
  BY <1>6, <1>8, <1>9 DEF Settled

----------------------------------------------------------------------------
(* What a strategy believes in, and what it owns *)

\* The account owns the pair, or nothing when there is none.
Owns(d, pair) ==
  \A s \in Symbols : /\ Held(d, s) > 0 <=> pair # NoPair /\ s = pair[1]
                     /\ Held(d, s) < 0 <=> pair # NoPair /\ s = pair[2]

\* It owns what traded of the entry, and nothing else.
Entered(d, held) ==
  LET pair == held.pair
  IN  /\ pair # NoPair /\ pair[1] # pair[2] /\ pair[1] \in Symbols /\ pair[2] \in Symbols
      /\ Legs(held) \subseteq DOMAIN d.orders
      /\ Held(d, pair[1]) > 0 <=> d.orders[held.long].status = "FILLED"
      /\ Held(d, pair[1]) >= 0
      /\ Held(d, pair[2]) < 0 <=> d.orders[held.short].status = "FILLED"
      /\ Held(d, pair[2]) <= 0
      /\ \A s \in Symbols \ {pair[1], pair[2]} : Held(d, s) = 0
      /\ \A i \in Legs(held) : d.orders[i].status = "FILLED" => d.orders[i].filled > 0

LEMMA OwnsNothing ==
  ASSUME NEW d, \A s \in Symbols : Held(d, s) = 0
  PROVE  Owns(d, NoPair)
  BY DEF Owns

\* Positions that are lots, or lots owed, can be undone by one order each.
LEMMA EvenLots ==
  ASSUME NEW d, Accounted(d),
         \A s \in Symbols : \E q \in Nat : Held(d, s) \in {0, Lot(d.terms.policy, q), -Lot(d.terms.policy, q)}
  PROVE  Even(d)
<1> SUFFICES ASSUME NEW s \in Symbols
             PROVE  Lot(d.terms.policy, Abs(Held(d, s))) = Abs(Held(d, s))
  BY DEF Even
<1>1. d.terms.policy.quantum \in Nat \ {0}
  BY DEF Accounted
<1>2. PICK q \in Nat : Held(d, s) \in {0, Lot(d.terms.policy, q), -Lot(d.terms.policy, q)}
  OBVIOUS
<1> DEFINE lot == Lot(d.terms.policy, q)
<1>3. lot \in 0..q /\ Lot(d.terms.policy, lot) = lot
  BY <1>1, LotTwice
<1>4. Lot(d.terms.policy, 0) = 0
  <2>1. Lot(d.terms.policy, 0) \in 0..0
    BY <1>1, LotTwice
  <2> QED
    BY <2>1
<1> HIDE DEF lot
<1>5. Abs(Held(d, s)) \in {0, lot}
  BY <1>2, <1>3 DEF Abs, lot
<1> QED
  BY <1>3, <1>4, <1>5

\* An entry on an account without positions: it failed and left none, or a leg
\* traded and its fill is there to be told of.
EnteredFrom(d, r, pair) ==
  LET e == r.desk
      held == r.intent
  IN  /\ Grown(d, e, TRUE) /\ Even(e) /\ held.pair = pair
      /\ \/ ~Live(held) /\ held.failed /\ \A s \in Symbols : Held(e, s) = 0
         \/ /\ Live(held) /\ ~held.failed /\ Entered(e, held)
            /\ \E f \in DOMAIN e.fills \ DOMAIN d.fills : e.fills[f].order \in Legs(held)

LEMMA EntersFlat ==
  ASSUME NEW d, Sane(d), Accounted(d), d.terms.lag = 0, \A s \in Symbols : Held(d, s) = 0,
         NEW pair, pair # NoPair, pair[1] # pair[2],
         pair[1] \in DOMAIN d.market, pair[2] \in DOMAIN d.market,
         NEW r, r = EnterPair(d, pair), ~r.desk.raised, WholeIn(r.desk)
  PROVE  EnteredFrom(d, r, pair)
<1> SUFFICES LET e == r.desk
                 held == r.intent
             IN  /\ Grown(d, e, TRUE) /\ Even(e) /\ held.pair = pair
                 /\ \/ ~Live(held) /\ held.failed /\ \A s \in Symbols : Held(e, s) = 0
                    \/ /\ Live(held) /\ ~held.failed /\ Entered(e, held)
                       /\ \E f \in DOMAIN e.fills \ DOMAIN d.fills : e.fills[f].order \in Legs(held)
  BY DEF EnteredFrom
<1> DEFINE m == Len(d.orders) + 1
           qs == LegSize(d, pair[2])
           ql == LegSize(d, pair[1])
           sold == Submit(d, pair[2], "SELL", qs, TRUE)
           both == Submit(sold, pair[1], "BUY", ql, TRUE)
           held == r.intent
           lots == Lot(d.terms.policy, qs)
           lotl == Lot(d.terms.policy, ql)
<1>1. pair[1] \in Symbols /\ pair[2] \in Symbols /\ qs \in Nat /\ ql \in Nat
  <2>1. pair[1] \in Symbols /\ pair[2] \in Symbols /\ d.market[pair[1]].last \in Nat /\ d.market[pair[2]].last \in Nat
    BY DEF Accounted
  <2>2. \A x \in Nat : x > 0 => Capital \div x \in Nat
    BY CapitalAssumption
  <2> QED
    BY <2>1, <2>2 DEF LegSize, Close
<1>2. ~both.raised /\ r.desk = both /\ held = [pair |-> pair, long |-> m + 1, short |-> m, applied |-> FALSE,
        failed |-> ~Awaiting(both.orders[m + 1], both.orders[m])]
  BY DEF EnterPair
<1> HIDE DEF qs, ql, lots, lotl, held
<1>0. qs \in Int /\ ql \in Int /\ pair[1] \in Symbols /\ pair[2] \in Symbols
  BY <1>1
<1>3. Grown(d, sold, TRUE) /\ Books(d, sold)
  <2>1. Grown(d, sold, TRUE)
    BY SubmitGrows
  <2>2. Books(d, sold)
    BY <1>0, SubmitBooks
  <2> QED
    BY <2>1, <2>2
<1> HIDE DEF sold
<1>4. Sane(sold) /\ Accounted(sold) /\ sold.terms = d.terms
  BY <1>3 DEF Grown, Books
<1>5. Grown(sold, both, TRUE) /\ Books(sold, both)
  <2>1. Grown(sold, both, TRUE)
    BY <1>4, SubmitGrows
  <2>2. Books(sold, both)
    BY <1>0, <1>4, SubmitBooks
  <2> QED
    BY <2>1, <2>2
<1>6. WholeIn(both)
  BY <1>2
<1>7. ~sold.raised /\ WholeIn(sold)
  BY <1>2, <1>5, <1>6, WholeBefore
<1>8. /\ m \in DOMAIN sold.orders /\ m \notin DOMAIN d.orders /\ Len(sold.orders) = m
      /\ Moved(d, sold, m, pair[2], "SELL", lots)
  <2> HIDE DEF both, m
  <2> QED
    BY <1>0, <1>7, SubmitMoves DEF lots, sold, m
<1>9. /\ m + 1 \in DOMAIN both.orders /\ m + 1 \notin DOMAIN sold.orders
      /\ Moved(sold, both, m + 1, pair[1], "BUY", lotl)
  <2> DEFINE x == Len(sold.orders) + 1
  <2>1. /\ x \in DOMAIN both.orders /\ x \notin DOMAIN sold.orders
        /\ Moved(sold, both, x, pair[1], "BUY", Lot(sold.terms.policy, ql))
    <3>1. both = Submit(sold, pair[1], "BUY", ql, TRUE) /\ sold.terms.lag = 0 /\ ~both.raised
      BY <1>2, <1>4
    <3> HIDE DEF both
    <3> QED
      BY <1>0, <1>4, <1>6, <3>1, SubmitMoves
  <2>2. x = m + 1
    BY <1>8
  <2> HIDE DEF x
  <2> QED
    BY <1>4, <2>1, <2>2 DEF lotl
<1> HIDE DEF both, m
<1>10. m \in DOMAIN both.orders /\ both.orders[m] = sold.orders[m] /\ Grown(d, both, TRUE)
  BY <1>3, <1>5, <1>8, GrownThrough DEF Grown
<1>11. lots \in Nat /\ lotl \in Nat
  <2>1. d.terms.policy.quantum \in Nat \ {0}
    BY DEF Accounted
  <2>2. Lot(d.terms.policy, qs) \in 0..qs /\ Lot(d.terms.policy, ql) \in 0..ql
    BY <1>1, <2>1, LotTwice
  <2> QED
    BY <1>1, <2>2 DEF lots, lotl
<1> DEFINE short == both.orders[m]
           long == both.orders[m + 1]
<1>12. short.status \in {"FILLED", "REJECTED"} /\ long.status \in {"FILLED", "REJECTED"}
  BY <1>6, <1>9, <1>10 DEF WholeIn
<1>13. /\ Held(both, pair[2]) = IF short.status = "FILLED" THEN -lots ELSE 0
       /\ Held(both, pair[1]) = IF long.status = "FILLED" THEN lotl ELSE 0
       /\ \A s \in Symbols \ {pair[1], pair[2]} : Held(both, s) = 0
  <2>1. \A s \in Symbols : Held(sold, s) = IF short.status = "FILLED" /\ s = pair[2] THEN -lots ELSE 0
    <3>1. CASE short.status = "FILLED"
      <4>1. \A s \in Symbols : Held(sold, s) = IF s = pair[2] THEN PositionAfter("SELL", Held(d, pair[2]), lots)
                                               ELSE Held(d, s)
        BY <1>8, <1>10, <3>1 DEF Moved
      <4>2. PositionAfter("SELL", 0, lots) = -lots
        BY <1>11 DEF PositionAfter
      <4> QED
        BY <1>1, <3>1, <4>1, <4>2
    <3>2. CASE short.status # "FILLED"
      <4>1. sold.holdings = d.holdings
        BY <1>8, <1>10, <3>2 DEF Moved
      <4> QED
        BY <3>2, <4>1 DEF Held
    <3> QED
      BY <3>1, <3>2
  <2>2. CASE long.status = "FILLED"
    <3>1. \A s \in Symbols : Held(both, s) = IF s = pair[1] THEN PositionAfter("BUY", Held(sold, pair[1]), lotl)
                                             ELSE Held(sold, s)
      BY <1>9, <2>2 DEF Moved
    <3>2. PositionAfter("BUY", 0, lotl) = lotl
      BY <1>11 DEF PositionAfter
    <3> QED
      BY <1>1, <2>1, <2>2, <3>1, <3>2
  <2>3. CASE long.status # "FILLED"
    <3>1. both.holdings = sold.holdings
      BY <1>9, <2>3 DEF Moved
    <3> QED
      BY <1>1, <2>1, <2>3, <3>1 DEF Held
  <2> QED
    BY <2>2, <2>3
<1>14. /\ short.status = "FILLED" => short.filled > 0 /\ lots > 0
       /\ short.status = "REJECTED" => short.filled = 0
       /\ long.status = "FILLED" => long.filled > 0 /\ lotl > 0
       /\ long.status = "REJECTED" => long.filled = 0
  BY <1>8, <1>9, <1>10 DEF Moved
<1>15. Even(both)
  <2>1. Accounted(both) /\ both.terms = d.terms
    BY <1>4, <1>5 DEF Books
  <2>2. ASSUME NEW s \in Symbols
        PROVE  \E q \in Nat : Held(both, s) \in {0, Lot(d.terms.policy, q), -Lot(d.terms.policy, q)}
    BY <1>1, <1>13 DEF lots, lotl
  <2> QED
    BY <2>1, <2>2, EvenLots
<1>16. held.failed <=> short.status = "REJECTED" /\ long.status = "REJECTED"
  <2>1. held.failed = ~Awaiting(long, short)
    BY <1>2
  <2>2. ~InFlight(long) /\ ~InFlight(short)
    BY <1>12 DEF InFlight, Working
  <2> HIDE DEF long, short
  <2>3. Awaiting(long, short) <=> short.status = "FILLED" \/ long.status = "FILLED"
    <3>1. ~(0 > 0)
      OBVIOUS
    <3> QED
      BY <1>12, <1>14, <2>2, <3>1 DEF Awaiting
  <2> QED
    BY <1>12, <2>1, <2>3
<1>17. /\ held.pair = pair /\ held.long = m + 1 /\ held.short = m /\ held # NoIntent
       /\ (Live(held) <=> ~held.failed)
  BY <1>2 DEF Live, NoIntent
<1>18. CASE held.failed
  <2>1. \A s \in Symbols : Held(both, s) = 0
    BY <1>13, <1>16, <1>18
  <2> QED
    BY <1>2, <1>10, <1>15, <1>17, <1>18, <2>1 DEF held
<1>19. CASE ~held.failed
  <2>1. Entered(both, held)
    BY <1>1, <1>9, <1>10, <1>11, <1>12, <1>13, <1>14, <1>17 DEF Entered, Legs
  <2>2. \E f \in DOMAIN both.fills \ DOMAIN d.fills : both.fills[f].order \in Legs(held)
    <3> DEFINE a == Len(d.fills)
               b == Len(sold.fills)
    <3>1. Listed(d.fills) /\ Listed(sold.fills) /\ a \in Nat /\ b \in Nat
          /\ DOMAIN d.fills = 1..a /\ DOMAIN sold.fills = 1..b
      BY <1>4, ListedDomain DEF Sane, Listed
    <3>2. CASE short.status = "FILLED"
      <4>1. sold.fills = Append(d.fills, [order |-> m, qty |-> lots])
        BY <1>8, <1>10, <3>2 DEF Moved
      <4>2. a + 1 \in DOMAIN sold.fills /\ a + 1 \notin DOMAIN d.fills /\ sold.fills[a + 1].order = m
        BY <3>1, <4>1, ListedAppend
      <4>3. a + 1 \in DOMAIN both.fills
        BY <1>5, <4>2 DEF Grown
      <4>4. both.fills[a + 1].order \in {m, m + 1}
        <5>1. CASE long.status = "FILLED"
          <6>1. both.fills = Append(sold.fills, [order |-> m + 1, qty |-> lotl])
            BY <1>9, <5>1 DEF Moved
          <6>2. \A i \in 1..b : both.fills[i] = sold.fills[i]
            BY <3>1, <6>1, ListedAppend
          <6> QED
            BY <3>1, <4>2, <6>2
        <5>2. CASE long.status # "FILLED"
          <6>1. both.fills = sold.fills
            BY <1>9, <5>2 DEF Moved
          <6> QED
            BY <4>2, <6>1
        <5> QED
          BY <5>1, <5>2
      <4> HIDE DEF a
      <4> QED
        BY <1>17, <4>2, <4>3, <4>4 DEF Legs
    <3>3. CASE short.status # "FILLED"
      <4>1. sold.fills = d.fills /\ long.status = "FILLED"
        BY <1>8, <1>10, <1>12, <1>16, <1>19, <3>3 DEF Moved
      <4>2. both.fills = Append(sold.fills, [order |-> m + 1, qty |-> lotl])
        BY <1>9, <4>1 DEF Moved
      <4>3. b + 1 \in DOMAIN both.fills /\ b + 1 \notin DOMAIN sold.fills /\ both.fills[b + 1].order = m + 1
        BY <3>1, <4>2, ListedAppend
      <4> HIDE DEF b
      <4> QED
        BY <1>17, <4>1, <4>3 DEF Legs
    <3> QED
      BY <3>2, <3>3
  <2> QED
    BY <1>2, <1>10, <1>15, <1>17, <1>19, <2>1, <2>2 DEF held
<1> QED
  BY <1>18, <1>19

----------------------------------------------------------------------------
(* The two symbols of a pair differ *)

LEMMA WindowValuesInt ==
  ASSUME NEW q \in Seq(Point), Ascending(q), NEW now, NEW v, v = WindowValues(q, now)
  PROVE  /\ Len(v) \in Nat /\ DOMAIN v = 1..Len(v) /\ \A i \in DOMAIN v : v[i] \in Int
         /\ \A i \in DOMAIN v : \E p \in Range(q) : v[i] = p.value
<1> DEFINE fresh == Drop(q, now)
           n == Len(fresh)
<1>1. fresh \in Seq(Point) /\ Range(fresh) \subseteq Range(q)
  BY DropPoints
<1>2. v = [i \in DOMAIN fresh |-> fresh[i].value]
  BY DEF WindowValues
<1> HIDE DEF fresh
<1>3. n \in Nat /\ DOMAIN fresh = 1..n /\ \A i \in 1..n : fresh[i] \in Point /\ fresh[i] \in Range(fresh)
  BY <1>1 DEF Range
<1> HIDE DEF n
<1>4. v = [i \in 1..n |-> fresh[i].value]
  BY <1>2, <1>3
<1>5. Len(v) = n /\ DOMAIN v = 1..n
  BY <1>3, <1>4
<1>6. \A i \in 1..n : v[i] = fresh[i].value /\ v[i] \in Int
  BY <1>3, <1>4 DEF Point
<1> QED
  BY <1>1, <1>3, <1>5, <1>6

LEMMA ScoreInt ==
  ASSUME NEW v, Len(v) \in Nat \ {0}, DOMAIN v = 1..Len(v), \A i \in DOMAIN v : v[i] \in Int
  PROVE  Score(v) \in Int
<1> DEFINE n == Len(v)
           sum == Total(v)
<1>1. sum \in Int
  <2>1. IsFiniteSet(DOMAIN v)
    BY FS_Interval
  <2> QED
    BY <2>1, SumWhole, SumInt DEF Total
<1>2. LastOf(v) \in Int
  BY DEF LastOf
<1>3. n \in Nat \ {0}
  OBVIOUS
<1> HIDE DEF n, sum
<1>4. (Scale * sum) \div n \in Int
  BY <1>1, <1>3 DEF Scale
<1>5. Score(v) = (Scale * sum) \div n - Scale * LastOf(v)
  BY DEF Score, sum, n
<1>6. Scale * LastOf(v) \in Int
  BY <1>2 DEF Scale
<1> QED
  BY <1>4, <1>5, <1>6

\* A finite set that an order ranks has an element before all others.
LEMMA FirstExists ==
  ASSUME NEW S, IsFiniteSet(S), S # {}, NEW R,
         \A x \in S : <<x, x>> \notin R,
         \A x, y, z \in S : <<x, y>> \in R /\ <<y, z>> \in R => <<x, z>> \in R,
         \A x, y \in S : x # y => <<x, y>> \in R \/ <<y, x>> \in R
  PROVE  \E x \in S : \A y \in S \ {x} : <<x, y>> \in R
<1>1. Cardinality(S) \in Nat /\ Cardinality(S) # 0
  BY FS_CardinalityType, FS_EmptySet
<1>2. 1 \in 1..Cardinality(S) /\ 1 - 1 = 0
  BY <1>1
<1>3. PICK x \in S : Cardinality(Below(S, R, x)) = 0
  <2>1. \A i \in 1..Cardinality(S) : \E x \in S : Cardinality(Below(S, R, x)) = i - 1
    BY Ranked
  <2> DEFINE one == 1
  <2>2. one \in 1..Cardinality(S) /\ one - 1 = 0
    BY <1>2
  <2> HIDE DEF one
  <2>3. PICK x \in S : Cardinality(Below(S, R, x)) = one - 1
    BY <2>1, <2>2
  <2> QED
    BY <2>2, <2>3
<1>4. Below(S, R, x) = {}
  <2>1. IsFiniteSet(Below(S, R, x))
    BY FS_Subset DEF Below
  <2> QED
    BY <1>3, <2>1, FS_EmptySet
<1> QED
  BY <1>4 DEF Below

LEMMA BestDiffers ==
  ASSUME NEW history, NEW snap, DOMAIN snap \subseteq Symbols, NEW now,
         \A s \in Symbols : history[s] \in Seq(Point) /\ Ascending(history[s]),
         NEW pair, pair = BestPair(history, snap, now), pair # NoPair
  PROVE  pair[1] # pair[2]
<1> DEFINE values == [s \in Quoting(snap) |-> WindowValues(history[s], now)]
           ok == {s \in Quoting(snap) : values[s] # <<>> /\ Len(values[s]) >= MinSamples}
           score == [s \in ok |-> Score(values[s])]
           Above(s, r) == score[s] > score[r] \/ (score[s] = score[r] /\ s > r)
           long  == CHOOSE s \in ok : \A r \in ok \ {s} : Above(s, r)
           short == CHOOSE s \in ok : \A r \in ok \ {s} : Above(r, s)
<1>1. pair = IF Cardinality(ok) < 2 THEN NoPair
             ELSE IF score[long] - score[short] >= Scale * MinGap THEN <<long, short>>
             ELSE NoPair
  BY DEF BestPair
<1>2. \A s \in ok : s \in Int /\ score[s] \in Int
  <2> SUFFICES ASSUME NEW s \in ok PROVE s \in Int /\ score[s] \in Int
    OBVIOUS
  <2>1. s \in Symbols /\ s \in Quoting(snap)
    BY DEF Quoting
  <2>2. s \in Int
    BY <2>1, SignalAssumption, FS_CardinalityType
  <2>3. Score(values[s]) \in Int
    <3> DEFINE v == WindowValues(history[s], now)
    <3>1. values[s] = v
      BY <2>1
    <3>2. Len(v) \in Nat /\ DOMAIN v = 1..Len(v) /\ \A i \in DOMAIN v : v[i] \in Int
      BY <2>1, WindowValuesInt
    <3>3. Len(v) >= MinSamples
      BY <3>1
    <3> HIDE DEF v
    <3>4. Len(v) \in Nat \ {0}
      BY <3>2, <3>3, SignalAssumption
    <3> HIDE DEF values
    <3> QED
      BY <3>1, <3>2, <3>4, ScoreInt
  <2> QED
    BY <2>2, <2>3
<1>3. IsFiniteSet(ok)
  <2>1. ok \subseteq Symbols
    BY DEF Quoting
  <2> HIDE DEF ok
  <2> QED
    BY <2>1, FS_Subset, SignalAssumption
<1> HIDE DEF values, ok, score, long, short
<1>4. Cardinality(ok) >= 2 /\ pair = <<long, short>>
  <2>1. Cardinality(ok) \in Nat
    BY <1>3, FS_CardinalityType
  <2> QED
    BY <1>1, <2>1
<1>5. ok # {}
  BY <1>3, <1>4, FS_EmptySet
<1>6. \E s \in ok : \A r \in ok \ {s} : Above(s, r)
  <2> DEFINE R == {p \in ok \X ok : Above(p[1], p[2])}
  <2>1. \A x, y \in ok : <<x, y>> \in R <=> Above(x, y)
    OBVIOUS
  <2> HIDE DEF R
  <2>2. \A x \in ok : <<x, x>> \notin R
    BY <1>2, <2>1
  <2>3. \A x, y, z \in ok : <<x, y>> \in R /\ <<y, z>> \in R => <<x, z>> \in R
    BY <1>2, <2>1
  <2>4. \A x, y \in ok : x # y => <<x, y>> \in R \/ <<y, x>> \in R
    BY <1>2, <2>1
  <2> HIDE DEF Above
  <2>5. \E x \in ok : \A y \in ok \ {x} : <<x, y>> \in R
    BY <1>3, <1>5, <2>2, <2>3, <2>4, FirstExists
  <2> QED
    BY <2>1, <2>5
<1>7. \E s \in ok : \A r \in ok \ {s} : Above(r, s)
  <2> DEFINE R == {p \in ok \X ok : Above(p[2], p[1])}
  <2>1. \A x, y \in ok : <<x, y>> \in R <=> Above(y, x)
    OBVIOUS
  <2> HIDE DEF R
  <2>2. \A x \in ok : <<x, x>> \notin R
    BY <1>2, <2>1
  <2>3. \A x, y, z \in ok : <<x, y>> \in R /\ <<y, z>> \in R => <<x, z>> \in R
    BY <1>2, <2>1
  <2>4. \A x, y \in ok : x # y => <<x, y>> \in R \/ <<y, x>> \in R
    BY <1>2, <2>1
  <2> HIDE DEF Above
  <2>5. \E x \in ok : \A y \in ok \ {x} : <<x, y>> \in R
    BY <1>3, <1>5, <2>2, <2>3, <2>4, FirstExists
  <2> QED
    BY <2>1, <2>5
<1>8. long \in ok /\ \A r \in ok \ {long} : Above(long, r)
  <2> HIDE DEF Above
  <2> QED
    BY <1>6 DEF long
<1>9. short \in ok /\ \A r \in ok \ {short} : Above(r, short)
  <2> HIDE DEF Above
  <2> QED
    BY <1>7 DEF short
<1>10. long # short
  <2> SUFFICES ASSUME long = short PROVE FALSE
    OBVIOUS
  <2>1. \A r \in ok \ {long} : FALSE
    BY <1>2, <1>8, <1>9
  <2>2. ok = {long}
    BY <1>8, <2>1
  <2>3. Cardinality(ok) = 1
    BY <2>2, FS_Singleton
  <2> QED
    BY <1>4, <2>3
<1> QED
  BY <1>4, <1>10

\* A spread of a fund with itself never moves.
LEMMA SpreadDiffers ==
  ASSUME NEW v, Len(v) \in Nat, DOMAIN v = 1..Len(v), SpreadPair(v) # NoPair,
         FundA = FundB => \A i \in DOMAIN v : v[i] = 0
  PROVE  SpreadPair(v)[1] # SpreadPair(v)[2]
<1>1. SpreadPair(v) \in {<<FundB, FundA>>, <<FundA, FundB>>}
  BY DEF SpreadPair
<1>2. ASSUME FundA = FundB PROVE FALSE
  <2> DEFINE n == Len(v)
             sum == Total(v)
             squares == [i \in DOMAIN v |-> v[i] * v[i]]
  <2>1. IsFiniteSet(DOMAIN v)
    BY FS_Interval
  <2>2. sum = 0
    BY <1>2, <2>1, SumZero DEF Total
  <2>3. Total(squares) = 0
    <3>1. DOMAIN squares = DOMAIN v /\ \A i \in DOMAIN v : squares[i] = 0
      BY <1>2
    <3> HIDE DEF squares
    <3> QED
      BY <2>1, <3>1, SumZero DEF Total
  <2> DEFINE t == Total(squares)
  <2> HIDE DEF n, sum, t
  <2>4. n * t - sum * sum = 0
    BY <2>2, <2>3 DEF n, t
  <2>5. SpreadPair(v) = NoPair
    BY <2>4 DEF SpreadPair, n, sum, t
  <2> QED
    BY <2>5
<1> QED
  BY <1>1, <1>2

\* The windows a decision is made on are of what was shown.
LEMMA PairDiffers ==
  ASSUME MemoryInv, pc = "told", setup.name \in Pairs, Target # NoPair
  PROVE  Target[1] # Target[2]
<1> DEFINE e == [at |-> clock, snap |-> desk.market]
           more == Append(shown, e)
<1>1. /\ desk.time = clock /\ desk.market \in Snapshots /\ clock \in Int /\ History(shown, clock)
      /\ SeriesInv(memory.series, shown, clock) /\ DOMAIN memory.series = Symbols
  BY DEF MemoryInv, Facing, Remembered
<1>2. CASE setup.name = "bubble_rank"
  <2>1. \A s \in Symbols : Faithful(memory.series[s], PremiumPoints(shown, s), clock)
    BY <1>1, <1>2 DEF SeriesInv
  <2>2. \A s \in Symbols : Windows[s] \in Seq(Point) /\ Ascending(Windows[s])
    <3> SUFFICES ASSUME NEW s \in Symbols PROVE Windows[s] \in Seq(Point) /\ Ascending(Windows[s])
      OBVIOUS
    <3>1. Faithful(AppendPremiums(memory.series, desk.market, clock)[s], PremiumPoints(more, s), clock)
      BY <1>1, <2>1, AppendPremiumsFaithful
    <3> QED
      BY <1>1, <1>2, <3>1 DEF Windows, Faithful
  <2>3. Target = BestPair(Windows, desk.market, clock)
    BY <1>1, <1>2 DEF Target
  <2>4. DOMAIN desk.market \subseteq Symbols
    BY <1>1, DeskAssumption
  <2> QED
    BY <2>2, <2>3, <2>4, BestDiffers
<1>3. CASE setup.name = "pair_zscore"
  <2> DEFINE q == AppendSpread(memory.series[FundA], desk.market, clock)
             v == WindowValues(q, clock)
  <2>1. Faithful(memory.series[FundA], SpreadPoints(shown), clock)
    BY <1>1, <1>3 DEF SeriesInv
  <2>2. Faithful(q, SpreadPoints(more), clock)
    BY <1>1, <2>1, AppendSpreadFaithful
  <2>3. Windows[FundA] = q
    BY <1>1, <1>3, SignalAssumption DEF Windows
  <2>4. Target = SpreadPair(v)
    BY <1>1, <1>3, <2>3 DEF Target
  <2> HIDE DEF q
  <2>5. /\ Len(v) \in Nat /\ DOMAIN v = 1..Len(v)
        /\ \A i \in DOMAIN v : \E p \in Range(q) : v[i] = p.value
    BY <2>2, WindowValuesInt DEF Faithful
  <2> HIDE DEF v
  <2>6. FundA = FundB => \A p \in SpreadPoints(more) : p.value = 0
    <3> SUFFICES ASSUME FundA = FundB, NEW p \in SpreadPoints(more) PROVE p.value = 0
      OBVIOUS
    <3>1. PICK snap \in Both : p.value = Spread[snap]
      BY DEF SpreadPoints, PointsOf
    <3>2. Spread[snap] = QuotePremium(snap[FundA]) - QuotePremium(snap[FundB])
      BY PremiumOf
    <3>3. QuotePremium(snap[FundA]) \in Int
      BY PremiumInt DEF Both
    <3> QED
      BY <3>1, <3>2, <3>3
  <2>7. FundA = FundB => \A i \in DOMAIN v : v[i] = 0
    BY <2>2, <2>5, <2>6 DEF Faithful
  <2> QED
    BY <2>4, <2>5, <2>7, SpreadDiffers
<1> QED
  BY <1>2, <1>3 DEF Pairs

----------------------------------------------------------------------------
(* The belief of a run *)

\* What a pair strategy knows of an account that could always be flattened: the
\* entry it waits for has a fill still to be told of, and there is no other.
Believes(d, held, cur, at, left) ==
  /\ Even(d)
  /\ IF Live(held)
     THEN /\ at = "done" /\ Entered(d, held)
          /\ "applied" \in DOMAIN held /\ "failed" \in DOMAIN held
          /\ \E f \in left : d.fills[f].order \in Legs(held)
     ELSE Owns(d, cur)

BeliefAt(terms, d, held, cur, at, left, told) ==
  /\ Sane(d) /\ told \subseteq DOMAIN d.fills
  /\ at \in {"told", "done"} => left \subseteq DOMAIN d.fills
  /\ at \in {"match", "settle"} => left = {}
  /\ IF terms.name \in Pairs THEN Clean(d) => Believes(d, held, cur, at, left)
     ELSE ~Live(held) /\ \A s \in Symbols : Held(d, s) \in {0, Lot(terms.policy, Quantity)}

\* When orders trade at once, each has traded in one piece or was refused by the
\* time the call that sent it returns.
TradesWhole == Instant /\ ~desk.raised => WholeIn(desk)

BeliefInv ==
  /\ desk.terms = setup /\ (pc = "idle" => ~desk.raised)
  /\ Instant /\ pc # "off" /\ ~desk.raised => BeliefAt(setup, desk, intent, current, pc, todo, seen)

LEMMA EvenFlat ==
  ASSUME NEW d, Accounted(d), \A s \in Symbols : Held(d, s) = 0
  PROVE  Even(d)
<1>1. \A s \in Symbols : \E q \in Nat : Held(d, s) \in {0, Lot(d.terms.policy, q), -Lot(d.terms.policy, q)}
  <2>1. 0 \in Nat
    OBVIOUS
  <2> QED
    BY <2>1
<1> QED
  BY <1>1, EvenLots

\* Nothing is traded and nothing is told.
LEMMA BeliefQuiet ==
  ASSUME NEW terms, NEW d, NEW held, NEW cur, NEW at, NEW left, NEW told,
         BeliefAt(terms, d, held, cur, at, left, told), at = "done" => left = {},
         NEW e, Sane(e), e.orders = d.orders, e.fills = d.fills, e.holdings = d.holdings,
         e.terms = d.terms, NEW then, NEW more,
         then \in {"told", "done"} => more \subseteq DOMAIN d.fills,
         then \in {"match", "settle"} => more = {}
  PROVE  BeliefAt(terms, e, held, cur, then, more, told)
<1>1. \A s : Held(e, s) = Held(d, s)
  BY DEF Held
<1>2. (Clean(e) <=> Clean(d)) /\ (Even(e) <=> Even(d)) /\ (Owns(e, cur) <=> Owns(d, cur))
  BY <1>1 DEF Clean, Even, Owns
<1>3. CASE terms.name \in Pairs
  <2>1. ASSUME Clean(d) PROVE Believes(e, held, cur, then, more)
    <3>1. Believes(d, held, cur, at, left)
      BY <1>3, <2>1 DEF BeliefAt
    <3>2. ~Live(held)
      BY <3>1 DEF Believes
    <3> QED
      BY <1>2, <3>1, <3>2 DEF Believes
  <2> QED
    BY <1>2, <1>3, <2>1 DEF BeliefAt
<1>4. CASE terms.name \notin Pairs
  BY <1>1, <1>4 DEF BeliefAt
<1> QED
  BY <1>3, <1>4

LEMMA BeliefStarts ==
  ASSUME NEW reset, Start(reset), setup \in Setups
  PROVE  BeliefAt(setup', desk', intent', current', pc', todo', seen') /\ ~desk'.raised
<1> DEFINE d == OpenDesk(Symbols, InitialCash, setup)
<1>1. /\ setup' = setup /\ desk' = d /\ intent' = NoIntent /\ current' = NoPair /\ pc' = "idle"
      /\ todo' = {} /\ seen' = {}
  BY DEF Start
<1>2. Sane(d) /\ ~d.raised
  BY OpenSound DEF EntrySound
<1>3. Accounted(d)
  BY OpenBooks DEF BooksAt
<1>4. \A s \in Symbols : Held(d, s) = 0
  <2>1. d.holdings = [s \in Symbols |-> NoHolding]
    BY DEF OpenDesk
  <2> HIDE DEF d
  <2> QED
    BY <2>1 DEF Held, NoHolding
<1> HIDE DEF d
<1>5. Even(d) /\ Owns(d, NoPair) /\ ~Live(NoIntent)
  BY <1>3, <1>4, EvenFlat, OwnsNothing DEF Live
<1> QED
  BY <1>1, <1>2, <1>4, <1>5 DEF BeliefAt, Believes

\* The account sees the snapshot: there is no order to match.
LEMMA BeliefProcessed ==
  ASSUME BeliefAt(setup, desk, intent, current, pc, todo, seen), WholeIn(desk), Accounted(desk),
         NEW snap, NEW gap, Process(snap, gap)
  PROVE  BeliefAt(setup', desk', intent', current', pc', todo', seen')
<1> DEFINE now == clock'
           fed == [desk EXCEPT !.market = snap, !.time = now,
                               !.book = [s \in DOMAIN @ |-> IF s \in DOMAIN snap THEN snap[s].last ELSE @[s]]]
           e == Activated(fed, now)
<1>1. /\ pc = "idle" /\ pc' = "match" /\ desk' = e /\ todo' = WorkingOrders(desk')
      /\ UNCHANGED <<setup, intent, current, seen>>
  BY DEF Process, Fed
<1>2. Sane(desk)
  BY DEF BeliefAt
<1>3. /\ fed.orders = desk.orders /\ fed.fills = desk.fills /\ fed.holdings = desk.holdings
      /\ fed.terms = desk.terms /\ DOMAIN fed = DOMAIN desk
  BY DEF Accounted
<1> HIDE DEF fed, now
<1>4. /\ e.orders = [i \in DOMAIN desk.orders |->
                      IF desk.orders[i].status = "CREATED" /\ now >= desk.orders[i].active
                      THEN AfterAccept(desk.orders[i]) ELSE desk.orders[i]]
      /\ e.fills = desk.fills /\ e.holdings = desk.holdings /\ e.terms = desk.terms
      /\ DOMAIN e = DOMAIN desk
  BY <1>3 DEF Activated, Accounted
<1> HIDE DEF e
<1>5. e.orders = desk.orders
  <2>1. \A i \in DOMAIN desk.orders : desk.orders[i].status # "CREATED"
    BY DEF WholeIn
  <2>2. e.orders = [i \in DOMAIN desk.orders |-> desk.orders[i]]
    BY <1>4, <2>1
  <2>3. desk.orders = [i \in DOMAIN desk.orders |-> desk.orders[i]]
    BY <1>2, ListedDomain DEF Sane, Listed
  <2> QED
    BY <2>2, <2>3
<1>6. Sane(e)
  BY <1>2, <1>4, <1>5 DEF Sane
<1>7. todo' = {}
  BY <1>1, <1>5 DEF WorkingOrders, WholeIn, Working
<1> QED
  BY <1>1, <1>4, <1>5, <1>6, <1>7, BeliefQuiet

LEMMA BeliefSettled ==
  ASSUME BeliefAt(setup, desk, intent, current, pc, todo, seen), WholeIn(desk), Settle
  PROVE  BeliefAt(setup', desk', intent', current', pc', todo', seen')
<1>1. \A i \in DOMAIN desk.orders : desk.orders[i].status # "CREATED"
  BY DEF WholeIn
<1>2. /\ pc = "idle" /\ pc' = "save" /\ UNCHANGED <<setup, desk, todo, intent, current, seen>>
  BY <1>1 DEF Settle
<1>3. Sane(desk)
  BY DEF BeliefAt
<1> QED
  BY <1>2, <1>3, BeliefQuiet

LEMMA BeliefMatchEnds ==
  ASSUME BeliefAt(setup, desk, intent, current, pc, todo, seen), Accounted(desk), EndMatch
  PROVE  BeliefAt(setup', desk', intent', current', pc', todo', seen')
<1> DEFINE row == [equity |-> Equity(desk), fees |-> desk.fees]
           e == [desk EXCEPT !.curve = Append(@, row)]
<1>1. /\ desk' = e /\ UNCHANGED <<setup, intent, current, seen>> /\ pc \in {"match", "settle"}
      /\ (pc' = "told" /\ todo' = Fresh) \/ (pc' = "save" /\ todo' = todo)
  BY DEF EndMatch, Recorded
<1> HIDE DEF row
<1>2. /\ e.orders = desk.orders /\ e.fills = desk.fills /\ e.holdings = desk.holdings
      /\ e.terms = desk.terms /\ DOMAIN e = DOMAIN desk
  BY DEF Accounted
<1> HIDE DEF e
<1>3. Sane(e)
  BY <1>2 DEF BeliefAt, Sane
<1>4. Fresh \subseteq DOMAIN desk.fills
  BY DEF Fresh
<1> QED
  BY <1>1, <1>2, <1>3, <1>4, BeliefQuiet

LEMMA BeliefEnds ==
  ASSUME BeliefAt(setup, desk, intent, current, pc, todo, seen), EndEvent
  PROVE  BeliefAt(setup', desk', intent', current', pc', todo', seen')
<1>1. /\ pc = "done" /\ todo = {} /\ pc' = "idle"
      /\ UNCHANGED <<setup, desk, intent, current, todo, seen>>
  BY DEF EndEvent
<1>2. Sane(desk)
  BY DEF BeliefAt
<1> QED
  BY <1>1, <1>2, BeliefQuiet

LEMMA TradeSingleGrows ==
  ASSUME NEW d, Sane(d), NEW name, NEW prices
  PROVE  Grown(d, TradeSingle(name, prices, d), TRUE)
<1> DEFINE Side(s) == IF s \in DOMAIN d.market
                      THEN SideOf(name, s, prices[s], d.market[s]) ELSE "NONE"
           wanted == [s \in Symbols |-> [side |-> Side(s),
                                         qty |-> IF Tradable(d, s, Side(s)) THEN Quantity ELSE 0]]
<1>1. DOMAIN wanted = Symbols /\ wanted = [s \in Symbols |-> wanted[s]]
  OBVIOUS
<1>2. TradeSingle(name, prices, d) = SubmitEach(d, wanted, TRUE)
  BY DEF TradeSingle
<1> HIDE DEF wanted
<1>3. Len(wanted) \in Nat
  BY <1>1, WantedEach
<1> QED
  BY <1>2, <1>3, SubmitEachGrows

LEMMA EnterGrows ==
  ASSUME NEW d, Sane(d), NEW pair
  PROVE  Grown(d, EnterPair(d, pair).desk, TRUE)
<1> DEFINE sold == Submit(d, pair[2], "SELL", LegSize(d, pair[2]), TRUE)
           both == Submit(sold, pair[1], "BUY", LegSize(d, pair[1]), TRUE)
<1>1. EnterPair(d, pair).desk = both
  BY DEF EnterPair
<1>2. Grown(d, sold, TRUE)
  BY SubmitGrows
<1> HIDE DEF sold
<1>3. Grown(sold, both, TRUE)
  BY <1>2, SubmitGrows DEF Grown
<1> HIDE DEF both
<1> QED
  BY <1>1, <1>2, <1>3, GrownThrough

\* Whatever is cancelled for it, an entry loses no fill and forgets no refusal.
LEMMA OpenPairGrows ==
  ASSUME NEW d, Sane(d), NEW held, NEW pair
  PROVE  LET e == OpenPair(d, held, pair).desk
         IN  Sane(e) /\ DOMAIN d.fills \subseteq DOMAIN e.fills /\ (Clean(e) => Clean(d))
<1> DEFINE free == IF Live(held) /\ held.pair # pair THEN CancelInFlight(d, held) ELSE d
           e == EnterPair(free, pair).desk
<1>1. OpenPair(d, held, pair).desk \in {d, e}
  BY DEF OpenPair
<1>2. /\ Sane(free) /\ free.fills = d.fills /\ DOMAIN free.orders = DOMAIN d.orders
      /\ \A j \in DOMAIN d.orders :
           /\ free.orders[j].entry = d.orders[j].entry
           /\ ~InFlight(d.orders[j]) => free.orders[j] = d.orders[j]
  BY CancelInFlightTouchesLegs
<1> HIDE DEF free
<1>3. Grown(free, e, TRUE)
  BY <1>2, EnterGrows
<1> HIDE DEF e
<1>4. Sane(e) /\ DOMAIN d.fills \subseteq DOMAIN e.fills
  BY <1>2, <1>3 DEF Grown
<1>5. Clean(e) => Clean(d)
  <2> SUFFICES ASSUME Clean(e), NEW j \in DOMAIN d.orders, d.orders[j].status = "REJECTED"
               PROVE  d.orders[j].entry
    BY DEF Clean
  <2>1. ~InFlight(d.orders[j])
    BY DEF InFlight, Working
  <2>2. j \in DOMAIN e.orders /\ e.orders[j] = d.orders[j]
    BY <1>2, <1>3, <2>1 DEF Grown
  <2> QED
    BY <2>2 DEF Clean
<1> QED
  BY <1>1, <1>4, <1>5

\* The entry was taken up, or given up and what traded of it undone.
LEMMA BeliefTold ==
  ASSUME BeliefAt(setup, desk, intent, current, pc, todo, seen), WholeIn(desk), Accounted(desk),
         desk.terms.lag = 0, NEW f \in todo, OnFill(f), ~desk'.raised, WholeIn(desk')
  PROVE  BeliefAt(setup', desk', intent', current', pc', todo', seen')
<1> DEFINE outcome == Outcome(desk, intent, desk.fills[f])
           told == [intent EXCEPT !.applied = outcome = "opened", !.failed = outcome = "failed"]
           flat == Flatten(desk)
<1>1. /\ pc \in {"told", "done"} /\ pc' = pc /\ todo' = todo \ {f} /\ seen' = seen \cup {f} /\ setup' = setup
      /\ desk' = IF outcome = "failed" THEN RolledBack(desk, intent) ELSE desk
      /\ intent' = IF outcome = "none" THEN intent ELSE told
      /\ current' = PairAfter(outcome)
  BY Zenon DEF OnFill
<1>2. Sane(desk) /\ f \in DOMAIN desk.fills /\ todo \subseteq DOMAIN desk.fills /\ seen \subseteq DOMAIN desk.fills
  BY <1>1 DEF BeliefAt
<1>3. desk' = desk \/ desk' = flat
  BY <1>1 DEF RolledBack
<1>4. Grown(desk, desk', FALSE)
  BY <1>2, <1>3, GrownSame, FlattenGrows
<1>5. Sane(desk') /\ seen' \subseteq DOMAIN desk'.fills /\ todo' \subseteq DOMAIN desk'.fills
  BY <1>1, <1>2, <1>4 DEF Grown
<1>6. Clean(desk') => Clean(desk)
  BY <1>4, WholeBefore
<1>7. CASE setup.name \notin Pairs
  <2>1. ~Live(intent) /\ \A s \in Symbols : Held(desk, s) \in {0, Lot(setup.policy, Quantity)}
    BY <1>7 DEF BeliefAt
  <2>2. outcome = "none"
    BY <2>1 DEF Outcome
  <2> HIDE DEF outcome, told, flat
  <2>3. desk' = desk /\ intent' = intent
    BY <1>1, <2>2
  <2> QED
    BY <1>1, <1>5, <1>7, <2>1, <2>3 DEF BeliefAt
<1>8. ASSUME setup.name \in Pairs, Clean(desk')
      PROVE  Believes(desk', intent', current', pc', todo')
  <2>1. Believes(desk, intent, current, pc, todo) /\ Even(desk)
    BY <1>6, <1>8 DEF BeliefAt, Believes
  <2>2. CASE ~Live(intent)
    <3>1. outcome = "none"
      BY <2>2 DEF Outcome
    <3> HIDE DEF outcome, told, flat
    <3>2. desk' = desk /\ intent' = intent /\ current' = current
      BY <1>1, <3>1 DEF PairAfter
    <3> QED
      BY <2>1, <2>2, <3>2 DEF Believes
  <2>3. CASE Live(intent)
    <3>1. /\ pc = "done" /\ Entered(desk, intent)
          /\ "applied" \in DOMAIN intent /\ "failed" \in DOMAIN intent
          /\ \E g \in todo : desk.fills[g].order \in Legs(intent)
      BY <2>1, <2>3 DEF Believes
    <3>2. \A i \in Legs(intent) : i \in DOMAIN desk.orders /\ desk.orders[i].status \in {"FILLED", "REJECTED"}
      BY <3>1 DEF Entered, WholeIn
    <3>3. /\ told.applied = (outcome = "opened") /\ told.failed = (outcome = "failed")
      <4> DEFINE a == outcome = "opened"
                 b == outcome = "failed"
      <4> HIDE DEF a, b
      <4>1. LET r == [intent EXCEPT !.applied = a, !.failed = b]
            IN  r.applied = a /\ r.failed = b /\ "applied" \in DOMAIN r /\ "failed" \in DOMAIN r
        BY <3>1, TwoFlags
      <4> QED
        BY Zenon, <4>1 DEF a, b
    <3>4. CASE desk.fills[f].order \notin Legs(intent)
      <4>1. outcome = "none"
        BY <3>4 DEF Outcome
      <4> HIDE DEF outcome, told, flat
      <4>2. desk' = desk /\ intent' = intent /\ current' = current /\ pc' = pc
        BY <1>1, <4>1 DEF PairAfter
      <4>3. \E g \in todo' : desk.fills[g].order \in Legs(intent)
        BY <1>1, <3>1, <3>4
      <4> QED
        BY <2>1, <2>3, <3>1, <4>2, <4>3 DEF Believes
    <3>5. CASE desk.fills[f].order \in Legs(intent) /\ \A i \in Legs(intent) : desk.orders[i].status = "FILLED"
      <4>1. outcome = "opened"
        BY <2>3, <3>5 DEF Outcome
      <4>2. ~Live(told)
        BY <3>3, <4>1 DEF Live
      <4> HIDE DEF outcome, told, flat
      <4>3. desk' = desk /\ intent' = told /\ current' = intent.pair
        BY <1>1, <4>1 DEF PairAfter
      <4>4. Owns(desk, intent.pair)
        <5> DEFINE pair == intent.pair
        <5>1. /\ pair # NoPair /\ pair[1] # pair[2] /\ pair[1] \in Symbols /\ pair[2] \in Symbols
              /\ Held(desk, pair[1]) > 0 /\ Held(desk, pair[2]) < 0
              /\ \A s \in Symbols \ {pair[1], pair[2]} : Held(desk, s) = 0
          BY <3>1, <3>5 DEF Entered, Legs
        <5>2. \A s \in Symbols : Held(desk, s) \in Int
          BY HeldInt
        <5> HIDE DEF pair
        <5>3. Owns(desk, pair)
          BY <5>1, <5>2 DEF Owns
        <5> QED
          BY <5>3 DEF pair
      <4> QED
        BY <2>1, <4>2, <4>3, <4>4 DEF Believes
    <3>6. CASE desk.fills[f].order \in Legs(intent) /\ \E i \in Legs(intent) : desk.orders[i].status # "FILLED"
      <4>1. outcome = "failed"
        <5>1. \E i \in Legs(intent) : LegFailed(desk.orders[i])
          BY <3>2, <3>6 DEF LegFailed
        <5> QED
          BY <2>3, <3>6, <5>1 DEF Outcome
      <4>2. ~Live(told)
        BY <3>3, <4>1 DEF Live
      <4> HIDE DEF outcome, told
      <4>3. desk' = RolledBack(desk, intent) /\ intent' = told /\ current' = NoPair
        BY <1>1, <4>1 DEF PairAfter
      <4>4. \A s \in Symbols : Held(desk', s) = 0
        <5>1. CASE \E i \in Legs(intent) : desk.orders[i].filled > 0
          <6>1. desk' = flat
            BY <4>3, <5>1 DEF RolledBack
          <6> QED
            BY <1>2, <1>8, <2>1, <6>1, FlattenClears
        <5>2. CASE ~\E i \in Legs(intent) : desk.orders[i].filled > 0
          <6> DEFINE pair == intent.pair
          <6>1. desk' = desk
            BY <4>3, <5>2 DEF RolledBack
          <6>2. \A i \in Legs(intent) : desk.orders[i].status # "FILLED"
            BY <3>1, <5>2 DEF Entered
          <6>3. /\ pair[1] \in Symbols /\ pair[2] \in Symbols
                /\ ~(Held(desk, pair[1]) > 0) /\ Held(desk, pair[1]) >= 0
                /\ ~(Held(desk, pair[2]) < 0) /\ Held(desk, pair[2]) <= 0
                /\ \A s \in Symbols \ {pair[1], pair[2]} : Held(desk, s) = 0
            BY <3>1, <6>2 DEF Entered, Legs
          <6>4. \A s \in Symbols : Held(desk, s) \in Int
            BY HeldInt
          <6> HIDE DEF pair
          <6>5. \A s \in Symbols : Held(desk, s) = 0
            BY <6>3, <6>4
          <6> QED
            BY <6>1, <6>5
        <5> QED
          BY <5>1, <5>2
      <4>5. Accounted(desk')
        BY <1>3, FlattenBooks DEF Books
      <4> QED
        BY <4>2, <4>3, <4>4, <4>5, EvenFlat, OwnsNothing DEF Believes
    <3> QED
      BY <3>4, <3>5, <3>6
  <2> QED
    BY <2>2, <2>3
<1>9. CASE setup.name \in Pairs
  <2> HIDE DEF outcome, told, flat
  <2>1. pc' \in {"told", "done"} /\ setup' = setup
    BY <1>1
  <2> QED
    BY <1>5, <1>8, <1>9, <2>1 DEF BeliefAt
<1> QED
  BY <1>7, <1>9

\* A decision of a strategy of one symbol.
LEMMA BeliefDecidedSingle ==
  ASSUME BeliefAt(setup, desk, intent, current, pc, todo, seen), Accounted(desk), desk.terms = setup,
         desk.terms.lag = 0, Decide, DecideSingle, ~desk'.raised, WholeIn(desk')
  PROVE  BeliefAt(setup', desk', intent', current', pc', todo', seen')
<1>1. /\ setup.name \notin Pairs /\ desk' = TradeSingle(setup.name, memory.prices, desk)
      /\ pc' = "done" /\ todo' = DOMAIN desk'.fills \ seen /\ UNCHANGED <<setup, seen, intent>>
  BY DEF Decide, DecideSingle
<1>2. /\ Sane(desk) /\ seen \subseteq DOMAIN desk.fills /\ ~Live(intent)
      /\ \A s \in Symbols : Held(desk, s) \in {0, Lot(setup.policy, Quantity)}
  BY <1>1 DEF BeliefAt
<1>3. Grown(desk, desk', TRUE)
  BY <1>1, <1>2, TradeSingleGrows
<1>4. Sane(desk') /\ seen' \subseteq DOMAIN desk'.fills
  BY <1>1, <1>2, <1>3 DEF Grown
<1>5. \A s \in Symbols : Held(desk', s) \in {0, Lot(setup.policy, Quantity)}
  <2> DEFINE lot == Lot(desk.terms.policy, Quantity)
  <2>1. \A s \in Symbols : Held(desk, s) \in {0, lot}
    BY <1>2
  <2>2. lot = Lot(desk.terms.policy, Quantity)
    OBVIOUS
  <2> HIDE DEF lot
  <2>3. \A s \in Symbols : Held(desk', s) \in {0, lot}
    BY <1>1, <1>2, <2>1, <2>2, SinglesHold
  <2> QED
    BY <2>2, <2>3
<1> QED
  BY <1>1, <1>2, <1>4, <1>5 DEF BeliefAt

\* A decision of a pair strategy.
LEMMA BeliefDecidedPair ==
  ASSUME MemoryInv, BeliefAt(setup, desk, intent, current, pc, todo, seen), Accounted(desk),
         desk.terms.lag = 0, Decide, DecidePair, ~desk'.raised, WholeIn(desk')
  PROVE  BeliefAt(setup', desk', intent', current', pc', todo', seen')
<1> DEFINE flat == Flatten(desk)
           open == OpenPair(flat, intent, Target)
           r == EnterPair(flat, Target)
<1>1. /\ setup.name \in Pairs /\ pc = "told" /\ pc' = "done" /\ todo' = DOMAIN desk'.fills \ seen
      /\ UNCHANGED <<setup, seen>>
  BY DEF Decide, DecidePair
<1>2. Sane(desk) /\ seen \subseteq DOMAIN desk.fills
  BY DEF BeliefAt
<1>3. Grown(desk, flat, FALSE) /\ Sane(flat)
  BY <1>2, FlattenGrows DEF Grown
<1>4. Accounted(flat) /\ flat.terms = desk.terms /\ flat.market = desk.market
  BY FlattenBooks DEF Books
<1>5. Clean(desk) => ~Live(intent) /\ Owns(desk, current) /\ Even(desk)
  BY <1>1 DEF BeliefAt, Believes
<1>6. \/ desk' = desk /\ intent' = intent /\ current' = current
      \/ desk' = flat /\ intent' = intent /\ current' = NoPair
      \/ /\ desk' = open.desk /\ intent' = open.intent /\ Target # NoPair
         /\ current' = IF open.sent THEN current ELSE NoPair
  BY DEF DecidePair, ExitPair, Rebalance
<1>7. Sane(open.desk) /\ DOMAIN flat.fills \subseteq DOMAIN open.desk.fills /\ (Clean(open.desk) => Clean(flat))
  <2> HIDE DEF flat
  <2> QED
    BY <1>3, OpenPairGrows
<1>8. (Clean(flat) => Clean(desk)) /\ DOMAIN desk.fills \subseteq DOMAIN flat.fills
  <2> HIDE DEF flat
  <2> QED
    BY <1>3 DEF Grown, Clean
<1> HIDE DEF open
<1>9. Sane(desk') /\ DOMAIN desk.fills \subseteq DOMAIN desk'.fills /\ (Clean(desk') => Clean(desk))
  <2> HIDE DEF flat
  <2> QED
    BY <1>2, <1>3, <1>6, <1>7, <1>8
<1>10. ASSUME Clean(flat), ~flat.raised, WholeIn(flat)
       PROVE  \A s \in Symbols : Held(flat, s) = 0
  BY <1>2, <1>5, <1>8, <1>10, FlattenClears
<1>11. flat = Flatten(desk)
  OBVIOUS
<1> HIDE DEF flat
<1>12. ASSUME Clean(desk') PROVE Believes(desk', intent', current', pc', todo')
  <2>1. ~Live(intent) /\ Owns(desk, current) /\ Even(desk)
    BY <1>5, <1>9, <1>12
  <2>2. CASE desk' = desk /\ intent' = intent /\ current' = current
    BY <2>1, <2>2 DEF Believes
  <2>3. CASE desk' = flat /\ intent' = intent /\ current' = NoPair
    <3>1. \A s \in Symbols : Held(flat, s) = 0
      BY <1>10, <1>12, <2>3
    <3> QED
      BY <1>4, <2>1, <2>3, <3>1, EvenFlat, OwnsNothing DEF Believes
  <2>4. CASE /\ desk' = r.desk /\ intent' = r.intent /\ Target # NoPair
             /\ current' = IF ~r.intent.failed THEN current ELSE NoPair
             /\ LegSize(flat, Target[1]) # 0 /\ LegSize(flat, Target[2]) # 0
    <3>1. Grown(flat, r.desk, TRUE)
      BY <1>3, EnterGrows
    <3>2. Target[1] # Target[2] /\ Target[1] \in DOMAIN flat.market /\ Target[2] \in DOMAIN flat.market
      BY <1>1, <2>4, PairDiffers DEF LegSize, Close
    <3>3. r = EnterPair(flat, Target)
      OBVIOUS
    <3>4. "applied" \in DOMAIN r.intent /\ "failed" \in DOMAIN r.intent
      BY EntryFlags
    <3> HIDE DEF r
    <3>5. ~flat.raised /\ WholeIn(flat) /\ Clean(flat)
      BY <1>12, <2>4, <3>1, WholeBefore
    <3>6. \A s \in Symbols : Held(flat, s) = 0
      BY <1>10, <3>5
    <3>7. LET e == r.desk
              held == r.intent
          IN  /\ Even(e) /\ held.pair = Target
              /\ \/ ~Live(held) /\ held.failed /\ \A s \in Symbols : Held(e, s) = 0
                 \/ /\ Live(held) /\ ~held.failed /\ Entered(e, held)
                    /\ \E f \in DOMAIN e.fills \ DOMAIN flat.fills : e.fills[f].order \in Legs(held)
      <4>1. Sane(flat) /\ Accounted(flat) /\ flat.terms.lag = 0 /\ Target # NoPair
        BY <1>3, <1>4, <2>4
      <4>2. ~r.desk.raised /\ WholeIn(r.desk)
        BY <2>4
      <4> DEFINE pair == Target
      <4>3. r = EnterPair(flat, pair) /\ pair # NoPair /\ pair[1] # pair[2]
            /\ pair[1] \in DOMAIN flat.market /\ pair[2] \in DOMAIN flat.market
        BY <3>2, <3>3, <4>1
      <4>4. Target = pair
        OBVIOUS
      <4> HIDE DEF pair
      <4>5. EnteredFrom(flat, r, pair)
        BY <3>6, <4>1, <4>2, <4>3, EntersFlat
      <4> QED
        BY <4>4, <4>5 DEF EnteredFrom
    <3>8. CASE ~Live(r.intent) /\ r.intent.failed /\ \A s \in Symbols : Held(r.desk, s) = 0
      BY <2>4, <3>7, <3>8, OwnsNothing DEF Believes
    <3>9. CASE /\ Live(r.intent) /\ Entered(r.desk, r.intent)
               /\ \E f \in DOMAIN r.desk.fills \ DOMAIN flat.fills : r.desk.fills[f].order \in Legs(r.intent)
      <4>1. \E f \in todo' : r.desk.fills[f].order \in Legs(r.intent)
        BY <1>1, <1>2, <1>8, <2>4, <3>9
      <4> QED
        BY <1>1, <2>4, <3>4, <3>7, <3>9, <4>1 DEF Believes
    <3> QED
      BY <3>7, <3>8, <3>9
  <2>5. CASE /\ desk' = open.desk /\ intent' = open.intent /\ Target # NoPair
             /\ current' = IF open.sent THEN current ELSE NoPair
    <3>1. \/ open.desk = flat /\ open.intent = intent /\ ~open.sent
          \/ /\ open.desk = r.desk /\ open.intent = r.intent /\ open.sent = ~r.intent.failed
             /\ LegSize(flat, Target[1]) # 0 /\ LegSize(flat, Target[2]) # 0
      BY <2>1 DEF open, OpenPair, Pending
    <3> HIDE DEF r
    <3> QED
      BY <2>3, <2>4, <2>5, <3>1
  <2> QED
    BY <1>6, <2>2, <2>3, <2>5
<1> QED
  BY <1>1, <1>2, <1>9, <1>12 DEF BeliefAt

LEMMA BeliefInit == Init => BeliefInv
<1> SUFFICES ASSUME Init PROVE BeliefInv
  OBVIOUS
<1>1. pc = "off" /\ desk = OpenDesk(Symbols, InitialCash, setup)
  BY DEF Init
<1>2. desk.terms = setup
  BY <1>1 DEF OpenDesk
<1> QED
  BY <1>1, <1>2 DEF BeliefInv

\* A run keeps its terms.
LEMMA TermsStep ==
  ASSUME BooksInv, desk.terms = setup, [Next]_vars
  PROVE  desk'.terms = setup' /\ setup' = setup
<1>1. Accounted(desk)
  BY DEF BooksInv, BooksAt
<1>2. ASSUME NEW reset \in BOOLEAN, Start(reset) PROVE desk'.terms = setup' /\ setup' = setup
  BY <1>2 DEF Start, OpenDesk
<1>3. ASSUME NEW snap \in Snapshots, NEW gap \in Gaps, Process(snap, gap)
      PROVE  desk'.terms = setup' /\ setup' = setup
  <2> DEFINE book == [s \in DOMAIN desk.book |-> IF s \in DOMAIN snap THEN snap[s].last ELSE desk.book[s]]
             fed == [desk EXCEPT !.market = snap, !.time = clock', !.book = book]
             orders == [i \in DOMAIN fed.orders |->
                          IF fed.orders[i].status = "CREATED" /\ clock' >= fed.orders[i].active
                          THEN AfterAccept(fed.orders[i]) ELSE fed.orders[i]]
             e == [fed EXCEPT !.orders = orders]
  <2>1. desk' = e /\ setup' = setup
    BY <1>1, <1>3 DEF Process, Fed, Activated, Accounted
  <2>2. fed.terms = desk.terms
    <3> HIDE DEF book
    <3> QED
      OBVIOUS
  <2> HIDE DEF fed, orders
  <2>3. e.terms = fed.terms
    OBVIOUS
  <2> HIDE DEF e
  <2> QED
    BY <2>1, <2>2, <2>3
<1>4. CASE Settle
  <2> DEFINE orders == [i \in DOMAIN desk.orders |->
                          IF desk.orders[i].status = "CREATED" THEN AfterAccept(desk.orders[i]) ELSE desk.orders[i]]
             e == [desk EXCEPT !.orders = orders]
  <2>1. desk' \in {desk, e} /\ setup' = setup
    BY <1>1, <1>4 DEF Settle, Accounted
  <2> HIDE DEF orders
  <2>2. e.terms = desk.terms
    OBVIOUS
  <2> HIDE DEF e
  <2> QED
    BY <2>1, <2>2
<1>5. ASSUME NEW i \in todo, Match(i) PROVE desk'.terms = setup' /\ setup' = setup
  <2>1. pc \in {"match", "settle"} /\ desk' = Matched(desk, i) /\ setup' = setup
    BY <1>5 DEF Match
  <2>2. i \in DOMAIN desk.orders
    BY <2>1 DEF BooksInv
  <2>3. Books(desk, Matched(desk, i))
    BY <1>1, <2>2, MatchedBooks
  <2> QED
    BY <2>1, <2>3 DEF Books
<1>6. CASE EndMatch
  BY <1>6 DEF EndMatch, Recorded
<1>7. ASSUME NEW f \in todo, OnFill(f) PROVE desk'.terms = setup' /\ setup' = setup
  <2>1. desk' \in {desk, Flatten(desk)} /\ setup' = setup
    BY <1>7 DEF OnFill, RolledBack
  <2>2. Flatten(desk).terms = desk.terms
    BY <1>1, FlattenBooks DEF Books
  <2> QED
    BY <2>1, <2>2
<1>8. CASE Decide
  <2>1. Books(desk, desk') /\ setup' = setup
    BY <1>8, BooksDecided DEF Decide
  <2> QED
    BY <2>1 DEF Books
<1>9. CASE EndEvent \/ Truncate \/ Save \/ Stop \/ UNCHANGED vars
  BY <1>9 DEF EndEvent, Truncate, Save, Stop, vars
<1> QED
  BY <1>2, <1>3, <1>4, <1>5, <1>6, <1>7, <1>8, <1>9 DEF Next

\* Every step of every actor keeps the belief and the positions together, as
\* long as every order trades whole.
LEMMA BeliefStep ==
  MemoryInv /\ BooksInv /\ BeliefInv /\ TradesWhole /\ TradesWhole' /\ [Next]_vars => BeliefInv'
<1> SUFFICES ASSUME MemoryInv, BooksInv, BeliefInv, TradesWhole, TradesWhole', [Next]_vars
             PROVE  BeliefInv'
  OBVIOUS
<1>1. /\ setup \in Setups /\ Accounted(desk) /\ desk.terms = setup /\ (pc = "idle" => ~desk.raised)
      /\ desk'.terms = setup' /\ setup' = setup
  BY TermsStep DEF BooksInv, BooksAt, BeliefInv
<1> DEFINE Now == BeliefAt(setup, desk, intent, current, pc, todo, seen)
           Then == BeliefAt(setup', desk', intent', current', pc', todo', seen')
<1>2. SUFFICES /\ pc' = "idle" => ~desk'.raised
               /\ setup.lag = 0 /\ pc' # "off" /\ ~desk'.raised => Then
  BY <1>1 DEF BeliefInv, Instant
<1>3. ASSUME NEW reset \in BOOLEAN, Start(reset) PROVE Then /\ ~desk'.raised
  BY <1>1, <1>3, BeliefStarts
<1>4. ASSUME ~\E reset \in BOOLEAN : Start(reset)
      PROVE  /\ pc' = "idle" => ~desk'.raised
             /\ pc' # "off" /\ ~desk'.raised => pc # "off" /\ ~desk.raised
  <2>1. ASSUME NEW snap \in Snapshots, NEW gap \in Gaps, Process(snap, gap)
        PROVE  pc = "idle" /\ pc' = "match"
    BY <2>1 DEF Process
  <2>2. CASE Settle
    BY <1>1, <2>2 DEF Settle
  <2>3. ASSUME NEW i \in todo, Match(i) PROVE ~desk.raised /\ pc \in {"match", "settle"} /\ pc' = pc
    BY <2>3 DEF Match
  <2>4. CASE EndMatch
    BY <2>4 DEF EndMatch
  <2>5. ASSUME NEW f \in todo, OnFill(f) PROVE ~desk.raised /\ pc \in {"told", "done"} /\ pc' = pc
    BY <2>5 DEF OnFill
  <2>6. CASE Decide \/ EndEvent
    BY <2>6 DEF Decide, EndEvent
  <2>7. CASE Truncate \/ Save \/ Stop \/ UNCHANGED vars
    BY <1>1, <2>7 DEF Truncate, Save, Stop, vars
  <2> QED
    BY <1>1, <1>4, <2>1, <2>2, <2>3, <2>4, <2>5, <2>6, <2>7 DEF Next
<1>5. ASSUME setup.lag = 0, pc' # "off", ~desk'.raised, ~\E reset \in BOOLEAN : Start(reset)
      PROVE  Then
  <2>1. pc # "off" /\ ~desk.raised
    BY <1>4, <1>5
  <2>2. /\ Now /\ WholeIn(desk) /\ WholeIn(desk') /\ desk.terms.lag = 0
    BY <1>1, <1>5, <2>1 DEF BeliefInv, TradesWhole, Instant
  <2>3. ASSUME NEW snap \in Snapshots, NEW gap \in Gaps, Process(snap, gap) PROVE Then
    BY <1>1, <2>2, <2>3, BeliefProcessed
  <2>4. CASE Settle
    BY <2>2, <2>4, BeliefSettled
  <2>5. ASSUME NEW i \in todo, Match(i) PROVE FALSE
    BY <2>2, <2>5 DEF Match, BeliefAt
  <2>6. CASE EndMatch
    BY <1>1, <2>2, <2>6, BeliefMatchEnds
  <2>7. ASSUME NEW f \in todo, OnFill(f) PROVE Then
    BY <1>1, <1>5, <2>2, <2>7, BeliefTold
  <2>8. CASE Decide
    <3>1. CASE DecidePair
      BY <1>1, <1>5, <2>2, <2>8, <3>1, BeliefDecidedPair
    <3>2. CASE DecideSingle
      BY <1>1, <1>5, <2>2, <2>8, <3>2, BeliefDecidedSingle
    <3> QED
      BY <2>8, <3>1, <3>2 DEF Decide
  <2>9. CASE EndEvent
    BY <2>2, <2>9, BeliefEnds
  <2>10. CASE Truncate
    BY <2>2, <2>10 DEF Truncate
  <2>11. CASE Save \/ Stop
    BY <1>5, <2>11 DEF Save, Stop
  <2>12. CASE UNCHANGED vars
    BY <2>2, <2>12 DEF vars
  <2> HIDE DEF Now, Then
  <2> QED
    BY <1>5, <2>3, <2>4, <2>5, <2>6, <2>7, <2>8, <2>9, <2>10, <2>11, <2>12 DEF Next
<1> HIDE DEF Now, Then
<1> QED
  BY <1>3, <1>4, <1>5

LEMMA BeliefImplies == BooksInv /\ BeliefInv => BeliefHeld
<1> SUFFICES ASSUME BooksInv, BeliefInv, pc = "idle", Instant
             PROVE  IF setup.name \notin Pairs THEN \A s \in Symbols : Held(desk, s) \in 0..Quantity
                    ELSE Clean(desk) => Owns(desk, current)
  BY DEF BeliefHeld, Clean, Owns
<1>1. BeliefAt(setup, desk, intent, current, pc, todo, seen)
  BY DEF BeliefInv
<1>2. CASE setup.name \in Pairs
  BY <1>1, <1>2 DEF BeliefAt, Believes
<1>3. CASE setup.name \notin Pairs
  <2>1. Lot(setup.policy, Quantity) \in 0..Quantity /\ 0 \in 0..Quantity
    <3>1. setup.policy.quantum \in Nat \ {0} /\ Quantity \in Nat
      BY DeskAssumption, SingleAssumption DEF BooksInv
    <3> QED
      BY <3>1, LotTwice
  <2> QED
    BY <1>1, <1>3, <2>1 DEF BeliefAt
<1> QED
  BY <1>2, <1>3

----------------------------------------------------------------------------
(* Orders that trade at once trade whole, unless one is filled in part *)

NoPartIn(d) == \A i \in DOMAIN d.orders : d.orders[i].status # "PARTIALLY_FILLED"

\* While orders trade at once none is filled in part.
NothingPartly == Instant => NoPartIn(desk)

\* What is held has been quoted, and the book shows what the strategy is shown.
BookShows(d) ==
  /\ \A s \in Symbols : Held(d, s) # 0 => d.book[s] # NoRow
  /\ \A s \in DOMAIN d.market : d.book[s] = d.market[s].last

\* The limit of an order is at least as aggressive as the price it was made from.
LEMMA LimitCrosses ==
  ASSUME NEW policy, policy.tick \in Nat \ {0}, policy.offset \in Nat, NEW price \in Nat
  PROVE  OffsetLimit(policy, price, "BUY") >= price /\ OffsetLimit(policy, price, "SELL") <= price
<1> DEFINE k == policy.tick
           off == policy.offset
           up == price + off + k - 1
           down == price - off
           a == up \div k
           b == down \div k
           r == up % k
           t == down % k
<1>1. k \in Nat \ {0} /\ off \in Nat
  OBVIOUS
<1>2. OffsetLimit(policy, price, "BUY") = k * a /\ OffsetLimit(policy, price, "SELL") = k * b
  BY DEF OffsetLimit, SnapToTick
<1> HIDE DEF k, off
<1>3. up \in Int /\ down \in Int /\ up >= price + k - 1 /\ down <= price
  BY <1>1
<1> HIDE DEF up, down
<1>4. a \in Int /\ b \in Int /\ r \in 0..(k - 1) /\ t \in 0..(k - 1) /\ up = k * a + r /\ down = k * b + t
  BY <1>1, <1>3
<1> HIDE DEF a, b, r, t
<1>5. k * a \in Int /\ k * b \in Int
  BY <1>1, <1>4, Products
<1> QED
  BY <1>1, <1>2, <1>3, <1>4, <1>5

LEMMA LimitInt ==
  ASSUME NEW policy, policy.tick \in Nat \ {0}, policy.offset \in Nat, NEW price \in Nat
  PROVE  OffsetLimit(policy, price, "BUY") \in Int /\ OffsetLimit(policy, price, "SELL") \in Int
<1> DEFINE k == policy.tick
           up == price + policy.offset
           down == price - policy.offset
           a == (up + k - 1) \div k
           b == down \div k
<1>1. k \in Nat \ {0} /\ up \in Int /\ down \in Int
  OBVIOUS
<1>2. OffsetLimit(policy, price, "BUY") = k * a /\ OffsetLimit(policy, price, "SELL") = k * b
  BY DEF OffsetLimit, SnapToTick
<1> HIDE DEF k, up, down
<1>3. a \in Int /\ b \in Int
  BY <1>1
<1> HIDE DEF a, b
<1> QED
  BY <1>1, <1>2, <1>3, Products

\* An order the book has a price for is settled when it is matched.
LEMMA MatchedDecides ==
  ASSUME NEW d, Sane(d), Accounted(d), NEW i \in DOMAIN d.orders,
         d.orders[i].status = "ACCEPTED", d.orders[i].filled = 0,
         d.book[d.orders[i].symbol] # NoRow,
         \/ d.orders[i].type = "MARKET"
         \/ d.book[d.orders[i].symbol] > 0 /\ Crosses(SpecOf(d, d.orders[i]), d.book[d.orders[i].symbol]),
         ~Matched(d, i).raised
  PROVE  Matched(d, i).orders[i].status \in {"FILLED", "REJECTED", "PARTIALLY_FILLED"}
<1> DEFINE o == d.orders[i]
           s == o.symbol
           raw == d.book[s]
           sizes == Fillable(d, o)
           most == CHOOSE n \in sizes : \A m \in sizes : m <= n
           closed == [d EXCEPT !.orders[i] = AfterClose(o, TRUE)]
           e == Matched(d, i)
<1>1. s \in Symbols /\ o.qty \in Int /\ o.filled = 0 /\ raw \in Nat \cup {NoRow} /\ o.status = "ACCEPTED"
      /\ {"symbol", "qty", "filled", "status"} \subseteq DOMAIN o
  BY DEF Accounted
<1>2. o.type = "MARKET" => Crosses(SpecOf(d, o), raw)
  BY DEF Crosses, SpecOf
<1>3. \/ d.raised /\ e = d
      \/ e = closed
      \/ ~d.raised /\ e = Filled(d, i, most)
  <2> DEFINE crosses == Crosses(SpecOf(d, o), raw)
             filled == Filled(d, i, most)
  <2>1. raw > 0 => crosses
    BY <1>2
  <2>2. raw # NoRow /\ ~(raw = 0 /\ o.type = "LIMIT")
    <3>1. raw # NoRow
      OBVIOUS
    <3>2. raw = 0 => o.type = "MARKET"
      OBVIOUS
    <3> QED
      BY <3>1, <3>2
  <2>3. e = IF d.raised \/ raw = NoRow \/ (raw = 0 /\ o.type = "LIMIT") THEN d
            ELSE IF raw > 0 /\ ~crosses THEN d
            ELSE IF raw = 0 \/ sizes = {}
            THEN IF o.type = "MARKET" \/ o.filled = 0 THEN closed ELSE d
            ELSE filled
    BY DEF Matched
  <2> HIDE DEF e, filled, closed, sizes, raw, crosses, o
  <2> QED
    BY <1>1, <2>1, <2>2, <2>3 DEF filled
<1>4. CASE e = closed
  <2> DEFINE r == AfterClose(o, TRUE)
  <2>1. r.status = "REJECTED"
    BY <1>1 DEF AfterClose, AfterReject, MoveTo
  <2> HIDE DEF r
  <2>2. closed.orders[i] = r
    BY DEF Accounted, r
  <2> HIDE DEF closed, e
  <2> QED
    BY <1>4, <2>1, <2>2 DEF e
<1>5. CASE ~d.raised /\ e = Filled(d, i, most)
  <2> DEFINE n == most
             price == ExecPrice(o.side, d.book[s])
             b == Booked(d, s, o.side, n, price)
             r == AfterFill(o, n)
             done == [b EXCEPT !.orders[i] = r, !.fills = Append(@, [order |-> i, qty |-> n])]
             stuck == [d EXCEPT !.raised = TRUE]
  <2>1. e = IF price <= 0 THEN stuck ELSE IF b.raised THEN b ELSE done
    BY <1>5 DEF Filled
  <2>2. stuck.raised
    BY DEF Accounted
  <2>3. b.orders = d.orders /\ "orders" \in DOMAIN b
    <3> HIDE DEF price
    <3> QED
      BY DEF Booked, Accounted
  <2>4. r.status \in {"FILLED", "PARTIALLY_FILLED"}
    <3> HIDE DEF most
    <3> QED
      BY <1>1 DEF AfterFill, StatusAfterFill
  <2> HIDE DEF b, stuck, r, price, n
  <2>5. done.orders[i] = r
    BY <2>3
  <2> HIDE DEF e, done
  <2>6. e = done
    BY <2>1, <2>2 DEF e
  <2> QED
    BY <2>4, <2>5, <2>6 DEF e
<1> HIDE DEF e
<1> QED
  BY <1>3, <1>4, <1>5 DEF e

\* Nothing in the market, and what is held has been quoted.
Settling(d) == WholeIn(d) /\ BookShows(d)

LEMMA SubmitDecides ==
  ASSUME NEW d, Sane(d), Accounted(d), d.terms.lag = 0, Settling(d),
         d.terms.policy.tick \in Nat \ {0}, d.terms.policy.offset \in Nat,
         NEW s \in Symbols, NEW side \in {"BUY", "SELL"}, NEW qty \in Int, NEW entry, d.book[s] # NoRow,
         NEW e, e = Submit(d, s, side, qty, entry), ~e.raised, NoPartIn(e)
  PROVE  Settling(e)
<1> DEFINE n == Len(d.orders) + 1
           to == Translated(d, s, side, qty)
           created == [symbol |-> s, side |-> side, type |-> to.type, limit |-> to.limit,
                       qty |-> to.qty, filled |-> 0, status |-> "CREATED", at |-> d.time,
                       active |-> d.time + d.terms.lag, entry |-> entry]
           o == AfterAccept(created)
           p == [d EXCEPT !.orders = Append(@, o)]
           stuck == [d EXCEPT !.raised = TRUE]
           raises == Raises(d, s, side, qty)
<1>1. e = IF d.raised THEN d ELSE IF raises THEN stuck ELSE Matched(p, Len(p.orders))
  BY DEF Submit
<1>2. ~raises => \/ to.type = "MARKET"
                 \/ /\ to.type = "LIMIT" /\ d.book[s] > 0
                    /\ side = "BUY" => d.book[s] <= to.limit
                    /\ side = "SELL" => d.book[s] >= to.limit
  <2> SUFFICES ASSUME ~raises, ~d.terms.policy.noop
               PROVE  /\ to.type = "LIMIT" /\ d.book[s] > 0
                      /\ side = "BUY" => d.book[s] <= to.limit
                      /\ side = "SELL" => d.book[s] >= to.limit
    BY DEF Translated
  <2> DEFINE price == Close(d, s)
  <2>1. to.type = "LIMIT" /\ to.limit = OffsetLimit(d.terms.policy, price, side)
    BY DEF Translated
  <2>2. ~(price <= 0)
    BY DEF Raises
  <2>3. s \in DOMAIN d.market /\ price = d.market[s].last
    BY <2>2 DEF Close
  <2>4. d.book[s] = price /\ price \in Nat /\ price > 0
    BY <2>2, <2>3 DEF Settling, BookShows, Accounted
  <2> HIDE DEF to, price
  <2>5. OffsetLimit(d.terms.policy, price, "BUY") >= price /\ OffsetLimit(d.terms.policy, price, "SELL") <= price
    BY <2>4, LimitCrosses
  <2>6. OffsetLimit(d.terms.policy, price, "BUY") \in Int /\ OffsetLimit(d.terms.policy, price, "SELL") \in Int
    BY <2>4, LimitInt
  <2> QED
    BY <2>1, <2>4, <2>5, <2>6
<1>3. to.qty \in Int
  BY TranslatedInt
<1> HIDE DEF to, raises
<1>4. /\ {"symbol", "qty", "filled", "status", "entry"} \subseteq DOMAIN o
      /\ o.symbol = s /\ o.side = side /\ o.qty = to.qty /\ o.filled = 0 /\ o.status = "ACCEPTED"
      /\ o.type = to.type /\ o.limit = to.limit
  BY DEF AfterAccept, MoveTo
<1> HIDE DEF o
<1>5. /\ Sane(p) /\ Accounted(p) /\ p.raised = d.raised
      /\ n \in DOMAIN p.orders /\ n \notin DOMAIN d.orders /\ Len(p.orders) = n /\ p.orders[n] = o
  BY <1>3, <1>4, OrderAdded
<1>6. stuck.raised /\ p.book = d.book
  BY DEF Accounted
<1> HIDE DEF p, stuck, n
<1>7. e = Matched(p, n) /\ ~raises
  BY <1>1, <1>5, <1>6
<1>8. DOMAIN e.orders = DOMAIN p.orders
  BY <1>5, <1>7, MatchedTouchesOne DEF MatchedOne
<1>9. e.orders[n].status \in {"FILLED", "REJECTED", "PARTIALLY_FILLED"}
  <2>1. o.type = "MARKET" \/ (p.book[s] > 0 /\ Crosses(SpecOf(p, o), p.book[s]))
    BY <1>2, <1>4, <1>6, <1>7 DEF Crosses, SpecOf
  <2> QED
    BY <1>4, <1>5, <1>6, <1>7, <2>1, MatchedDecides
<1>10. Grown(d, e, entry) /\ Books(d, e) /\ Len(e.orders) = Len(d.orders) + 1
  BY SubmitGrows, SubmitBooks
<1>11. \A i \in DOMAIN e.orders : i = n \/ i \in DOMAIN d.orders
  <2>1. /\ Len(d.orders) \in Nat /\ DOMAIN d.orders = 1..Len(d.orders) /\ DOMAIN e.orders = 1..Len(e.orders)
    BY <1>10, ListedDomain DEF Sane, Listed, Grown
  <2> QED
    BY <1>10, <2>1 DEF n
<1>12. WholeIn(e)
  <2> SUFFICES ASSUME NEW i \in DOMAIN e.orders PROVE e.orders[i].status \in {"FILLED", "REJECTED"}
    BY DEF WholeIn
  <2>1. CASE i = n
    BY <1>9, <2>1 DEF NoPartIn
  <2>2. CASE i \in DOMAIN d.orders
    BY <1>10, <2>2 DEF Grown, Settling, WholeIn
  <2> QED
    BY <1>11, <2>1, <2>2
<1>13. \A r \in Symbols : Held(e, r) = Held(d, r) \/ r = s
  <2> DEFINE m == Len(d.orders) + 1
             lot == Lot(d.terms.policy, qty)
  <2>1. Moved(d, e, m, s, side, lot)
    BY <1>12, SubmitMoves
  <2> HIDE DEF m, lot
  <2> QED
    BY <2>1 DEF Moved, Held
<1>14. BookShows(e)
  BY <1>10, <1>13 DEF BookShows, Settling, Books
<1> QED
  BY <1>12, <1>14 DEF Settling

\* As long as nothing was raised and no order is filled in part.
Fine(d) == ~d.raised /\ NoPartIn(d)

LEMMA FineBefore ==
  ASSUME NEW d, NEW e, NEW entry, Grown(d, e, entry), Fine(e)
  PROVE  Fine(d)
<1>1. \A i \in DOMAIN d.orders : i \in DOMAIN e.orders /\ e.orders[i] = d.orders[i]
  BY DEF Grown
<1> QED
  BY <1>1 DEF Grown, Fine, NoPartIn

Policed(d) ==
  d.terms.lag = 0 /\ d.terms.policy.tick \in Nat \ {0} /\ d.terms.policy.offset \in Nat

LEMMA EachDecides ==
  ASSUME NEW d, Sane(d), Accounted(d), Policed(d), Settling(d), NEW wanted, NEW entry,
         Len(wanted) \in Nat, 1..Len(wanted) = Symbols,
         \A s \in Symbols : /\ wanted[s].qty \in Int
                            /\ wanted[s].qty # 0 => wanted[s].side \in {"BUY", "SELL"} /\ d.book[s] # NoRow,
         NEW e, e = SubmitEach(d, wanted, entry), Fine(e)
  PROVE  Settling(e)
<1> DEFINE n == Len(wanted)
<1>1. PICK g : IsWalk(g, d, wanted, entry, n) /\ SubmitEach(d, wanted, entry) = g[n]
  BY SubmitEachWalk
<1>0. 1..n = Symbols
  OBVIOUS
<1> HIDE DEF n
<1>2. n \in Nat /\ n \in 0..n
  BY DEF n
<1> DEFINE Good == {s \in 0..n : /\ Grown(d, g[s], entry) /\ Books(d, g[s])
                                 /\ Fine(g[s]) => Settling(g[s])}
<1>3. g[0] = d /\ \A s \in 1..n : g[s] = IF wanted[s].qty = 0 THEN g[s - 1]
                                         ELSE Submit(g[s - 1], s, wanted[s].side, wanted[s].qty, entry)
  <2>1. 0 \in 0..n /\ \A s \in 1..n : s \in 0..n /\ s # 0
    BY <1>2
  <2> QED
    BY <1>1, <2>1 DEF IsWalk
<1>4. 0 \in Good
  <2>1. 0 \in 0..n
    BY <1>2
  <2> QED
    BY <1>3, <2>1, GrownSame, BooksSame
<1>5. ASSUME NEW s \in 0..(n - 1), s \in Good PROVE s + 1 \in Good
  <2>1. s + 1 \in 1..n /\ s + 1 \in 0..n /\ s + 1 - 1 = s
    BY <1>2
  <2> DEFINE a == g[s]
             b == g[s + 1]
             w == wanted[s + 1]
             next == Submit(a, s + 1, w.side, w.qty, entry)
  <2>2. /\ Grown(d, a, entry) /\ Books(d, a) /\ Sane(a) /\ Accounted(a) /\ a.terms = d.terms /\ a.book = d.book
        /\ Fine(a) => Settling(a)
    BY <1>5 DEF Books, Grown
  <2>3. b = IF w.qty = 0 THEN a ELSE next
    BY <1>3, <2>1
  <2>4. s + 1 \in Symbols /\ w.qty \in Int
        /\ (w.qty # 0 => w.side \in {"BUY", "SELL"} /\ a.book[s + 1] # NoRow)
    BY <1>0, <2>1, <2>2
  <2> HIDE DEF a, b, w
  <2>5. Books(a, next) /\ Grown(a, next, entry)
    BY <2>2, <2>4, SubmitBooks, SubmitGrows
  <2>6. Books(a, a) /\ Grown(a, a, entry)
    BY <2>2, BooksSame, GrownSame
  <2>7. Books(d, b) /\ Grown(d, b, entry) /\ Grown(a, b, entry)
    <3> HIDE DEF next
    <3>1. Books(a, b) /\ Grown(a, b, entry)
      BY <2>3, <2>5, <2>6
    <3> QED
      BY <2>2, <3>1, BooksThrough, GrownThrough
  <2>8. ASSUME Fine(b) PROVE Settling(b)
    <3>1. Settling(a)
      BY <2>2, <2>7, <2>8, FineBefore
    <3>2. CASE w.qty = 0
      BY <2>3, <3>1, <3>2
    <3>3. CASE w.qty # 0
      <4> DEFINE sd == w.side
                 q == w.qty
      <4>1. b = Submit(a, s + 1, sd, q, entry) /\ sd \in {"BUY", "SELL"} /\ q \in Int /\ a.book[s + 1] # NoRow
        BY <2>3, <2>4, <3>3
      <4> HIDE DEF sd, q
      <4>2. /\ a.terms.lag = 0 /\ a.terms.policy.tick \in Nat \ {0} /\ a.terms.policy.offset \in Nat
            /\ ~b.raised /\ NoPartIn(b)
        BY <2>2, <2>8 DEF Policed, Fine
      <4> QED
        BY <2>2, <2>4, <3>1, <4>1, <4>2, SubmitDecides
    <3> QED
      BY <3>2, <3>3
  <2> QED
    BY <2>1, <2>7, <2>8 DEF b
<1>6. \A s \in 0..n : s \in Good
  <2> HIDE DEF Good
  <2> QED
    BY <1>2, <1>4, <1>5, CountInduction
<1>7. n \in Good /\ e = g[n]
  BY <1>1, <1>2, <1>6
<1> QED
  BY <1>7

LEMMA FlattenDecides ==
  ASSUME NEW d, Sane(d), Accounted(d), Policed(d), Settling(d), NEW e, e = Flatten(d), Fine(e)
  PROVE  Settling(e)
<1> DEFINE wanted == [s \in Symbols |-> [side |-> Opposite(d, s), qty |-> Abs(Held(d, s))]]
<1>1. DOMAIN wanted = Symbols /\ wanted = [s \in Symbols |-> wanted[s]]
  OBVIOUS
<1>2. \A s \in Symbols : wanted[s].side = Opposite(d, s) /\ wanted[s].qty = Abs(Held(d, s))
  OBVIOUS
<1>3. e = SubmitEach(d, wanted, FALSE)
  BY DEF Flatten
<1> HIDE DEF wanted
<1>4. Len(wanted) \in Nat /\ 1..Len(wanted) = Symbols
  BY <1>1, WantedEach
<1>5. ASSUME NEW s \in Symbols
      PROVE  /\ wanted[s].qty \in Int
             /\ wanted[s].qty # 0 => wanted[s].side \in {"BUY", "SELL"} /\ d.book[s] # NoRow
  <2>1. Held(d, s) \in Int
    BY HeldInt
  <2>2. Abs(Held(d, s)) # 0 => d.book[s] # NoRow
    BY <2>1 DEF Abs, Settling, BookShows
  <2> QED
    BY <1>2, <2>1, <2>2 DEF Abs, Opposite
<1> QED
  BY <1>3, <1>4, <1>5, EachDecides

LEMMA SinglesDecide ==
  ASSUME NEW d, Sane(d), Accounted(d), Policed(d), Settling(d), NEW name, NEW prices,
         NEW e, e = TradeSingle(name, prices, d), Fine(e)
  PROVE  Settling(e)
<1> DEFINE Side(s) == IF s \in DOMAIN d.market
                      THEN SideOf(name, s, prices[s], d.market[s]) ELSE "NONE"
           wanted == [s \in Symbols |-> [side |-> Side(s),
                                         qty |-> IF Tradable(d, s, Side(s)) THEN Quantity ELSE 0]]
<1>1. DOMAIN wanted = Symbols /\ wanted = [s \in Symbols |-> wanted[s]]
  OBVIOUS
<1>2. e = SubmitEach(d, wanted, TRUE)
  BY DEF TradeSingle
<1>3. ASSUME NEW s \in Symbols
      PROVE  /\ wanted[s].qty \in Int
             /\ wanted[s].qty # 0 => wanted[s].side \in {"BUY", "SELL"} /\ s \in DOMAIN d.market
  <2> DEFINE sd == Side(s)
  <2>1. wanted[s].side = sd /\ wanted[s].qty = IF Tradable(d, s, sd) THEN Quantity ELSE 0
    OBVIOUS
  <2>2. s \notin DOMAIN d.market => sd = "NONE"
    OBVIOUS
  <2> HIDE DEF sd, wanted
  <2>3. Tradable(d, s, sd) => sd \in {"BUY", "SELL"}
    BY DEF Tradable
  <2>4. s \notin DOMAIN d.market => ~Tradable(d, s, sd)
    BY <2>2 DEF Tradable
  <2> QED
    BY <2>1, <2>3, <2>4, SingleAssumption
<1> HIDE DEF wanted
<1>4. Len(wanted) \in Nat /\ 1..Len(wanted) = Symbols
  BY <1>1, WantedEach
<1>5. \A s \in DOMAIN d.market : d.book[s] # NoRow
  BY DEF Settling, BookShows, Accounted, NoRow
<1> QED
  BY <1>2, <1>3, <1>4, <1>5, EachDecides

\* A leg is only sized at a price the strategy was shown.
LEMMA EnterDecides ==
  ASSUME NEW d, Sane(d), Accounted(d), Policed(d), Settling(d), NEW pair,
         LegSize(d, pair[1]) # 0, LegSize(d, pair[2]) # 0,
         NEW e, e = EnterPair(d, pair).desk, Fine(e)
  PROVE  Settling(e)
<1> DEFINE a == pair[1]
           b == pair[2]
           m == LegSize(d, a)
           n == LegSize(d, b)
           sold == Submit(d, b, "SELL", n, TRUE)
<1>1. a \in DOMAIN d.market /\ b \in DOMAIN d.market
  BY DEF LegSize, Close
<1>2. a \in Symbols /\ b \in Symbols /\ d.book[a] # NoRow /\ d.book[b] # NoRow
  BY <1>1 DEF Settling, BookShows, Accounted, NoRow
<1>3. m \in Int /\ n \in Int
  BY <1>1, CapitalAssumption DEF LegSize, Close, Accounted
<1>4. LegSize(sold, a) = m
  <2>1. Books(d, sold)
    BY <1>2, <1>3, SubmitBooks
  <2> HIDE DEF sold
  <2> QED
    BY <2>1 DEF Books, LegSize, Close
<1>5. e = Submit(sold, a, "BUY", m, TRUE)
  BY <1>4 DEF EnterPair
<1> HIDE DEF a, b, m, n
<1>6. Books(d, sold) /\ Grown(d, sold, TRUE)
  BY <1>2, <1>3, SubmitBooks, SubmitGrows
<1>7. sold = Submit(d, b, "SELL", n, TRUE)
  OBVIOUS
<1> HIDE DEF sold
<1>8. /\ Sane(sold) /\ Accounted(sold) /\ sold.book = d.book /\ sold.terms = d.terms
  BY <1>6 DEF Books, Grown
<1>9. Grown(sold, e, TRUE)
  BY <1>5, <1>8, SubmitGrows
<1>10. Fine(sold)
  BY <1>9, FineBefore
<1>11. Settling(sold)
  BY <1>2, <1>3, <1>7, <1>10, SubmitDecides DEF Fine, Policed
<1>12. /\ sold.terms.lag = 0 /\ sold.terms.policy.tick \in Nat \ {0} /\ sold.terms.policy.offset \in Nat
       /\ sold.book[a] # NoRow
  BY <1>2, <1>8 DEF Policed
<1> QED
  BY <1>2, <1>3, <1>5, <1>8, <1>11, <1>12, SubmitDecides DEF Fine

\* No leg of the entry it would act on is in the market.
Over(d, held) == Live(held) => \A i \in Legs(held) : ~InFlight(d.orders[i])

\* There is nothing that a new entry could cancel.
LEMMA OpensOver ==
  ASSUME NEW d, NEW held, Over(d, held), NEW pair
  PROVE  LET e == OpenPair(d, held, pair).desk
         IN  \/ e = d
             \/ /\ e = EnterPair(d, pair).desk
                /\ LegSize(d, pair[1]) # 0 /\ LegSize(d, pair[2]) # 0
<1> DEFINE cancelled == CancelInFlight(d, held)
           free == IF Live(held) /\ held.pair # pair THEN cancelled ELSE d
           r == EnterPair(free, pair).desk
<1>1. \/ OpenPair(d, held, pair).desk = d
      \/ OpenPair(d, held, pair).desk = r /\ LegSize(d, pair[1]) # 0 /\ LegSize(d, pair[2]) # 0
  BY DEF OpenPair
<1>2. Live(held) => cancelled = d
  <2> SUFFICES ASSUME Live(held) PROVE cancelled = d
    OBVIOUS
  <2>1. ~InFlight(d.orders[held.long]) /\ ~InFlight(d.orders[held.short])
    BY DEF Over, Legs
  <2>2. CancelLeg(d, held.long) = d
    BY <2>1 DEF CancelLeg
  <2>3. CancelLeg(d, held.short) = d
    BY <2>1 DEF CancelLeg
  <2> QED
    BY <2>2, <2>3 DEF CancelInFlight
<1> HIDE DEF cancelled
<1>3. free = d
  BY <1>2
<1> HIDE DEF free
<1> QED
  BY <1>1, <1>3

LEMMA OpenPairFine ==
  ASSUME NEW d, Sane(d), NEW held, Over(d, held), NEW pair, Fine(OpenPair(d, held, pair).desk)
  PROVE  Fine(d)
<1> DEFINE e == OpenPair(d, held, pair).desk
<1>1. e = d \/ e = EnterPair(d, pair).desk
  BY OpensOver
<1> HIDE DEF e
<1>2. Grown(d, e, TRUE)
  BY <1>1, GrownSame, EnterGrows
<1> QED
  BY <1>2, FineBefore DEF e

LEMMA OpenPairDecides ==
  ASSUME NEW d, Sane(d), Accounted(d), Policed(d), Settling(d), NEW held, Over(d, held), NEW pair,
         NEW e, e = OpenPair(d, held, pair).desk, Fine(e)
  PROVE  Settling(e)
<1>1. \/ e = d
      \/ /\ e = EnterPair(d, pair).desk
         /\ LegSize(d, pair[1]) # 0 /\ LegSize(d, pair[2]) # 0
  BY OpensOver
<1> QED
  BY <1>1, EnterDecides

\* While orders trade at once there is nothing in the market.
NothingWaits == Instant /\ ~desk.raised => Settling(desk)

LEMMA OpenSettling ==
  ASSUME NEW terms \in Setups
  PROVE  Settling(OpenDesk(Symbols, InitialCash, terms))
<1> DEFINE d == OpenDesk(Symbols, InitialCash, terms)
<1>1. d.orders = <<>> /\ d.holdings = [s \in Symbols |-> NoHolding] /\ d.market = <<>>
  BY DEF OpenDesk
<1> HIDE DEF d
<1>2. \A s \in Symbols : Held(d, s) = 0
  BY <1>1 DEF Held, NoHolding
<1>3. (\A i \in DOMAIN d.orders : FALSE) /\ \A s \in DOMAIN d.market : FALSE
  <2>1. DOMAIN <<>> = {}
    OBVIOUS
  <2> QED
    BY <1>1, <2>1
<1>4. WholeIn(d)
  BY <1>3 DEF WholeIn
<1>5. BookShows(d)
  BY <1>2, <1>3 DEF BookShows
<1> QED
  BY <1>4, <1>5 DEF Settling, d

LEMMA ProcessSettling ==
  ASSUME Accounted(desk), Settling(desk), NEW snap \in Snapshots, NEW gap, Process(snap, gap)
  PROVE  Settling(desk')
<1> DEFINE now == clock'
           book == [s \in DOMAIN desk.book |-> IF s \in DOMAIN snap THEN snap[s].last ELSE desk.book[s]]
           fed == [desk EXCEPT !.market = snap, !.time = now, !.book = book]
           e == Activated(fed, now)
<1>1. desk' = e
  BY DEF Process, Fed
<1>2. /\ fed.orders = desk.orders /\ fed.holdings = desk.holdings /\ fed.market = snap /\ fed.book = book
      /\ DOMAIN fed = DOMAIN desk
  <2> HIDE DEF book, now
  <2> QED
    BY DEF Accounted
<1> HIDE DEF fed, now
<1>3. /\ e.orders = [i \in DOMAIN desk.orders |->
                      IF desk.orders[i].status = "CREATED" /\ now >= desk.orders[i].active
                      THEN AfterAccept(desk.orders[i]) ELSE desk.orders[i]]
      /\ e.holdings = desk.holdings /\ e.market = snap /\ e.book = book
  <2> HIDE DEF book
  <2> QED
    BY <1>2 DEF Activated, Accounted
<1> HIDE DEF e
<1>4. \A s \in Symbols : book[s] = IF s \in DOMAIN snap THEN snap[s].last ELSE desk.book[s]
  BY DEF Accounted
<1> HIDE DEF book
<1>5. DOMAIN snap \subseteq Symbols /\ \A s \in DOMAIN snap : snap[s].last \in Nat
  BY DeskAssumption
<1>6. WholeIn(e)
  BY <1>3 DEF Settling, WholeIn
<1>7. BookShows(e)
  BY <1>3, <1>4, <1>5 DEF Settling, BookShows, Held, NoRow
<1> QED
  BY <1>1, <1>6, <1>7 DEF Settling

\* As long as no order is filled in part, each that a call sends is settled when
\* the call returns: the book has a price for it and its limit is met.
LEMMA NothingWaitsStep ==
  BooksInv /\ (Instant => EntryInv) /\ BeliefInv /\ NothingWaits /\ NothingPartly' /\ [Next]_vars
    => NothingWaits'
<1> SUFFICES ASSUME BooksInv, Instant => EntryInv, BeliefInv, NothingWaits, NothingPartly', [Next]_vars,
                    setup'.lag = 0, ~desk'.raised
             PROVE  Settling(desk')
  BY DEF NothingWaits, Instant
<1>1. /\ setup \in Setups /\ Accounted(desk) /\ desk.terms = setup /\ (pc = "idle" => ~desk.raised)
      /\ desk'.terms = setup' /\ setup' = setup
  BY TermsStep DEF BooksInv, BooksAt, BeliefInv
<1>2. Policed(desk)
  BY <1>1, DeskAssumption DEF Policed
<1>3. ~desk.raised => Settling(desk)
  BY <1>1 DEF NothingWaits, Instant
<1>4. Fine(desk')
  BY DEF NothingPartly, Instant, Fine
<1>5. pc # "off" /\ ~desk.raised => /\ Sane(desk) /\ (pc \in {"match", "settle"} => todo = {})
  BY <1>1 DEF BeliefInv, BeliefAt, Instant
<1>6. ASSUME NEW reset \in BOOLEAN, Start(reset) PROVE Settling(desk')
  BY <1>1, <1>6, OpenSettling DEF Start
<1>7. ASSUME NEW snap \in Snapshots, NEW gap \in Gaps, Process(snap, gap) PROVE Settling(desk')
  <2>1. pc = "idle"
    BY <1>7 DEF Process
  <2> QED
    BY <1>1, <1>3, <1>7, <2>1, ProcessSettling
<1>8. CASE Settle
  <2>1. pc = "idle"
    BY <1>8 DEF Settle
  <2>2. \A i \in DOMAIN desk.orders : desk.orders[i].status # "CREATED"
    BY <1>1, <1>3, <2>1 DEF Settling, WholeIn
  <2>3. desk' = desk
    BY <1>8, <2>2 DEF Settle
  <2> QED
    BY <1>1, <1>3, <2>1, <2>3
<1>9. ASSUME NEW i \in todo, Match(i) PROVE FALSE
  BY <1>5, <1>9 DEF Match
<1>10. CASE EndMatch
  <2> DEFINE row == [equity |-> Equity(desk), fees |-> desk.fees]
             e == [desk EXCEPT !.curve = Append(@, row)]
  <2>1. desk' = e /\ ~desk.raised
    BY <1>10 DEF EndMatch, Recorded
  <2> HIDE DEF row
  <2>2. e.orders = desk.orders /\ e.holdings = desk.holdings /\ e.market = desk.market /\ e.book = desk.book
    BY <1>1 DEF Accounted
  <2> HIDE DEF e
  <2> QED
    BY <1>3, <2>1, <2>2 DEF Settling, WholeIn, BookShows, Held
<1>11. ASSUME NEW f \in todo, OnFill(f) PROVE Settling(desk')
  <2>1. pc # "off" /\ ~desk.raised /\ (desk' = desk \/ desk' = Flatten(desk))
    BY <1>11 DEF OnFill, RolledBack
  <2> QED
    BY <1>1, <1>2, <1>3, <1>4, <1>5, <2>1, FlattenDecides
<1>12. CASE Decide
  <2>1. pc # "off" /\ ~desk.raised
    BY <1>12 DEF Decide
  <2>2. Sane(desk) /\ Settling(desk)
    BY <1>3, <1>5, <2>1
  <2>3. CASE DecideSingle
    <3>1. desk' = TradeSingle(setup.name, memory.prices, desk)
      BY <2>3 DEF DecideSingle
    <3> QED
      BY <1>1, <1>2, <1>4, <2>2, <3>1, SinglesDecide
  <2>4. CASE DecidePair
    <3> DEFINE flat == Flatten(desk)
               open == OpenPair(flat, intent, Target).desk
    <3>1. desk' = desk \/ desk' = flat \/ desk' = open
      BY <2>4 DEF DecidePair, ExitPair, Rebalance
    <3>2. Sane(flat) /\ Accounted(flat) /\ flat.terms = desk.terms
      BY <1>1, <2>2, FlattenGrows, FlattenBooks DEF Books, Grown
    <3>6. Grown(desk, flat, FALSE)
      BY <2>2, FlattenGrows
    <3>3. Fine(flat) => Settling(flat)
      BY <1>1, <1>2, <2>2, FlattenDecides
    <3> HIDE DEF flat
    <3>4. Policed(flat)
      BY <1>2, <3>2 DEF Policed
    <3>5. CASE desk' = open
      <4>0. Over(flat, intent)
        <5>1. EntrySound(desk, intent)
          BY <1>1, <2>1, <2>4 DEF DecidePair, EntryInv, EntryAt, Instant
        <5>2. ASSUME Live(intent), NEW i \in Legs(intent) PROVE ~InFlight(flat.orders[i])
          <6>1. i \in DOMAIN desk.orders
            BY <5>1, <5>2 DEF EntrySound, OnlyEntry
          <6>2. flat.orders[i] = desk.orders[i]
            BY <3>6, <6>1 DEF Grown
          <6> QED
            BY <2>2, <6>1, <6>2 DEF Settling, WholeIn, InFlight, Working
        <5> QED
          BY <5>2 DEF Over
      <4>1. Fine(open)
        BY <1>4, <3>5
      <4>2. Fine(flat)
        BY <3>2, <4>0, <4>1, OpenPairFine
      <4> QED
        BY <3>2, <3>3, <3>4, <3>5, <4>0, <4>1, <4>2, OpenPairDecides
    <3> QED
      BY <1>4, <2>2, <3>1, <3>3, <3>5
  <2> QED
    BY <1>12, <2>3, <2>4 DEF Decide
<1>13. CASE EndEvent \/ Truncate \/ Save \/ Stop \/ UNCHANGED vars
  <2>1. desk' = desk
    BY <1>13 DEF EndEvent, Truncate, Save, Stop, vars
  <2> QED
    BY <1>3, <2>1
<1> QED
  BY <1>6, <1>7, <1>8, <1>9, <1>10, <1>11, <1>12, <1>13 DEF Next

\* The legs of an entry are whole as every order is.
LEMMA EntryStepAtOnce ==
  (Instant => EntryInv) /\ BooksInv /\ BeliefInv /\ NothingPartly' /\ [Next]_vars => (Instant => EntryInv)'
<1> SUFFICES ASSUME Instant => EntryInv, BooksInv, BeliefInv, NothingPartly', [Next]_vars, Instant'
             PROVE  EntryInv'
  OBVIOUS
<1>1. setup' = setup
  BY TermsStep DEF BeliefInv
<1>2. EntryInv
  BY <1>1 DEF Instant
<1>3. LegsWhole'
  BY DEF NothingPartly, NoPartIn, LegsWhole, LegsWholeIn
<1> QED
  BY <1>2, <1>3, EntryStep

LEMMA NothingWaitsInit == Init => NothingWaits
<1> SUFFICES ASSUME Init PROVE Settling(desk)
  BY DEF NothingWaits
<1> QED
  BY OpenSettling DEF Init

\* All that keeps the belief and the positions together.
BeliefAll == MemoryInv /\ BooksInv /\ (Instant => EntryInv) /\ BeliefInv /\ NothingWaits

LEMMA BeliefAllStep == BeliefAll /\ NothingPartly' /\ [Next]_vars => BeliefAll'
<1> SUFFICES ASSUME BeliefAll, NothingPartly', [Next]_vars PROVE BeliefAll'
  OBVIOUS
<1>1. MemoryInv /\ BooksInv /\ (Instant => EntryInv) /\ BeliefInv /\ NothingWaits
  BY DEF BeliefAll
<1>2. MemoryInv' /\ BooksInv'
  BY <1>1, MemoryStep, BooksStep
<1>3. (Instant => EntryInv)'
  BY <1>1, EntryStepAtOnce
<1>4. NothingWaits'
  BY <1>1, NothingWaitsStep
<1>5. BeliefInv'
  <2>1. TradesWhole /\ TradesWhole'
    BY <1>1, <1>4 DEF NothingWaits, TradesWhole, Settling
  <2> QED
    BY <1>1, <2>1, BeliefStep
<1> QED
  BY <1>2, <1>3, <1>4, <1>5 DEF BeliefAll

\* While orders trade at once and none is filled in part, a strategy knows what
\* it owns between two events (strategies/pairs.py, open_pair, consume_pair_fill
\* and flatten_positions; on_market_data and on_fill of bubble_rank.py and
\* pair_zscore.py; the position checks of the others): a pair strategy the pair
\* it believes in or nothing, as long as no flattening order was refused, a
\* long-only one at most one order of its quantity.
THEOREM BeliefHeldHolds == Spec /\ []NothingPartly => []BeliefHeld
<1>1. Init => BeliefAll
  BY MemoryInit, BooksInit, EntryInit, BeliefInit, NothingWaitsInit DEF BeliefAll
<1>2. BeliefAll /\ NothingPartly' /\ [Next]_vars => BeliefAll'
  BY BeliefAllStep
<1>3. BeliefAll => BeliefHeld
  BY BeliefImplies DEF BeliefAll
<1> QED
  BY <1>1, <1>2, <1>3, PTL DEF Spec
=============================================================================
