--------------------------- MODULE LiveRunProofs ---------------------------
(* For every calendar, any symbols, trades, requests that fail, runs and     *)
(* crashes: the broker never refuses an event of the provider, and a run is  *)
(* shown exactly the history it asked for.                                   *)
EXTENDS LiveRun, BookLemmas

----------------------------------------------------------------------------
(* Days and sessions *)

LEMMA DayLengthPositive == DayLength \in Nat \ {0}
  BY LiveAssumption

\* What lies between two seconds of one session is in that session.
LEMMA BetweenSession ==
  ASSUME NEW u \in Nat, NEW t \in Nat, NEW v \in Nat, u <= t, t <= v, DayOf(u) = DayOf(v)
  PROVE  DayOf(t) = DayOf(u) /\ (InSession(u) /\ InSession(v) => InSession(t))
<1> DEFINE D == DayLength
<1>1. D \in Nat \ {0}
  BY DayLengthPositive
<1>2. \A x \in Nat : /\ x \div D \in Nat /\ x % D \in 0..(D - 1)
                     /\ x = D * (x \div D) + (x % D)
  BY <1>1
<1>3. DayOf(t) = DayOf(u)
  <2>1. \A a, b \in Nat : a < b => D * a + D <= D * b
    BY <1>1
  <2>2. ~(t \div D < u \div D)
    BY <1>1, <1>2, <2>1
  <2>3. ~(v \div D < t \div D)
    BY <1>1, <1>2, <2>1
  <2> QED
    BY <1>2, <2>2, <2>3 DEF DayOf
<1>4. u % D <= t % D /\ t % D <= v % D
  BY <1>1, <1>2, <1>3 DEF DayOf
<1>5. InSession(u) /\ InSession(v) => InSession(t)
  BY <1>1, <1>2, <1>3, <1>4, LiveAssumption DEF InSession
<1> QED
  BY <1>3, <1>5

LEMMA MinIs ==
  ASSUME NEW S \in SUBSET Nat, S # {}
  PROVE  Min(S) \in S /\ \A x \in S : Min(S) <= x
  BY LeastExists DEF Min

LEMMA MaxIs ==
  ASSUME NEW n \in Nat, NEW S \in SUBSET (0..n), S # {}
  PROVE  Max(S) \in S /\ \A x \in S : Max(S) >= x
<1>1. \E x \in S : \A y \in S : x >= y
  BY GreatestExists
<1> QED
  BY <1>1 DEF Max
----------------------------------------------------------------------------
(* History *)

\* What bars a run has been given: none later than the clock.
Bars(bars) == \A s \in DOMAIN bars : bars[s] \in SUBSET (1..clock)

\* The bars of sessions, those of one symbol among them, and those up to a second.
Stamps(bars) == {t \in UNION {bars[s] : s \in DOMAIN bars} : InSession(t)}
UpTo(bars, s, t) == {u \in bars[s] : InSession(u) /\ u <= t}

\* The grid of a run are the seconds between two bars of one day.
Grid(bars) == {t \in 1..clock : \E u, v \in Stamps(bars) :
                                  u <= t /\ t <= v /\ DayOf(u) = DayOf(t) /\ DayOf(v) = DayOf(t)}

LEMMA TimelineIsGrid ==
  ASSUME NEW bars, Bars(bars), clock \in Nat
  PROVE  Timeline(bars) = Grid(bars) /\ \A t \in Grid(bars) : InSession(t)
<1> DEFINE stamps == Stamps(bars)
           ofDay(d) == {t \in stamps : DayOf(t) = d}
<1>1. stamps \in SUBSET (1..clock) /\ \A t \in stamps : InSession(t)
  BY DEF Stamps, Bars
<1>2. Timeline(bars) = UNION {SessionTimeline(Min(ofDay(d)), Max(ofDay(d))) : d \in {DayOf(t) : t \in stamps}}
  BY DEF Timeline, Stamps
<1> HIDE DEF stamps
<1>3. ASSUME NEW w \in stamps
      PROVE  LET d == DayOf(w)
             IN  /\ Min(ofDay(d)) \in stamps /\ DayOf(Min(ofDay(d))) = d
                 /\ Max(ofDay(d)) \in stamps /\ DayOf(Max(ofDay(d))) = d
                 /\ \A x \in stamps : DayOf(x) = d => Min(ofDay(d)) <= x /\ x <= Max(ofDay(d))
  <2> DEFINE S == ofDay(DayOf(w))
  <2>0. w \in S /\ \A x \in S : x \in 1..clock
    BY <1>1
  <2>1. S # {} /\ S \in SUBSET Nat /\ S \in SUBSET (0..clock)
    <3> HIDE DEF S
    <3> QED
      BY <2>0
  <2>2. \A x \in S : x \in stamps /\ DayOf(x) = DayOf(w)
    OBVIOUS
  <2>3. \A x \in stamps : DayOf(x) = DayOf(w) => x \in S
    OBVIOUS
  <2> HIDE DEF S
  <2>4. Min(S) \in S /\ \A x \in S : Min(S) <= x
    BY <2>1, MinIs
  <2>5. Max(S) \in S /\ \A x \in S : Max(S) >= x
    BY <2>1, MaxIs
  <2>6. Max(S) \in Nat /\ S \in SUBSET Nat
    BY <2>1, <2>5
  <2>7. /\ Min(S) \in stamps /\ DayOf(Min(S)) = DayOf(w)
        /\ Max(S) \in stamps /\ DayOf(Max(S)) = DayOf(w)
        /\ \A x \in stamps : DayOf(x) = DayOf(w) => Min(S) <= x /\ x <= Max(S)
    BY <2>2, <2>3, <2>4, <2>5, <2>6
  <2> QED
    BY <2>7 DEF S
<1> DEFINE Opening(d) == Min(ofDay(d))
           Closing(d) == Max(ofDay(d))
<1>4. \A t : t \in Timeline(bars) <=>
               \E w \in stamps : t \in SessionTimeline(Opening(DayOf(w)), Closing(DayOf(w)))
  BY <1>2
<1>5. ASSUME NEW w \in stamps
      PROVE  /\ Opening(DayOf(w)) \in stamps /\ DayOf(Opening(DayOf(w))) = DayOf(w)
             /\ Closing(DayOf(w)) \in stamps /\ DayOf(Closing(DayOf(w))) = DayOf(w)
             /\ \A x \in stamps : DayOf(x) = DayOf(w) => Opening(DayOf(w)) <= x /\ x <= Closing(DayOf(w))
  BY <1>3
<1> HIDE DEF Opening, Closing
<1>6. ASSUME NEW t \in Grid(bars) PROVE InSession(t) /\ t \in Timeline(bars)
  <2>1. PICK u \in stamps, v \in stamps :
          u <= t /\ t <= v /\ DayOf(u) = DayOf(t) /\ DayOf(v) = DayOf(t)
    BY DEF Grid, stamps
  <2>2. u \in Nat /\ v \in Nat /\ t \in Nat
    BY <1>1 DEF Grid
  <2>3. InSession(t)
    BY <1>1, <2>1, <2>2, BetweenSession
  <2>4. Opening(DayOf(u)) <= u /\ v <= Closing(DayOf(u)) /\ Opening(DayOf(u)) \in stamps /\ Closing(DayOf(u)) \in stamps
    BY <1>5, <2>1
  <2>6. Opening(DayOf(u)) \in Nat /\ Closing(DayOf(u)) \in Nat
    <3>1. \A x \in stamps : x \in Nat
      BY <1>1
    <3> QED
      BY <2>4, <3>1
  <2>5. t \in Opening(DayOf(u))..Closing(DayOf(u))
    BY <2>1, <2>2, <2>4, <2>6
  <2> QED
    BY <1>4, <2>3, <2>5 DEF SessionTimeline
<1>7. ASSUME NEW t \in Timeline(bars) PROVE t \in Grid(bars)
  <2>1. PICK w \in stamps : t \in SessionTimeline(Opening(DayOf(w)), Closing(DayOf(w)))
    BY <1>4
  <2> DEFINE u == Opening(DayOf(w))
             v == Closing(DayOf(w))
  <2>2. /\ u \in stamps /\ v \in stamps /\ DayOf(u) = DayOf(w) /\ DayOf(v) = DayOf(w)
        /\ t \in u..v
    BY <1>5, <2>1 DEF SessionTimeline
  <2> HIDE DEF u, v
  <2>3. u \in 1..clock /\ v \in 1..clock
    BY <1>1, <2>2
  <2>4. t \in 1..clock /\ u <= t /\ t <= v /\ u \in Nat /\ v \in Nat /\ t \in Nat
    BY <2>2, <2>3
  <2>5. DayOf(t) = DayOf(u)
    BY <2>2, <2>4, BetweenSession
  <2> QED
    BY <2>2, <2>4, <2>5 DEF Grid, stamps
<1> QED
  BY <1>6, <1>7

\* What is known of each symbol after second t: its last bar of a session.
Filled(bars, t) == [s \in {x \in DOMAIN bars : UpTo(bars, x, t) # {}} |->
                      BarQuote(Max(UpTo(bars, s, t)))]

\* The bars of one more second renew what they are about.
LEMMA FilledStep ==
  ASSUME NEW bars, Bars(bars), clock \in Nat, NEW t \in 1..clock
  PROVE  Filled(bars, t)
           = Carried(Filled(bars, t - 1), IF InSession(t) THEN NewAt(bars, t) ELSE <<>>)
<1> DEFINE new == IF InSession(t) THEN NewAt(bars, t) ELSE <<>>
           Fresh == {x \in DOMAIN bars : t \in bars[x] /\ InSession(t)}
           Known(u) == {x \in DOMAIN bars : UpTo(bars, x, u) # {}}
<1>1. DOMAIN new = Fresh /\ \A x \in Fresh : new[x] = BarQuote(t)
  BY DEF NewAt
<1>2. ASSUME NEW x \in DOMAIN bars
      PROVE  UpTo(bars, x, t) = UpTo(bars, x, t - 1) \cup IF x \in Fresh THEN {t} ELSE {}
  <2>1. bars[x] \in SUBSET (1..clock)
    BY DEF Bars
  <2>2. \A u \in 1..clock : u <= t <=> u <= t - 1 \/ u = t
    BY clock \in Nat
  <2>3. t <= t /\ ~(t <= t - 1)
    BY clock \in Nat
  <2> QED
    BY <2>1, <2>2, <2>3 DEF UpTo
<1>3. Known(t) = Fresh \cup Known(t - 1)
  BY <1>2
<1>4. ASSUME NEW x \in Fresh PROVE Max(UpTo(bars, x, t)) = t
  <2> DEFINE S == UpTo(bars, x, t)
  <2>0. \A u \in S : u \in 1..clock
    BY DEF UpTo, Bars
  <2>1. t \in S /\ \A u \in S : u <= t
    BY <1>2 DEF UpTo
  <2> HIDE DEF S
  <2>4. S \in SUBSET (0..clock) /\ S # {}
    BY <2>0, <2>1
  <2>2. Max(S) \in S /\ Max(S) >= t
    BY <2>1, <2>4, MaxIs
  <2>5. Max(S) \in 1..clock /\ Max(S) <= t
    BY <2>0, <2>1, <2>2
  <2> DEFINE m == Max(S)
  <2>3. m = t
    <3>1. m \in 1..clock /\ m <= t /\ m >= t
      BY <2>2, <2>5
    <3> HIDE DEF m
    <3> QED
      BY <3>1
  <2> QED
    BY <2>3 DEF S
<1>5. /\ DOMAIN Filled(bars, t) = Known(t) /\ DOMAIN Filled(bars, t - 1) = Known(t - 1)
      /\ \A x \in Known(t) : Filled(bars, t)[x] = BarQuote(Max(UpTo(bars, x, t)))
      /\ \A x \in Known(t - 1) : Filled(bars, t - 1)[x] = BarQuote(Max(UpTo(bars, x, t - 1)))
  BY DEF Filled
<1>6. Filled(bars, t) = [x \in Known(t) |-> Filled(bars, t)[x]]
  BY DEF Filled
<1>7. Carried(Filled(bars, t - 1), new)
        = [x \in Fresh \cup Known(t - 1) |-> IF x \in Fresh THEN new[x] ELSE Filled(bars, t - 1)[x]]
  BY <1>1, <1>5 DEF Carried
<1>8. ASSUME NEW x \in Known(t)
      PROVE  Filled(bars, t)[x] = IF x \in Fresh THEN new[x] ELSE Filled(bars, t - 1)[x]
  <2>1. CASE x \in Fresh
    BY <1>1, <1>4, <1>5, <2>1
  <2>2. CASE x \notin Fresh
    <3>1. UpTo(bars, x, t) = UpTo(bars, x, t - 1) /\ x \in Known(t - 1)
      BY <1>2, <1>3, <2>2
    <3> QED
      BY <1>5, <2>2, <3>1
  <2> QED
    BY <2>1, <2>2
<1> HIDE DEF new, Fresh, Known
<1>9. Filled(bars, t) = Carried(Filled(bars, t - 1), new)
  BY <1>3, <1>6, <1>7, <1>8
<1> QED
  BY <1>9 DEF new

\* c carries the quotes on from second to second.
Carries(c, bars) ==
  c = [t \in 0..clock |->
         IF t = 0 THEN <<>>
         ELSE Carried(c[t - 1], IF InSession(t) THEN NewAt(bars, t) ELSE <<>>)]

LEMMA FilledCarries ==
  ASSUME NEW bars, Bars(bars), clock \in Nat
  PROVE  Carries([t \in 0..clock |-> Filled(bars, t)], bars)
<1> DEFINE c == [t \in 0..clock |-> Filled(bars, t)]
           next(t) == Carried(c[t - 1], IF InSession(t) THEN NewAt(bars, t) ELSE <<>>)
<1>1. ASSUME NEW t \in 0..clock
      PROVE  c[t] = IF t = 0 THEN <<>> ELSE next(t)
  <2>1. CASE t = 0
    <3>1. \A s \in DOMAIN bars : UpTo(bars, s, 0) = {}
      BY DEF UpTo, Bars
    <3>2. Filled(bars, 0) = <<>>
      BY <3>1 DEF Filled
    <3> QED
      BY <2>1, <3>2
  <2>2. CASE t # 0
    <3>1. t \in 1..clock /\ t - 1 \in 0..clock
      BY <2>2
    <3>2. c[t - 1] = Filled(bars, t - 1) /\ c[t] = Filled(bars, t)
      BY <3>1
    <3> QED
      BY <2>2, <3>1, <3>2, FilledStep
  <2> QED
    BY <2>1, <2>2
<1>2. c = [t \in 0..clock |-> c[t]]
  OBVIOUS
<1> HIDE DEF c
<1>3. c = [t \in 0..clock |-> IF t = 0 THEN <<>> ELSE next(t)]
  BY <1>1, <1>2
<1>4. Carries(c, bars)
  BY <1>3 DEF Carries
<1> QED
  BY <1>4 DEF c

LEMMA CarriesOnce ==
  ASSUME NEW bars, clock \in Nat, NEW b, NEW c, Carries(b, bars), Carries(c, bars)
  PROVE  b = c
<1> DEFINE Good == {t \in 0..clock : b[t] = c[t]}
           new(t) == IF InSession(t) THEN NewAt(bars, t) ELSE <<>>
<1>1. /\ b = [t \in 0..clock |-> IF t = 0 THEN <<>> ELSE Carried(b[t - 1], new(t))]
      /\ c = [t \in 0..clock |-> IF t = 0 THEN <<>> ELSE Carried(c[t - 1], new(t))]
  BY DEF Carries
<1> HIDE DEF new
<1>2. 0 \in Good
  BY <1>1
<1>3. ASSUME NEW t \in 0..(clock - 1), t \in Good PROVE t + 1 \in Good
  <2>1. t + 1 \in 0..clock /\ t + 1 # 0 /\ (t + 1) - 1 = t
    OBVIOUS
  <2>2. b[t + 1] = Carried(b[t], new(t + 1)) /\ c[t + 1] = Carried(c[t], new(t + 1))
    BY <1>1, <2>1
  <2> QED
    BY <1>3, <2>1, <2>2
<1>4. \A t \in 0..clock : t \in Good
  <2> HIDE DEF Good
  <2> QED
    BY <1>2, <1>3, CountInduction
<1>5. \A t \in 0..clock : b[t] = c[t]
  BY <1>4
<1>6. b = [t \in 0..clock |-> b[t]] /\ c = [t \in 0..clock |-> c[t]]
  BY <1>1
<1> QED
  BY <1>5, <1>6

\* q goes up in time.
Rising(q) == \A i, j \in 1..Len(q) : i < j => q[i].at < q[j].at

LEMMA PickedRises ==
  ASSUME NEW E, NEW q \in Seq(E), NEW I, Rising(q)
  PROVE  Rising(Picked(q, I))
<1> DEFINE R == {p \in E \X E : p[1].at < p[2].at}
<1>1. Ordered(q, R)
  <2> SUFFICES ASSUME NEW i \in 1..Len(q), NEW j \in 1..Len(q), i < j
               PROVE  <<q[i], q[j]>> \in R
    BY DEF Ordered
  <2>1. q[i] \in E /\ q[j] \in E /\ q[i].at < q[j].at
    BY DEF Rising
  <2> QED
    BY <2>1
<1>2. Ordered(Picked(q, I), R)
  <2> HIDE DEF R
  <2> QED
    BY <1>1, PickedOrdered
<1> QED
  BY <1>2 DEF Ordered, Rising

\* The snapshots of some seconds are theirs, in order, with what was known then.
LEMMA BarSnapshotsAre ==
  ASSUME NEW bars, Bars(bars), clock \in Nat, NEW I \in SUBSET (1..clock)
  PROVE  LET q == BarSnapshots(bars, I)
         IN  /\ q \in Seq(Range(q)) /\ Rising(q)
             /\ Range(q) = {HistEvent(t, Filled(bars, t)) : t \in I}
<1> DEFINE b == [t \in 0..clock |-> Filled(bars, t)]
           c == CHOOSE f : Carries(f, bars)
           all == [t \in 1..clock |-> HistEvent(t, c[t])]
           e(t) == HistEvent(t, Filled(bars, t))
<1>1. BarSnapshots(bars, I) = Picked(all, I)
  BY DEF BarSnapshots, Carries
<1>2. c = b
  <2>1. Carries(b, bars)
    BY FilledCarries
  <2> HIDE DEF b
  <2>2. Carries(c, bars)
    BY <2>1
  <2> HIDE DEF c
  <2> QED
    BY <2>1, <2>2, CarriesOnce
<1> HIDE DEF c
<1>3. \A t \in 1..clock : c[t] = Filled(bars, t)
  <2>1. \A t \in 1..clock : t \in 0..clock
    BY clock \in Nat
  <2>2. \A t \in 1..clock : b[t] = Filled(bars, t)
    BY <2>1
  <2> HIDE DEF b
  <2> QED
    BY <1>2, <2>2
<1>4. \A t \in 1..clock : all[t] = e(t) /\ all[t].at = t
  BY <1>3 DEF HistEvent
<1>5. all \in Seq({e(t) : t \in 1..clock}) /\ Len(all) = clock /\ DOMAIN all = 1..clock
  BY <1>4
<1>6. Rising(all)
  <2> HIDE DEF all
  <2> QED
    BY <1>4, <1>5 DEF Rising
<1> DEFINE E == {e(t) : t \in 1..clock}
           q == Picked(all, I)
<1> HIDE DEF all, E
<1>7. q \in Seq(E) /\ Range(q) = {all[t] : t \in I \cap DOMAIN all}
  BY <1>5, PickedRange DEF E
<1>8. Rising(q)
  BY <1>5, <1>6, PickedRises DEF E
<1> HIDE DEF q
<1>9. q \in Seq(Range(q))
  BY <1>7, RangeTypes
<1>10. Range(q) = {e(t) : t \in I}
  BY <1>4, <1>5, <1>7
<1> QED
  BY <1>1, <1>8, <1>9, <1>10 DEF q

\* What HistoryMeant says of a run with these bars.
Meant(bars, session, cut) ==
  {HistEvent(t, Filled(bars, t)) :
     t \in {t \in 0..(cut - 1) :
              /\ \E u, v \in Stamps(bars) : /\ u <= t /\ t <= v
                                            /\ DayOf(u) = DayOf(t) /\ DayOf(v) = DayOf(t)
              /\ session \/ DayOf(t) < DayOf(cut)}}

LEMMA HistoryIsMeant == HistoryMeant = Meant(feed.bars, feed.session, feed.cut)
<1> DEFINE bars == feed.bars
           inSession == [s \in DOMAIN bars |-> {t \in bars[s] : InSession(t)}]
           stamps == UNION {inSession[s] : s \in DOMAIN bars}
           upTo(s, t) == {u \in inSession[s] : u <= t}
           quotes(t) == [s \in {x \in DOMAIN bars : upTo(x, t) # {}} |-> BarQuote(Max(upTo(s, t)))]
           SameDay(u, v, t) == {DayOf(u), DayOf(v)} = {DayOf(t)}
           Is(t) == /\ \E u, v \in stamps : u <= t /\ t <= v /\ SameDay(u, v, t)
                    /\ feed.session \/ DayOf(t) < DayOf(feed.cut)
           Was(t) == /\ \E u, v \in Stamps(bars) : /\ u <= t /\ t <= v
                                                   /\ DayOf(u) = DayOf(t) /\ DayOf(v) = DayOf(t)
                     /\ feed.session \/ DayOf(t) < DayOf(feed.cut)
<1>1. stamps = Stamps(bars)
  <2>1. \A s \in DOMAIN bars : inSession[s] = {t \in bars[s] : InSession(t)}
    OBVIOUS
  <2>2. \A t : t \in stamps <=> \E s \in DOMAIN bars : t \in inSession[s]
    OBVIOUS
  <2>3. \A t : t \in Stamps(bars) <=> \E s \in DOMAIN bars : t \in bars[s] /\ InSession(t)
    BY DEF Stamps
  <2> HIDE DEF inSession, bars, stamps
  <2>4. \A t : t \in stamps <=> t \in Stamps(bars)
    BY <2>1, <2>2, <2>3
  <2> QED
    BY <2>4
<1>2. \A s \in DOMAIN bars : \A t : upTo(s, t) = UpTo(bars, s, t)
  BY DEF UpTo
<1>3. \A t : quotes(t) = Filled(bars, t)
  <2> SUFFICES ASSUME NEW t PROVE quotes(t) = Filled(bars, t)
    OBVIOUS
  <2>1. {x \in DOMAIN bars : upTo(x, t) # {}} = {x \in DOMAIN bars : UpTo(bars, x, t) # {}}
    BY <1>2
  <2> HIDE DEF upTo
  <2> QED
    BY <1>2, <2>1 DEF Filled
<1>4. \A u, v, t : SameDay(u, v, t) <=> DayOf(u) = DayOf(t) /\ DayOf(v) = DayOf(t)
  OBVIOUS
<1>5. \A t : Is(t) <=> Was(t)
  <2> HIDE DEF stamps, SameDay
  <2> QED
    BY <1>1, <1>4
<1>6. HistoryMeant = {[kind |-> "hist", at |-> t, quotes |-> quotes(t)] :
                        t \in {t \in 0..(feed.cut - 1) : Is(t)}}
  BY DEF HistoryMeant
<1>7. Meant(bars, feed.session, feed.cut)
        = {HistEvent(t, Filled(bars, t)) : t \in {t \in 0..(feed.cut - 1) : Was(t)}}
  BY DEF Meant
<1> HIDE DEF quotes, Is, Was, bars
<1>8. HistoryMeant = Meant(bars, feed.session, feed.cut)
  BY <1>3, <1>5, <1>6, <1>7 DEF HistEvent
<1> QED
  BY <1>8 DEF bars

\* What is replayed of the bars is the history the run asked for, in order.
LEMMA ReplayedIsMeant ==
  ASSUME NEW bars, Bars(bars), clock \in Nat, NEW cut \in 0..clock
  PROVE  LET q == Replayed(bars, DayOf(cut), cut)
         IN  /\ q \in Seq(Range(q)) /\ Rising(q)
             /\ Range(q) = Meant(bars, feed.session, cut)
             /\ \A e \in Range(q) : e.kind = "hist" /\ e.at \in 1..clock /\ e.at < cut
<1> DEFINE I == {t \in Timeline(bars) : (feed.session \/ DayOf(t) < DayOf(cut)) /\ t < cut}
           J == {t \in 0..(cut - 1) :
                   /\ \E u, v \in Stamps(bars) : /\ u <= t /\ t <= v
                                                 /\ DayOf(u) = DayOf(t) /\ DayOf(v) = DayOf(t)
                   /\ feed.session \/ DayOf(t) < DayOf(cut)}
           q == BarSnapshots(bars, I)
<1>1. Stamps(bars) \in SUBSET (1..clock)
  BY DEF Stamps, Bars
<1>2. Timeline(bars) = Grid(bars)
  BY TimelineIsGrid
<1>3. I \in SUBSET (1..clock) /\ \A t \in I : t < cut
  BY <1>2 DEF Grid
<1>4. I = J
  <2>1. \A t \in 0..(cut - 1) : (\E u \in Stamps(bars) : u <= t) => t \in 1..clock
    BY <1>1
  <2>2. \A t \in 1..clock : t \in 0..(cut - 1) <=> t < cut
    OBVIOUS
  <2> QED
    BY <1>2, <2>1, <2>2 DEF Grid
<1>5. Meant(bars, feed.session, cut) = {HistEvent(t, Filled(bars, t)) : t \in J}
  BY DEF Meant
<1> HIDE DEF I, J
<1>6. /\ q \in Seq(Range(q)) /\ Rising(q)
      /\ Range(q) = {HistEvent(t, Filled(bars, t)) : t \in I}
  BY <1>3, BarSnapshotsAre
<1>7. Replayed(bars, DayOf(cut), cut) = q
  BY DEF Replayed, I
<1> HIDE DEF q
<1>8. \A e \in Range(q) : e.kind = "hist" /\ e.at \in 1..clock /\ e.at < cut
  BY <1>3, <1>6 DEF HistEvent
<1> QED
  BY <1>4, <1>5, <1>6, <1>7, <1>8

----------------------------------------------------------------------------
(* The run *)

Here == feed.at \in {"top", "poll", "ask", "hand", "asleep", "ended"}

\* The clock is past everything that has happened.
ClockInv == /\ clock \in Nat \ {0}
            /\ trades \in [Symbols -> SUBSET (1..clock)]
            /\ DOMAIN broker = {"ids", "last", "refused"}
            /\ broker = [x \in DOMAIN broker |-> broker[x]]
            /\ broker.last \in 0..clock
            /\ broker.ids = {} => broker.last = 0
            /\ broker.refused = FALSE

FeedFields == {"at", "session", "back", "stop", "loaded", "seen", "asof", "cut", "bars", "todo",
               "queue", "wake"}

\* What a provider is made of.
Provider == /\ DOMAIN feed = FeedFields
            /\ feed = [x \in FeedFields |-> feed[x]]
            /\ feed.session \in BOOLEAN /\ feed.loaded \in BOOLEAN
            /\ feed.asof \in 0..clock /\ feed.cut \in 0..clock
            /\ Bars(feed.bars) /\ feed.todo \in SUBSET Symbols

\* Events in a row: none earlier than the one before it, none later than the clock.
Row(q) == /\ q \in Seq(Range(q))
          /\ \A e \in Range(q) : e.at \in 0..clock
          /\ \A i, j \in 1..Len(q) : i < j => q[i].at <= q[j].at

\* What is handed over is not earlier than what the broker has.
InStep == /\ Row(feed.queue)
          /\ \A e \in Range(feed.queue) : broker.last <= e.at
          /\ feed.at # "hand" => feed.queue = <<>>
          /\ feed.at = "ask" => broker.last <= feed.asof

\* Nothing happens before the first poll that succeeds; a run that continues an
\* account asks for no bars.
Unloaded == /\ told = <<>> /\ feed.queue = <<>> /\ feed.seen = {}
            /\ broker.ids = {} \/ (~feed.session /\ feed.back = 0)
            /\ feed.at = "ask" =>
                 /\ feed.cut = feed.asof
                 /\ ~feed.session /\ feed.back = 0 => feed.todo = {} /\ feed.bars = <<>>

\* The history among the events told and those to be told is what was asked for.
Hist(q) == Picked(q, {i \in DOMAIN q : q[i].kind = "hist"})
Shows(q) == /\ Range(Hist(q)) = Meant(feed.bars, feed.session, feed.cut)
            /\ Rising(Hist(q))
Loaded == /\ feed.todo = {}
          /\ told \in Seq(Range(told))
          /\ Shows(told \o feed.queue)

FeedInv == Here => Provider /\ InStep /\ (IF feed.loaded THEN Loaded ELSE Unloaded)
Inv == ClockInv /\ (Here \/ feed = Off) /\ FeedInv

\* The first event of a row is the earliest; the others are still a row.
LEMMA RowTail ==
  ASSUME NEW q, Row(q), q # <<>>
  PROVE  /\ Row(Tail(q)) /\ Head(q) \in Range(q)
         /\ \A e \in Range(Tail(q)) : e \in Range(q) /\ Head(q).at <= e.at
<1> DEFINE r == Tail(q)
           n == Len(q)
<1>1. /\ q \in Seq(Range(q)) /\ DOMAIN q = 1..n /\ n \in Nat \ {0}
      /\ r \in Seq(Range(q)) /\ DOMAIN r = 1..(n - 1) /\ Len(r) = n - 1
      /\ \A i \in 1..(n - 1) : r[i] = q[i + 1]
      /\ Head(q) = q[1]
  <2>1. q \in Seq(Range(q))
    BY DEF Row
  <2> QED
    BY <2>1
<1> HIDE DEF r, n
<1>2. r \in Seq(Range(r)) /\ Range(r) \subseteq Range(q)
  BY <1>1, RangeTypes
<1>3. q[1] \in Range(q)
  BY <1>1 DEF Range
<1>4. \A i \in 1..(n - 1) : q[1].at <= r[i].at
  <2>1. \A i \in 1..(n - 1) : 1 \in 1..n /\ i + 1 \in 1..n /\ 1 < i + 1
    BY <1>1
  <2>2. \A i, j \in 1..n : i < j => q[i].at <= q[j].at
    BY DEF Row, n
  <2> QED
    BY <1>1, <2>1, <2>2
<1>5. \A e \in Range(r) : q[1].at <= e.at
  BY <1>1, <1>4 DEF Range
<1>6. \A i, j \in 1..Len(r) : i < j => r[i].at <= r[j].at
  <2>1. \A i \in 1..(n - 1) : i + 1 \in 1..n
    BY <1>1
  <2>2. \A i, j \in 1..(n - 1) : i < j => i + 1 < j + 1
    OBVIOUS
  <2>3. \A i, j \in 1..n : i < j => q[i].at <= q[j].at
    BY DEF Row, n
  <2> QED
    BY <1>1, <2>1, <2>2, <2>3
<1>7. \A e \in Range(r) : e.at \in 0..clock
  BY <1>2 DEF Row
<1>8. Row(r)
  BY <1>2, <1>6, <1>7 DEF Row
<1> QED
  BY <1>1, <1>2, <1>3, <1>5, <1>8 DEF r

\* One more event is told: together with those to come they stay the same.
LEMMA MoveOn ==
  ASSUME NEW p, p \in Seq(Range(p)), NEW q, q \in Seq(Range(q)), q # <<>>
  PROVE  /\ Append(p, Head(q)) \o Tail(q) = p \o q
         /\ Append(p, Head(q)) \in Seq(Range(Append(p, Head(q))))
<1> DEFINE E == Range(p) \cup Range(q)
<1>1. p \in Seq(E) /\ q \in Seq(E)
  OBVIOUS
<1> HIDE DEF E
<1>2. Head(q) \in E /\ Tail(q) \in Seq(E)
  BY <1>1
<1>3. Append(p, Head(q)) \o Tail(q) = p \o q
  BY <1>1, <1>2
<1>4. Append(p, Head(q)) \in Seq(E)
  BY <1>1, <1>2
<1> QED
  BY <1>3, <1>4, RangeTypes

\* A live event is not history.
LEMMA HistAppend ==
  ASSUME NEW E, NEW q \in Seq(E), NEW e \in E, e.kind # "hist"
  PROVE  Hist(Append(q, e)) = Hist(q)
<1> DEFINE r == Append(q, e)
           I == {i \in DOMAIN q : q[i].kind = "hist"}
           J == {i \in DOMAIN r : r[i].kind = "hist"}
           n == Len(q)
<1>1. /\ DOMAIN r = 1..(n + 1) /\ DOMAIN q = 1..n /\ n \in Nat
      /\ \A i \in 1..n : r[i] = q[i]
      /\ r[n + 1] = e
  OBVIOUS
<1> HIDE DEF r, n
<1>2. n + 1 \notin J /\ (1..n) \cap J = (1..n) \cap I
  BY <1>1
<1>3. Hist(q) = Picked(q, I) /\ Hist(r) = Picked(r, J)
  BY DEF Hist
<1> HIDE DEF I, J
<1>4. Picked(r, J) = Picked(q, J)
  BY <1>2, PickedAppend DEF r, n
<1>5. Picked(q, J) = Picked(q, I)
  BY <1>2, PickedSame DEF n
<1> QED
  BY <1>3, <1>4, <1>5 DEF r

LEMMA HistAll ==
  ASSUME NEW q, q \in Seq(Range(q)), \A e \in Range(q) : e.kind = "hist"
  PROVE  Hist(q) = q
<1> DEFINE I == {i \in DOMAIN q : q[i].kind = "hist"}
<1>1. 1..Len(q) \subseteq I
  BY DEF Range
<1> HIDE DEF I
<1>2. Picked(q, I) = q
  BY <1>1, PickedAll
<1> QED
  BY <1>2 DEF Hist, I

LEMMA EmptyRow == Row(<<>>) /\ Range(<<>>) = {}
<1>1. DOMAIN <<>> = {} /\ Len(<<>>) = 0
  OBVIOUS
<1>2. Range(<<>>) = {}
  BY <1>1 DEF Range
<1> QED
  BY <1>1, <1>2 DEF Row

\* Where the clock alone goes on, what was known stays so.
LEMMA ClockGoesOn ==
  ASSUME clock \in Nat, clock' \in Nat, clock <= clock'
  PROVE  /\ \A b : Bars(b) => Bars(b)'
         /\ 0..clock \subseteq 0..clock' /\ 1..clock \subseteq 1..clock'
<1>1. 0..clock \subseteq 0..clock' /\ 1..clock \subseteq 1..clock'
  OBVIOUS
<1> QED
  BY <1>1 DEF Bars

LEMMA InitInv == Init => Inv
<1> SUFFICES ASSUME Init PROVE Inv
  OBVIOUS
<1>1. ClockInv
  <2>1. trades \in [Symbols -> SUBSET (1..clock)] /\ clock \in Nat \ {0}
    BY LiveAssumption DEF Init
  <2> QED
    BY <2>1 DEF Init, ClockInv
<1>2. feed = Off /\ ~Here
  BY DEF Init, Off, Here
<1> QED
  BY <1>1, <1>2 DEF Inv, FeedInv

LEMMA TickInv == Inv /\ Tick => Inv'
<1> SUFFICES ASSUME Inv, Tick PROVE Inv'
  OBVIOUS
<1>1. clock \in Nat /\ clock' \in Nat /\ clock <= clock'
  BY DEF Inv, ClockInv, Tick
<1>2. /\ \A b : Bars(b) => Bars(b)'
      /\ 0..clock \subseteq 0..clock' /\ 1..clock \subseteq 1..clock'
  BY <1>1, ClockGoesOn
<1>3. UNCHANGED <<trades, feed, broker, told>>
  BY DEF Tick
<1>4. ClockInv'
  BY <1>1, <1>2, <1>3 DEF Inv, ClockInv
<1>5. CASE Here
  <2>1. Provider'
    <3>1. Provider /\ Bars(feed.bars)'
      BY <1>2, <1>3, <1>5 DEF Inv, FeedInv, Provider
    <3> QED
      BY <1>2, <1>3, <3>1 DEF Provider
  <2>2. InStep'
    BY <1>2, <1>3, <1>5 DEF Inv, FeedInv, InStep, Row
  <2>3. (IF feed.loaded THEN Loaded ELSE Unloaded)'
    BY <1>3, <1>5 DEF Inv, FeedInv, Loaded, Unloaded, Shows
  <2> QED
    BY <1>3, <1>4, <1>5, <2>1, <2>2, <2>3 DEF Inv, FeedInv, Here
<1>6. CASE ~Here
  BY <1>3, <1>4, <1>6 DEF Inv, FeedInv, Here, Off
<1> QED
  BY <1>5, <1>6

LEMMA TradeInv ==
  ASSUME Inv, NEW s \in Symbols, Trade(s)
  PROVE  Inv'
<1>1. UNCHANGED <<clock, feed, broker, told>>
  BY DEF Trade
<1>2. ClockInv'
  <2> USE DEF ClockInv
  <2>1. clock \in 1..clock /\ trades \in [Symbols -> SUBSET (1..clock)]
    BY DEF Inv
  <2>2. trades' \in [Symbols -> SUBSET (1..clock)]
    BY <2>1 DEF Trade
  <2> QED
    BY <1>1, <2>2 DEF Inv
<1>3. FeedInv' /\ (Here \/ feed = Off)'
  <2>1. (Provider => Provider') /\ (InStep => InStep')
    BY <1>1 DEF Provider, Bars, InStep, Row
  <2>2. (Loaded => Loaded') /\ (Unloaded => Unloaded')
    BY <1>1 DEF Loaded, Unloaded, Shows
  <2>3. Here' = Here /\ Off' = Off
    BY <1>1 DEF Here, Off
  <2> QED
    BY <1>1, <2>1, <2>2, <2>3 DEF Inv, FeedInv
<1> QED
  BY <1>2, <1>3 DEF Inv

LEMMA StartInv ==
  ASSUME Inv, NEW config \in Configs, Start(config)
  PROVE  Inv'
<1>1. UNCHANGED <<clock, trades, broker>> /\ told' = <<>> /\ feed' = Created(config)
  BY DEF Start
<1>2. config.session \in BOOLEAN
  BY LiveAssumption
<1>3. ClockInv' /\ clock \in Nat
  BY <1>1 DEF Inv, ClockInv
<1>4. Provider'
  <2>1. feed' = [at |-> "top", session |-> config.session, back |-> config.back, stop |-> config.stop,
                 loaded |-> FALSE, seen |-> {}, asof |-> 0, cut |-> 0, bars |-> <<>>, todo |-> {},
                 queue |-> <<>>, wake |-> 0]
    BY <1>1 DEF Created
  <2>2. DOMAIN feed' = FeedFields /\ feed' = [x \in FeedFields |-> feed'[x]]
    BY <2>1 DEF FeedFields
  <2>3. Bars(<<>>)'
    BY DEF Bars
  <2>4. Bars(feed.bars)'
    BY <2>1, <2>3
  <2> QED
    <3>1. feed'.session \in BOOLEAN /\ feed'.loaded \in BOOLEAN /\ feed'.todo = {}
      BY <1>2, <2>1
    <3>2. feed'.asof = 0 /\ feed'.cut = 0 /\ 0 \in 0..clock'
      BY <1>1, <1>3, <2>1
    <3> QED
      BY <2>2, <2>4, <3>1, <3>2 DEF Provider
<1>5. InStep'
  <2>1. feed'.queue = <<>> /\ feed'.at = "top"
    BY <1>1 DEF Created
  <2>2. Row(<<>>)' /\ Range(<<>>) = {}
    BY <1>1, EmptyRow DEF Row
  <2> QED
    BY <2>1, <2>2 DEF InStep
<1>6. Unloaded' /\ feed'.loaded = FALSE
  BY <1>1 DEF Unloaded, Created, Start
<1> QED
  BY <1>1, <1>3, <1>4, <1>5, <1>6 DEF Inv, FeedInv, Here, Created

LEMMA CrashInv == Inv /\ Crash => Inv'
<1> SUFFICES ASSUME Inv, Crash PROVE Inv'
  OBVIOUS
<1>1. UNCHANGED <<clock, trades, broker, told>> /\ feed' = Off
  BY DEF Crash
<1>2. ~Here'
  BY <1>1 DEF Here, Off
<1>3. ClockInv'
  BY <1>1 DEF Inv, ClockInv
<1> QED
  BY <1>1, <1>2, <1>3 DEF Inv, FeedInv

\* A step of the provider that leaves everything else alone.
Alone == UNCHANGED <<clock, trades, broker, told>>

\* Steps that neither hand over anything nor change what the run has.
LEMMA QuietStep ==
  ASSUME Inv, Here, Alone, DOMAIN feed' = FeedFields, feed' = [x \in FeedFields |-> feed'[x]],
         feed'.at \in {"top", "poll", "asleep", "ended"}, feed.queue = <<>>,
         \A x \in FeedFields \ {"at", "wake"} : feed'[x] = feed[x]
  PROVE  Inv'
<1>1. /\ feed'.session = feed.session /\ feed'.back = feed.back /\ feed'.loaded = feed.loaded
      /\ feed'.seen = feed.seen /\ feed'.asof = feed.asof /\ feed'.cut = feed.cut
      /\ feed'.bars = feed.bars /\ feed'.todo = feed.todo /\ feed'.queue = feed.queue
  BY DEF FeedFields
<1>2. Provider' /\ Here'
  <2>1. Bars(feed.bars)'
    BY <1>1 DEF Inv, FeedInv, Provider, Bars, Alone
  <2> QED
    BY <1>1, <2>1 DEF Inv, FeedInv, Provider, Here, Alone
<1>3. InStep'
  BY <1>1 DEF Inv, FeedInv, InStep, Row, Alone
<1>4. (IF feed.loaded THEN Loaded ELSE Unloaded)'
  BY <1>1 DEF Inv, FeedInv, Loaded, Unloaded, Shows, Alone
<1>5. ClockInv'
  BY DEF Inv, ClockInv, Alone
<1> QED
  BY <1>2, <1>3, <1>4, <1>5 DEF Inv, FeedInv

LEMMA FeedIs ==
  ASSUME Inv, feed.at \in {"top", "poll", "ask", "hand", "asleep", "ended"}
  PROVE  /\ Here /\ Provider /\ InStep /\ (IF feed.loaded THEN Loaded ELSE Unloaded)
         /\ DOMAIN feed = FeedFields /\ feed = [x \in FeedFields |-> feed[x]]
  BY DEF Inv, FeedInv, Here, Provider

LEMMA EnterInv == Inv /\ Enter /\ Alone => Inv'
<1> SUFFICES ASSUME Inv, Enter, Alone PROVE Inv'
  OBVIOUS
<1>1. Here /\ InStep /\ DOMAIN feed = FeedFields /\ feed = [x \in FeedFields |-> feed[x]]
  BY FeedIs DEF Enter
<1>2. feed.queue = <<>>
  BY <1>1 DEF InStep, Enter
<1>3. /\ DOMAIN feed' = FeedFields /\ feed' = [x \in FeedFields |-> feed'[x]]
      /\ feed'.at \in {"poll", "ended"}
      /\ \A x \in FeedFields \ {"at", "wake"} : feed'[x] = feed[x]
  BY <1>1 DEF Enter, FeedFields
<1> QED
  BY <1>1, <1>2, <1>3, QuietStep

LEMMA PauseInv == Inv /\ Pause /\ Alone => Inv'
<1> SUFFICES ASSUME Inv, Pause, Alone PROVE Inv'
  OBVIOUS
<1>1. Here /\ DOMAIN feed = FeedFields /\ feed = [x \in FeedFields |-> feed[x]]
  BY FeedIs DEF Pause
<1>2. feed.queue = <<>>
  BY DEF Pause
<1>3. /\ DOMAIN feed' = FeedFields /\ feed' = [x \in FeedFields |-> feed'[x]]
      /\ feed'.at \in {"asleep", "ended"}
      /\ \A x \in FeedFields \ {"at", "wake"} : feed'[x] = feed[x]
  BY <1>1 DEF Pause, FeedFields
<1> QED
  BY <1>1, <1>2, <1>3, QuietStep

LEMMA WakeInv == Inv /\ Wake /\ Alone => Inv'
<1> SUFFICES ASSUME Inv, Wake, Alone PROVE Inv'
  OBVIOUS
<1>1. Here /\ InStep /\ DOMAIN feed = FeedFields /\ feed = [x \in FeedFields |-> feed[x]]
  BY FeedIs DEF Wake
<1>2. feed.queue = <<>>
  BY <1>1 DEF InStep, Wake
<1>3. /\ DOMAIN feed' = FeedFields /\ feed' = [x \in FeedFields |-> feed'[x]]
      /\ feed'.at = "top"
      /\ \A x \in FeedFields \ {"at", "wake"} : feed'[x] = feed[x]
  BY <1>1 DEF Wake, FeedFields
<1> QED
  BY <1>1, <1>2, <1>3, QuietStep

\* A request that raises ends the poll with nothing to hand over.
LEMMA FeedFailsInv == Inv /\ FeedFails /\ Alone => Inv'
<1> SUFFICES ASSUME Inv, FeedFails, Alone PROVE Inv'
  OBVIOUS
<1>1. /\ Here /\ Provider /\ InStep /\ (IF feed.loaded THEN Loaded ELSE Unloaded)
      /\ DOMAIN feed = FeedFields /\ feed = [x \in FeedFields |-> feed[x]] /\ feed.queue = <<>>
  BY FeedIs DEF FeedFails, InStep
<1>2. /\ DOMAIN feed' = FeedFields /\ feed' = [x \in FeedFields |-> feed'[x]]
      /\ feed'.at = "hand" /\ feed'.todo = {} /\ feed'.queue = <<>>
      /\ feed'.session = feed.session /\ feed'.back = feed.back /\ feed'.loaded = feed.loaded
      /\ feed'.seen = feed.seen /\ feed'.asof = feed.asof /\ feed'.cut = feed.cut
      /\ feed'.bars = feed.bars
  BY <1>1 DEF FeedFails, FeedFields
<1>3. Provider' /\ Here'
  <2>1. Bars(feed.bars)'
    BY <1>1, <1>2 DEF Provider, Bars, Alone
  <2> QED
    BY <1>1, <1>2, <2>1 DEF Provider, Here, Alone
<1>4. InStep'
  BY <1>1, <1>2 DEF InStep, Row, Alone
<1>5. (IF feed.loaded THEN Loaded ELSE Unloaded)'
  BY <1>1, <1>2 DEF Loaded, Unloaded, Shows, Alone
<1>6. ClockInv'
  BY DEF Inv, ClockInv, Alone
<1> QED
  BY <1>3, <1>4, <1>5, <1>6 DEF Inv, FeedInv

\* A poll reads the clock; one that wants the bars begins them anew.
LEMMA PollInv == Inv /\ Poll /\ Alone => Inv'
<1> SUFFICES ASSUME Inv, Poll, Alone PROVE Inv'
  OBVIOUS
<1>1. /\ Here /\ Provider /\ InStep /\ (IF feed.loaded THEN Loaded ELSE Unloaded)
      /\ DOMAIN feed = FeedFields /\ feed = [x \in FeedFields |-> feed[x]] /\ feed.queue = <<>>
  BY FeedIs DEF Poll, InStep
<1>2. /\ DOMAIN feed' = FeedFields /\ feed' = [x \in FeedFields |-> feed'[x]]
      /\ feed'.at = "ask" /\ feed'.queue = <<>> /\ feed'.asof = clock
      /\ feed'.todo = IF feed.loaded \/ (~feed.session /\ feed.back = 0) THEN {} ELSE Symbols
      /\ feed'.session = feed.session /\ feed'.back = feed.back /\ feed'.loaded = feed.loaded
      /\ feed'.seen = feed.seen
      /\ feed'.cut = IF feed.loaded THEN feed.cut ELSE clock
      /\ feed'.bars = IF feed.loaded THEN feed.bars ELSE <<>>
  BY <1>1 DEF Poll, FeedFields
<1>3. ClockInv' /\ broker.last \in 0..clock /\ clock \in Nat
  BY DEF Inv, ClockInv, Alone
<1>4. Provider' /\ Here'
  <2>1. Bars(<<>>) /\ Bars(feed.bars)
    BY <1>1 DEF Provider, Bars
  <2>2. Bars(feed.bars)'
    BY <1>2, <2>1 DEF Bars, Alone
  <2>3. clock \in 0..clock
    BY <1>3
  <2> QED
    BY <1>1, <1>2, <2>2, <2>3 DEF Provider, Here, Alone
<1>5. InStep'
  BY <1>1, <1>2, <1>3 DEF InStep, Row, Alone
<1>6. (IF feed.loaded THEN Loaded ELSE Unloaded)'
  BY <1>1, <1>2 DEF Loaded, Unloaded, Shows, Alone
<1> QED
  BY <1>3, <1>4, <1>5, <1>6 DEF Inv, FeedInv

\* The bars of one symbol: of the past, and only while the bars are wanted.
LEMMA AskBarsInv == Inv /\ AskBars /\ Alone => Inv'
<1> SUFFICES ASSUME Inv, AskBars, Alone PROVE Inv'
  OBVIOUS
<1>1. /\ Here /\ Provider /\ InStep /\ (IF feed.loaded THEN Loaded ELSE Unloaded)
      /\ DOMAIN feed = FeedFields /\ feed = [x \in FeedFields |-> feed[x]] /\ feed.queue = <<>>
  BY FeedIs DEF AskBars, InStep
<1>2. PICK s \in feed.todo :
        feed' = [feed EXCEPT !.todo = @ \ {s},
                   !.bars = [x \in DOMAIN @ \cup {s} |->
                              IF x = s THEN {t \in trades[s] : DayOf(t) >= DayOf(feed.asof) - feed.back}
                              ELSE feed.bars[x]]]
  BY DEF AskBars
<1>3. /\ ~feed.loaded /\ Unloaded /\ feed.todo # {} /\ feed.at = "ask"
  BY <1>1 DEF Loaded, AskBars
<1> DEFINE bars == [x \in DOMAIN feed.bars \cup {s} |->
                      IF x = s THEN {t \in trades[s] : DayOf(t) >= DayOf(feed.asof) - feed.back}
                      ELSE feed.bars[x]]
<1>4. feed' = [feed EXCEPT !.todo = @ \ {s}, !.bars = bars]
  BY <1>2
<1>5. DOMAIN bars = DOMAIN feed.bars \cup {s} /\ s \in Symbols
      /\ bars[s] \subseteq trades[s] /\ \A x \in DOMAIN feed.bars : x # s => bars[x] = feed.bars[x]
  BY <1>1 DEF Provider
<1> HIDE DEF bars
<1>6. /\ DOMAIN feed' = FeedFields /\ feed' = [x \in FeedFields |-> feed'[x]]
      /\ feed'.at = "ask" /\ feed'.queue = <<>> /\ feed'.asof = feed.asof
      /\ feed'.todo = feed.todo \ {s}
      /\ feed'.session = feed.session /\ feed'.back = feed.back /\ feed'.loaded = feed.loaded
      /\ feed'.seen = feed.seen /\ feed'.cut = feed.cut /\ feed'.bars = bars
  BY <1>1, <1>3, <1>4 DEF FeedFields
<1>7. ClockInv' /\ trades[s] \in SUBSET (1..clock)
  BY <1>5 DEF Inv, ClockInv, Alone
<1>8. Provider' /\ Here'
  <2>1. \A x \in DOMAIN bars : bars[x] \in SUBSET (1..clock)
    BY <1>1, <1>5, <1>7 DEF Provider, Bars
  <2>2. Bars(feed.bars)'
    BY <1>6, <2>1 DEF Bars, Alone
  <2> QED
    BY <1>1, <1>6, <2>2 DEF Provider, Here, Alone
<1>9. InStep'
  BY <1>1, <1>3, <1>6 DEF InStep, Row, Alone
<1>10. Unloaded' /\ ~feed'.loaded
  BY <1>3, <1>6 DEF Unloaded, Alone
<1> QED
  BY <1>7, <1>8, <1>9, <1>10 DEF Inv, FeedInv

LEMMA RisingRow ==
  ASSUME NEW h, h \in Seq(Range(h)), Rising(h), \A e \in Range(h) : e.at \in 0..clock, clock \in Nat
  PROVE  Row(h)
<1>1. \A i \in 1..Len(h) : h[i].at \in 0..clock
  BY DEF Range
<1>2. \A i, j \in 1..Len(h) : i < j => h[i].at <= h[j].at
  BY <1>1 DEF Rising
<1> QED
  BY <1>2 DEF Row

\* History with a live event behind it is a row, and still that history.
LEMMA HistoryThenLive ==
  ASSUME clock \in Nat, NEW stamp \in 0..clock,
         NEW h, h \in Seq(Range(h)), Rising(h),
         \A x \in Range(h) : x.kind = "hist" /\ x.at \in 0..clock /\ x.at < stamp,
         NEW e, e.kind = "live", e.at = stamp
  PROVE  /\ Row(Append(h, e)) /\ Range(Append(h, e)) = Range(h) \cup {e}
         /\ Hist(Append(h, e)) = h
<1> DEFINE E == Range(h) \cup {e}
           r == Append(h, e)
           n == Len(h)
<1>1. h \in Seq(E) /\ e \in E
  OBVIOUS
<1>2. r \in Seq(E) /\ Range(r) = E
  <2> HIDE DEF E
  <2>1. Range(r) = Range(h) \cup {e} /\ r \in Seq(E)
    BY <1>1, AppendRange
  <2> QED
    BY <2>1 DEF E
<1>3. /\ Len(r) = n + 1 /\ DOMAIN h = 1..n /\ n \in Nat
      /\ \A i \in 1..n : r[i] = h[i]
      /\ r[n + 1] = e
  BY <1>1
<1>4. \A i, j \in 1..(n + 1) : i < j => r[i].at <= r[j].at
  <2> SUFFICES ASSUME NEW i \in 1..(n + 1), NEW j \in 1..(n + 1), i < j
               PROVE  r[i].at <= r[j].at
    OBVIOUS
  <2>1. i \in 1..n /\ r[i] = h[i] /\ h[i] \in Range(h)
    BY <1>3 DEF Range
  <2>2. h[i].at \in 0..clock /\ h[i].at < stamp
    BY <2>1
  <2>3. CASE j \in 1..n
    <3>1. h[i].at < h[j].at /\ h[j] \in Range(h)
      BY <1>3, <2>1, <2>3 DEF Rising, Range
    <3>2. h[j].at \in 0..clock
      BY <3>1
    <3> QED
      BY <1>3, <2>1, <2>2, <2>3, <3>1, <3>2
  <2>4. CASE j = n + 1
    BY <1>3, <2>1, <2>2, <2>4
  <2> QED
    BY <1>3, <2>3, <2>4
<1>5. \A x \in Range(r) : x.at \in 0..clock
  BY <1>2
<1>6. Row(r)
  <2> HIDE DEF r, E
  <2> QED
    BY <1>2, <1>3, <1>4, <1>5 DEF Row
<1>7. Hist(h) = h
  BY HistAll
<1>8. Hist(r) = Hist(h)
  <2> HIDE DEF E
  <2> QED
    BY <1>1, HistAppend
<1> QED
  BY <1>2, <1>6, <1>7, <1>8

LEMMA LiveSnapshotIs ==
  ASSUME NEW stamp, NEW answers
  PROVE  \/ LiveSnapshot(stamp, answers) = <<>>
         \/ \E e : LiveSnapshot(stamp, answers) = <<e>> /\ e.kind = "live" /\ e.at = stamp
<1> DEFINE price(s) == IF s \in DOMAIN LastPrices THEN LastPrices[s] ELSE NoPrice
           priced == {s \in Symbols : LiveQuote(price(s), answers[s]) # NoQuote}
           e == [kind |-> "live", at |-> stamp,
                 quotes |-> [s \in priced |-> QuoteFromLive(price(s), answers[s])]]
<1>1. LiveSnapshot(stamp, answers) = IF priced = {} THEN <<>> ELSE <<e>>
  BY DEF LiveSnapshot
<1>2. e.kind = "live" /\ e.at = stamp
  OBVIOUS
<1> HIDE DEF e, priced
<1> QED
  BY <1>1, <1>2

LEMMA NothingMeant == \A session, cut : Meant(<<>>, session, cut) = {}
<1>1. Stamps(<<>>) = {}
  BY DEF Stamps
<1> QED
  BY <1>1 DEF Meant

\* The first poll that succeeds hands over the history and the live event, a
\* later one at most a live event.
LEMMA AskLiveInv == Inv /\ AskLive /\ Alone => Inv'
<1> SUFFICES ASSUME Inv, AskLive, Alone PROVE Inv'
  OBVIOUS
<1>1. /\ Here /\ Provider /\ InStep /\ (IF feed.loaded THEN Loaded ELSE Unloaded)
      /\ DOMAIN feed = FeedFields /\ feed = [x \in FeedFields |-> feed[x]] /\ feed.queue = <<>>
      /\ feed.at = "ask" /\ feed.todo = {}
  BY FeedIs DEF AskLive, InStep
<1>2. ClockInv /\ ClockInv' /\ clock \in Nat /\ broker.last \in 0..clock
  BY DEF Inv, ClockInv, Alone
<1> DEFINE stamp == feed.asof
           history == IF feed.loaded \/ feed.bars = <<>> THEN <<>>
                      ELSE Replayed(feed.bars, DayOf(stamp), stamp)
           live(answers) == IF InSession(stamp) THEN LiveSnapshot(stamp, answers) ELSE <<>>
           Unseen(q) == {i \in DOMAIN q : IdOf(q[i]) \notin feed.seen}
           Ids(q) == {IdOf(q[i]) : i \in DOMAIN q}
<1>3. PICK answers \in [Symbols -> Answers] :
        \E pending \in {history \o live(answers)} : \E fresh \in {Picked(pending, Unseen(pending))} :
          feed' = [feed EXCEPT !.at = "hand", !.loaded = TRUE, !.queue = fresh,
                               !.seen = @ \cup Ids(fresh)]
  BY DEF AskLive
<1> DEFINE last == live(answers)
           pending == history \o last
           fresh == Picked(pending, Unseen(pending))
<1>4. feed' = [feed EXCEPT !.at = "hand", !.loaded = TRUE, !.queue = fresh, !.seen = @ \cup Ids(fresh)]
  <2> HIDE DEF history, live, Unseen, Ids
  <2>1. PICK p \in {history \o live(answers)} : \E f \in {Picked(p, Unseen(p))} :
          feed' = [feed EXCEPT !.at = "hand", !.loaded = TRUE, !.queue = f, !.seen = @ \cup Ids(f)]
    BY <1>3
  <2> QED
    BY <2>1
<1>5. stamp \in 0..clock /\ broker.last <= stamp
  BY <1>1 DEF Provider, InStep
<1>6. last = <<>> \/ \E e : last = <<e>> /\ e.kind = "live" /\ e.at = stamp
  BY LiveSnapshotIs
<1>7. /\ history \in Seq(Range(history)) /\ Rising(history)
      /\ \A x \in Range(history) : x.kind = "hist" /\ x.at \in 0..clock /\ x.at < stamp
      /\ ~feed.loaded => Range(history) = Meant(feed.bars, feed.session, stamp)
      /\ feed.loaded => history = <<>>
  <2>1. CASE feed.loaded \/ feed.bars = <<>>
    <3>1. history = <<>> /\ Range(<<>>) = {} /\ <<>> \in Seq({})
      BY <2>1, EmptyRow
    <3>2. Rising(<<>>)
      BY DEF Rising
    <3>3. ~feed.loaded => Meant(feed.bars, feed.session, stamp) = {}
      BY <2>1, NothingMeant
    <3> HIDE DEF history
    <3> QED
      BY <3>1, <3>2, <3>3
  <2>2. CASE ~(feed.loaded \/ feed.bars = <<>>)
    <3>1. Bars(feed.bars)
      BY <1>1 DEF Provider
    <3>2. history = Replayed(feed.bars, DayOf(stamp), stamp)
      BY <2>2
    <3> DEFINE bars == feed.bars
    <3> HIDE DEF history, stamp, bars
    <3>3. LET q == Replayed(bars, DayOf(stamp), stamp)
          IN  /\ q \in Seq(Range(q)) /\ Rising(q)
              /\ Range(q) = Meant(bars, feed.session, stamp)
              /\ \A e \in Range(q) : e.kind = "hist" /\ e.at \in 1..clock /\ e.at < stamp
      BY <1>2, <1>5, <3>1, ReplayedIsMeant DEF bars
    <3>4. \A x \in 1..clock : x \in 0..clock
      BY <1>2
    <3> QED
      BY <2>2, <3>2, <3>3, <3>4 DEF bars
  <2> QED
    BY <2>1, <2>2
<1> HIDE DEF stamp, history, last
<1>8. /\ Row(pending) /\ Hist(pending) = history
      /\ \A x \in Range(pending) : x \in Range(history) \/ x.at = stamp
  <2>1. CASE last = <<>>
    <3>1. pending = history
      BY <1>7, <2>1
    <3>2. Row(history)
      BY <1>2, <1>7, RisingRow
    <3>3. Hist(history) = history
      BY <1>7, HistAll
    <3> HIDE DEF pending
    <3> QED
      BY <3>1, <3>2, <3>3
  <2>2. ASSUME NEW e, last = <<e>>, e.kind = "live", e.at = stamp
        PROVE  /\ Row(pending) /\ Hist(pending) = history
               /\ \A x \in Range(pending) : x \in Range(history) \/ x.at = stamp
    <3>1. pending = Append(history, e)
      BY <1>7, <2>2
    <3>2. /\ Row(Append(history, e)) /\ Range(Append(history, e)) = Range(history) \cup {e}
          /\ Hist(Append(history, e)) = history
      BY <1>2, <1>5, <1>7, <2>2, HistoryThenLive
    <3> HIDE DEF pending
    <3> QED
      BY <2>2, <3>1, <3>2
  <2> QED
    BY <1>6, <2>1, <2>2
<1>9. /\ DOMAIN feed' = FeedFields /\ feed' = [x \in FeedFields |-> feed'[x]]
      /\ feed'.at = "hand" /\ feed'.loaded = TRUE /\ feed'.queue = fresh /\ feed'.todo = {}
      /\ feed'.session = feed.session /\ feed'.asof = feed.asof /\ feed'.cut = feed.cut
      /\ feed'.bars = feed.bars
  <2> HIDE DEF fresh, Ids
  <2> QED
    BY <1>1, <1>4 DEF FeedFields
<1>10. Provider' /\ Here'
  <2>1. Bars(feed.bars)'
    BY <1>1, <1>9 DEF Provider, Bars, Alone
  <2> QED
    BY <1>1, <1>9, <2>1 DEF Provider, Here, Alone
\* it is enough that what is handed over follows what the broker has
<1>11. ASSUME Row(fresh), \A e \in Range(fresh) : broker.last <= e.at, told \in Seq(Range(told)),
              Range(Hist(told \o fresh)) = Meant(feed.bars, feed.session, feed.cut),
              Rising(Hist(told \o fresh))
       PROVE  Inv'
  <2> HIDE DEF fresh
  <2>1. InStep'
    BY <1>9, <1>11 DEF InStep, Row, Alone
  <2>2. Loaded'
    BY <1>9, <1>11 DEF Loaded, Shows, Alone
  <2> QED
    BY <1>2, <1>9, <1>10, <2>1, <2>2 DEF Inv, FeedInv
<1>12. CASE ~feed.loaded
  <2>1. /\ told = <<>> /\ feed.seen = {} /\ feed.cut = stamp
        /\ broker.ids = {} \/ feed.bars = <<>>
    BY <1>1, <1>12 DEF Unloaded, stamp
  <2>2. fresh = pending
    <3>1. pending \in Seq(Range(pending))
      BY <1>8 DEF Row
    <3>2. 1..Len(pending) \subseteq Unseen(pending)
      <4> HIDE DEF pending
      <4> QED
        BY <2>1, <3>1
    <3> HIDE DEF pending, Unseen
    <3> QED
      BY <3>1, <3>2, PickedAll
  <2>3. \A x \in Range(pending) : broker.last <= x.at
    <3> SUFFICES ASSUME NEW x \in Range(pending) PROVE broker.last <= x.at
      OBVIOUS
    <3>1. CASE x \in Range(history)
      <4>1. feed.bars # <<>>
        BY <1>7, <1>12, <3>1, NothingMeant
      <4>2. broker.last = 0 /\ x.at \in 0..clock
        BY <1>2, <1>7, <2>1, <3>1, <4>1 DEF ClockInv
      <4> QED
        BY <4>2
    <3>2. CASE x.at = stamp
      BY <1>5, <3>2
    <3> QED
      BY <1>8, <3>1, <3>2
  <2>4. told \o pending = pending /\ told \in Seq(Range(told))
    <3>1. pending \in Seq(Range(pending))
      BY <1>8 DEF Row
    <3> HIDE DEF pending
    <3> QED
      BY <2>1, <3>1
  <2>5. Range(Hist(pending)) = Meant(feed.bars, feed.session, feed.cut) /\ Rising(Hist(pending))
    BY <1>7, <1>8, <1>12, <2>1
  <2> HIDE DEF fresh, pending
  <2> QED
    BY <1>8, <1>11, <2>2, <2>3, <2>4, <2>5
<1>13. CASE feed.loaded
  <2>1. told \in Seq(Range(told)) /\ Shows(told \o <<>>)
    BY <1>1, <1>13 DEF Loaded
  <2>2. told \o <<>> = told
    BY <2>1
  <2>3. Range(Hist(told)) = Meant(feed.bars, feed.session, feed.cut) /\ Rising(Hist(told))
    BY <2>1, <2>2 DEF Shows
  <2>4. fresh = <<>> \/ \E e : fresh = <<e>> /\ e.kind = "live" /\ e.at = stamp
    <3>1. CASE last = <<>>
      <4>1. pending = <<>>
        BY <1>7, <1>13, <3>1
      <4> HIDE DEF pending
      <4> QED
        BY <4>1, PickedEmpty
    <3>2. ASSUME NEW e, last = <<e>>, e.kind = "live", e.at = stamp
          PROVE  fresh = <<>> \/ fresh = <<e>>
      <4>1. pending = Append(<<>>, e) /\ <<>> \in Seq({e}) /\ e \in {e}
        BY <1>7, <1>13, <3>2
      <4> DEFINE I == Unseen(pending)
                 none == <<>>
      <4>2. none \in Seq({e}) /\ e \in {e} /\ pending = Append(none, e)
        BY <4>1
      <4> HIDE DEF I, pending, none
      <4>3. Picked(pending, I) = IF Len(none) + 1 \in I THEN Append(Picked(none, I), e) ELSE Picked(none, I)
        BY <4>2, PickedAppend
      <4>4. Picked(none, I) = <<>>
        BY PickedEmpty DEF none
      <4>5. Picked(pending, I) = <<>> \/ Picked(pending, I) = <<e>>
        BY <4>3, <4>4
      <4> QED
        BY <4>5 DEF I
    <3> HIDE DEF fresh, pending
    <3> QED
      BY <1>6, <3>1, <3>2
  <2> HIDE DEF fresh
  <2>5. CASE fresh = <<>>
    BY <1>11, <2>1, <2>2, <2>3, <2>5, EmptyRow
  <2>6. ASSUME NEW e, fresh = <<e>>, e.kind = "live", e.at = stamp PROVE Inv'
    <3>1. DOMAIN fresh = {1} /\ fresh[1] = e /\ Len(fresh) = 1 /\ fresh \in Seq({e})
      BY <2>6
    <3>2. Range(fresh) = {e}
      BY <3>1 DEF Range
    <3>3. Row(fresh)
      BY <1>5, <2>6, <3>1, <3>2 DEF Row
    <3>4. told \o fresh = Append(told, e)
      BY <2>1, <2>6
    <3> DEFINE E == Range(told) \cup {e}
    <3>5. told \in Seq(E) /\ e \in E
      BY <2>1
    <3> HIDE DEF E
    <3>6. Hist(Append(told, e)) = Hist(told)
      BY <2>6, <3>5, HistAppend
    <3> QED
      BY <1>5, <1>11, <2>1, <2>3, <2>6, <3>2, <3>3, <3>4, <3>6
  <2> QED
    BY <2>4, <2>5, <2>6
<1> QED
  BY <1>12, <1>13

\* The event in front is not older than what the broker has, so it is taken;
\* what is told and what is still to be told stay together what they were.
LEMMA DeliverInv == Inv /\ Deliver => Inv'
<1> SUFFICES ASSUME Inv, Deliver PROVE Inv'
  OBVIOUS
<1>1. /\ Here /\ Provider /\ InStep /\ (IF feed.loaded THEN Loaded ELSE Unloaded)
      /\ DOMAIN feed = FeedFields /\ feed = [x \in FeedFields |-> feed[x]]
      /\ feed.at = "hand" /\ feed.queue # <<>>
  BY FeedIs DEF Deliver
<1>2. Loaded /\ feed.loaded
  BY <1>1 DEF Unloaded
<1> DEFINE queue == feed.queue
           event == Head(queue)
           known == IdOf(event) \in broker.ids
<1>3. Row(queue) /\ \A e \in Range(queue) : broker.last <= e.at /\ e.at \in 0..clock
  BY <1>1 DEF InStep, Row
<1>4. ClockInv /\ clock \in Nat
  BY DEF Inv, ClockInv
<1> HIDE DEF queue
<1>5. /\ Row(Tail(queue)) /\ event \in Range(queue)
      /\ \A e \in Range(Tail(queue)) : e \in Range(queue) /\ event.at <= e.at
  BY <1>1, <1>3, RowTail DEF queue
<1>6. broker.last <= event.at /\ event.at \in 0..clock /\ broker.last \in 0..clock
  BY <1>3, <1>4, <1>5 DEF ClockInv
<1> HIDE DEF event
<1>7. ~(broker.last > event.at)
  BY <1>4, <1>6
<1>8. /\ feed' = [feed EXCEPT !.queue = Tail(@)] /\ told' = Append(told, event)
      /\ broker' = IF known THEN broker
                   ELSE [broker EXCEPT !.ids = @ \cup {IdOf(event)}, !.last = event.at]
      /\ UNCHANGED <<clock, trades>>
  BY <1>7 DEF Deliver, event, queue
<1>9. /\ DOMAIN feed' = FeedFields /\ feed' = [x \in FeedFields |-> feed'[x]]
      /\ feed'.at = "hand" /\ feed'.loaded = TRUE /\ feed'.queue = Tail(queue) /\ feed'.todo = feed.todo
      /\ feed'.session = feed.session /\ feed'.asof = feed.asof /\ feed'.cut = feed.cut
      /\ feed'.bars = feed.bars
  BY <1>1, <1>2, <1>8 DEF FeedFields, queue
<1>10. /\ ClockInv' /\ broker'.last = IF known THEN broker.last ELSE event.at
  <2> HIDE DEF known
  <2>1. CASE known
    BY <1>4, <1>8, <2>1 DEF ClockInv
  <2>2. CASE ~known
    BY <1>4, <1>6, <1>8, <2>2 DEF ClockInv
  <2> QED
    BY <2>1, <2>2
<1>11. Provider' /\ Here'
  <2>1. Bars(feed.bars)'
    BY <1>1, <1>8, <1>9 DEF Provider, Bars
  <2> QED
    BY <1>1, <1>8, <1>9, <2>1 DEF Provider, Here
<1>12. InStep'
  <2>2. \A e \in Range(Tail(queue)) : broker'.last <= e.at
    BY <1>3, <1>5, <1>10
  <2>3. Row(feed.queue)'
    BY <1>5, <1>8, <1>9 DEF Row
  <2> QED
    BY <1>9, <2>2, <2>3 DEF InStep
<1>13. Loaded'
  <2>1. told \in Seq(Range(told)) /\ queue \in Seq(Range(queue)) /\ queue # <<>>
    BY <1>1, <1>2, <1>3 DEF Loaded, Row, queue
  <2>2. told' \o Tail(queue) = told \o queue /\ told' \in Seq(Range(told'))
    BY <1>8, <2>1, MoveOn DEF event
  <2> QED
    BY <1>2, <1>9, <2>2 DEF Loaded, Shows, queue
<1> QED
  BY <1>9, <1>10, <1>11, <1>12, <1>13 DEF Inv, FeedInv

\* Every step keeps what the run is made of.
THEOREM InvHolds == Spec => []Inv
<1>1. Init => Inv
  BY InitInv
<1>2. Inv /\ [Next]_vars => Inv'
  <2> SUFFICES ASSUME Inv, [Next]_vars PROVE Inv'
    OBVIOUS
  <2>1. CASE Tick
    BY <2>1, TickInv
  <2>2. ASSUME NEW s \in Symbols, Trade(s) PROVE Inv'
    BY <2>2, TradeInv
  <2>3. ASSUME NEW config \in Configs, Start(config) PROVE Inv'
    BY <2>3, StartInv
  <2>4. CASE Provide
    <3>1. Alone
      BY <2>4 DEF Provide, Alone
    <3> QED
      BY <2>4, <3>1, EnterInv, PollInv, AskBarsInv, AskLiveInv, FeedFailsInv, PauseInv, WakeInv DEF Provide
  <2>5. CASE Deliver
    BY <2>5, DeliverInv
  <2>6. CASE Crash
    BY <2>6, CrashInv
  <2>7. CASE UNCHANGED vars
    <3>1. UNCHANGED <<clock, trades, feed, broker, told>>
      BY <2>7 DEF vars
    <3>2. ClockInv'
      BY <3>1 DEF Inv, ClockInv
    <3>3. FeedInv' /\ (Here \/ feed = Off)'
      <4>1. (Provider => Provider') /\ (InStep => InStep')
        BY <3>1 DEF Provider, Bars, InStep, Row
      <4>2. (Loaded => Loaded') /\ (Unloaded => Unloaded')
        BY <3>1 DEF Loaded, Unloaded, Shows
      <4>3. Here' = Here /\ Off' = Off
        BY <3>1 DEF Here, Off
      <4> QED
        BY <3>1, <4>1, <4>2, <4>3 DEF Inv, FeedInv
    <3> QED
      BY <3>2, <3>3 DEF Inv
  <2> QED
    BY <2>1, <2>2, <2>3, <2>4, <2>5, <2>6, <2>7 DEF Next
<1> QED
  BY <1>1, <1>2, PTL DEF Spec

\* No event the provider yields is refused by the broker it feeds, whatever
\* trades, however long the bars and the clock take, and however many runs went
\* on with its file.
THEOREM NeverRefusedHolds == Spec => []NeverRefused
<1>1. Inv => NeverRefused
  BY DEF Inv, ClockInv, NeverRefused
<1> QED
  BY <1>1, InvHolds, PTL

\* Between two batches and at its end, a run whose bars are loaded was shown
\* all of the history it asked for, each second once and in order.
THEOREM HistoryWholeHolds == Spec => []HistoryWhole
<1>1. Inv => HistoryWhole
  <2> SUFFICES ASSUME Inv, feed.at \in {"asleep", "ended"}, feed.loaded
               PROVE  LET shown == Picked(told, {i \in DOMAIN told : told[i].kind = "hist"})
                      IN /\ Range(shown) = HistoryMeant
                         /\ \A i \in 1 .. Len(shown) - 1 : shown[i].at < shown[i + 1].at
    BY DEF HistoryWhole
  <2>1. Loaded /\ feed.queue = <<>>
    BY FeedIs DEF InStep
  <2>2. told \o <<>> = told
    BY <2>1 DEF Loaded
  <2>3. Range(Hist(told)) = HistoryMeant /\ Rising(Hist(told))
    BY <2>1, <2>2, HistoryIsMeant DEF Loaded, Shows
  <2>4. Hist(told) = Picked(told, {i \in DOMAIN told : told[i].kind = "hist"})
    BY DEF Hist
  <2> DEFINE shown == Hist(told)
  <2>5. \A i \in 1 .. Len(shown) - 1 : shown[i].at < shown[i + 1].at
    <3>1. Len(shown) \in Nat
      <4>1. told \in Seq(Range(told))
        BY <2>1 DEF Loaded
      <4> DEFINE E == Range(told)
                 I == {i \in DOMAIN told : told[i].kind = "hist"}
      <4>2. told \in Seq(E)
        BY <4>1
      <4> HIDE DEF E, I
      <4>3. Picked(told, I) \in Seq(E)
        BY <4>2, PickedRange
      <4> QED
        BY <4>3 DEF Hist, I
    <3>2. \A i \in 1 .. Len(shown) - 1 : i \in 1..Len(shown) /\ i + 1 \in 1..Len(shown) /\ i < i + 1
      BY <3>1
    <3> QED
      BY <2>3, <3>2 DEF Rising
  <2> QED
    BY <2>3, <2>4, <2>5
<1> QED
  BY <1>1, InvHolds, PTL
====
