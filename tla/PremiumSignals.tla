--------------------------- MODULE PremiumSignals ---------------------------
(* The premium windows of the pair strategies and the two signals read from  *)
(* them: bubble rank and the z-score of a spread (strategies/pairs.py,       *)
(* bubble_rank.py, pair_zscore.py and signals/).                             *)
(*                                                                           *)
(* A snapshot is a function from the symbols it quotes to [last, nav,        *)
(* premium], 0 and Missing standing for None. Premiums are whole numbers;    *)
(* means and deviations are compared as fractions, so the rounding to two    *)
(* and four digits, far finer than any two of the values that can arise      *)
(* differ, is left out.                                                      *)
EXTENDS Integers, Sequences, FiniteSets, Functions, Selection

CONSTANTS
  Symbols,      \* numbers, in the order their names sort
  FundA, FundB, \* the pair of pair_zscore
  Window,       \* window_days, in the unit of the event times
  MinSamples,
  MinGap,       \* min_gap of bubble_rank
  ZNum, ZDen    \* z_threshold of pair_zscore, ZNum / ZDen

ASSUME SignalAssumption ==
  /\ IsFiniteSet(Symbols) /\ Symbols = 1..Cardinality(Symbols) /\ {FundA, FundB} \subseteq Symbols
  /\ Window \in Int /\ MinSamples \in Nat \ {0} /\ MinGap \in Nat
  /\ ZNum \in Nat /\ ZDen \in Nat \ {0}

Missing == -1000
NoPair == <<>>

Total(values) == SumFunction(values)
LastOf(s) == s[Len(s)]

\* The column, or what close and NAV say when it is null.
QuotePremium(q) ==
  IF q.premium # Missing THEN q.premium
  ELSE IF q.last > 0 /\ q.nav > 0 THEN ((q.last - q.nav) * 100) \div q.nav
  ELSE Missing

Quoting(snap) == {s \in DOMAIN snap : QuotePremium(snap[s]) # Missing}

----------------------------------------------------------------------------
(* A series: points [at, value] in time order *)

Within(at, now) == Window <= 0 \/ at >= now - Window

Drop(series, now) == Picked(series, {i \in DOMAIN series : Within(series[i].at, now)})

\* Mutant: a second snapshot of one moment is a point of its own.
PutTwice(series, now, value) == Append(series, [at |-> now, value |-> value])
\* A point of the last moment is replaced, an older one is not taken.
Put(series, now, value) ==
  LET point == [at |-> now, value |-> value]
  IN  IF series = <<>> \/ now > LastOf(series).at THEN Append(series, point)
      ELSE IF now = LastOf(series).at THEN [series EXCEPT ![Len(series)] = point]
      ELSE series

\* append_premiums: what leaves the window goes when a point is added.
AppendPremiums(history, snap, now) ==
  [s \in Symbols |->
     IF s \notin Quoting(snap) THEN history[s]
     ELSE LET more == Put(history[s], now, QuotePremium(snap[s]))
          IN  IF Len(more) > Len(history[s]) THEN Drop(more, now) ELSE more]

\* pair_zscore keeps spreads, of the snapshots that have both premiums.
AppendSpread(series, snap, now) ==
  IF {FundA, FundB} \subseteq Quoting(snap)
  THEN Drop(Put(series, now, QuotePremium(snap[FundA]) - QuotePremium(snap[FundB])), now)
  ELSE series

WindowValues(series, now) ==
  LET fresh == Drop(series, now)
  IN  [i \in DOMAIN fresh |-> fresh[i].value]

----------------------------------------------------------------------------
(* compute_rankings *)

\* Mean and score are kept as fractions of this common multiple.
Scale == 12

\* compute_symbol_score: how far the last premium is below the mean.
Score(values) == (Scale * Total(values)) \div Len(values) - Scale * LastOf(values)

\* Symbols on the snapshot with enough samples, their score and their rank.
BestPair(history, snap, now) ==
  LET values == [s \in Quoting(snap) |-> WindowValues(history[s], now)]
      ok == {s \in Quoting(snap) : values[s] # <<>> /\ Len(values[s]) >= MinSamples}
      score == [s \in ok |-> Score(values[s])]
      Above(s, r) == score[s] > score[r] \/ (score[s] = score[r] /\ s > r)
      long  == CHOOSE s \in ok : \A r \in ok \ {s} : Above(s, r)
      short == CHOOSE s \in ok : \A r \in ok \ {s} : Above(r, s)
  IN  IF Cardinality(ok) < 2 THEN NoPair
      ELSE IF score[long] - score[short] >= Scale * MinGap THEN <<long, short>>
      ELSE NoPair

----------------------------------------------------------------------------
(* compute_pair_spread_stats *)

\* |z| >= threshold, z = (current - mean) / std, both sides squared and
\* multiplied out; a sample without variance has no z.
SpreadPair(values) ==
  LET n == Len(values)
      sum == Total(values)
      squares == Total([i \in DOMAIN values |-> values[i] * values[i]])
      variance == n * squares - sum * sum
      deviation == n * LastOf(values) - sum
      beyond == deviation * deviation * (n - 1) * ZDen * ZDen >= ZNum * ZNum * n * variance
  IN  IF n < MinSamples \/ variance = 0 \/ ~beyond THEN NoPair
      ELSE IF deviation >= 0 THEN <<FundB, FundA>> ELSE <<FundA, FundB>>
=============================================================================
