----------------------------- MODULE SingleLegs -----------------------------
(* The strategies that trade one symbol at a time and only long: streak,     *)
(* price_momentum, bubble_sign and ma_band (strategies/). Each keeps the     *)
(* prices it needs and decides on every quote of a snapshot.                 *)
EXTENDS Desk, PremiumSignals

CONSTANTS
  Length,      \* length of streak
  Threshold,   \* min_step_pct of streak, threshold_pct of price_momentum
  MaWindow, MaSymbol, Band, \* window, symbol and both bands (percent) of ma_band
  Quantity

ASSUME SingleAssumption ==
  /\ Length \in Nat \ {0, 1} /\ Threshold \in Nat \ {0} /\ MaWindow \in Nat \ {0}
  /\ MaSymbol \in Symbols /\ Band \in Nat /\ Quantity \in Nat \ {0}

Recent(prices, n) == SubSeq(prices, IF Len(prices) > n THEN Len(prices) - n + 1 ELSE 1, Len(prices))

\* The prices a strategy keeps of a symbol after a quote: a deque of length + 1
\* that a missing price clears, the last price, a deque of closes, or nothing.
Remember(name, s, prices, q) ==
  CASE name = "streak" -> IF q.last <= 0 THEN <<>> ELSE Recent(Append(prices, q.last), Length + 1)
    [] name = "price_momentum" -> IF q.last <= 0 THEN prices ELSE <<q.last>>
    [] name = "ma_band" /\ s = MaSymbol -> IF q.last <= 0 THEN prices
                                           ELSE Recent(Append(prices, q.last), MaWindow)
    [] OTHER -> prices

Moves(from, to) == 100 * (to - from) >= Threshold * from

\* Every step of a full window points the same way, at least min_step_pct far.
StreakSide(prices) ==
  LET Steps(Test(_, _)) == \A i \in 1..Length : Test(prices[i], prices[i + 1])
  IN  IF Len(prices) <= Length THEN "NONE"
      ELSE IF Steps(LAMBDA a, b : b > a /\ Moves(a, b)) THEN "BUY"
      ELSE IF Steps(LAMBDA a, b : b < a /\ 100 * (a - b) >= Threshold * a) THEN "SELL"
      ELSE "NONE"

MomentumSide(before, price) ==
  IF before = <<>> \/ price <= 0 THEN "NONE"
  ELSE IF Moves(before[1], price) THEN "BUY"
  ELSE IF 100 * (before[1] - price) >= Threshold * before[1] THEN "SELL"
  ELSE "NONE"

\* ma_band_side, of the close and the mean of the last closes.
BandSide(closes) ==
  LET close == 100 * MaWindow * LastOf(closes)
      sum == Total(closes)
  IN  IF Len(closes) < MaWindow THEN "NONE"
      ELSE IF close < sum * (100 - Band) THEN "BUY"
      ELSE IF close > sum * (100 + Band) THEN "SELL"
      ELSE "NONE"

SignSide(q) ==
  IF q.premium = Missing THEN "NONE"
  ELSE IF q.premium < 0 THEN "BUY" ELSE IF q.premium > 0 THEN "SELL" ELSE "NONE"

SideOf(name, s, before, q) ==
  LET after == Remember(name, s, before, q)
  IN  CASE name = "streak" -> StreakSide(after)
        [] name = "price_momentum" -> MomentumSide(before, q.last)
        [] name = "ma_band" -> IF s = MaSymbol /\ q.last > 0 THEN BandSide(after) ELSE "NONE"
        [] name = "bubble_sign" -> SignSide(q)

\* A signal is followed when it opens or closes the long position.
Tradable(desk, s, side) ==
  \/ side = "BUY" /\ Held(desk, s) <= 0
  \/ side = "SELL" /\ Held(desk, s) > 0

\* on_market_data: the quotes are gone through in the order of the snapshot. An
\* order for one symbol leaves the position in the next as it is.
TradeSingle(name, prices, desk) ==
  LET Side(s) == IF s \in DOMAIN desk.market
                 THEN SideOf(name, s, prices[s], desk.market[s]) ELSE "NONE"
  IN  SubmitEach(desk, [s \in Symbols |-> [side |-> Side(s),
                                          qty |-> IF Tradable(desk, s, Side(s)) THEN Quantity ELSE 0]],
                 TRUE)
=============================================================================
