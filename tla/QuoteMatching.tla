---- MODULE QuoteMatching ----
(***************************************************************************)
(* The order path of one fill: QuoteMatching (simulation/matching.py), the *)
(* slippage model, the fee and the cash check (execution.py, engine.py,    *)
(* portfolio_service.py).  Quantities and money are counted in their       *)
(* smallest units, so floor_quantity() is the identity; the fee is rounded *)
(* to MoneyQuantum units, half to even, as Decimal.quantize does.          *)
(*                                                                         *)
(* A quote has the fields ask, bid, last (0 when the price is missing or   *)
(* not positive) and askSize, bidSize (NoSize when no depth is given).     *)
(***************************************************************************)
EXTENDS Integers

CONSTANTS FeeNum, FeeDen, \* the fee rate FeeNum/FeeDen
          MoneyQuantum,   \* MONEY_QUANTUM, in money units
          Slip            \* FixedSlippage.amount; 0 is NoSlippage
ASSUME FeeAssumption ==
  /\ FeeNum \in Nat /\ FeeDen \in Nat \ {0} /\ FeeNum < FeeDen
  /\ MoneyQuantum \in Nat \ {0}
ASSUME SlipAssumption == Slip \in Nat

NoSize == -1

\* The price on the order's side of the book, else the last trade.
Touch(q, side) ==
  LET best == IF side = "BUY" THEN q.ask ELSE q.bid
  IN  IF best > 0 THEN best ELSE q.last

Size(q, side) == IF side = "BUY" THEN q.askSize ELSE q.bidSize

\* Mutant: a limit order takes any price.
CrossesAlways(spec, raw) == TRUE
Crosses(spec, raw) ==
  \/ spec.type = "MARKET"
  \/ spec.side = "BUY"  /\ raw <= spec.limit
  \/ spec.side = "SELL" /\ raw >= spec.limit

\* n units at the raw price, fee included, fit in the cash: the bound that
\* affordable = floor(cash / (raw * (1 + fee_rate))) puts on n.
Affordable(n, raw, cash) == n * raw * (FeeDen + FeeNum) <= cash * FeeDen

\* Mutant: no permission is needed to sell what is not held.
ShortAlways(n, spec, position) == TRUE
HoldsEnough(n, spec, position) == spec.short \/ n <= position

ExecPrice(side, raw) == IF side = "BUY" THEN raw + Slip ELSE raw - Slip

RoundHalfEven(a, b) ==
  LET down == a \div b
      rest == a % b
  IN  IF 2 * rest < b \/ (2 * rest = b /\ down % 2 = 0) THEN down ELSE down + 1

FeeFor(n, price) ==
  MoneyQuantum * RoundHalfEven(n * price * FeeNum, FeeDen * MoneyQuantum)

CashAfter(side, cash, n, price) ==
  IF side = "BUY" THEN cash - n * price - FeeFor(n, price)
                  ELSE cash + n * price - FeeFor(n, price)

PositionAfter(side, position, n) ==
  IF side = "BUY" THEN position + n ELSE position - n
====
