------------------------------ MODULE Portfolio ------------------------------
(* The books of an account: average cost and realized profit of a position  *)
(* (apply_position_fill, simulation/engine.py), and what the account is      *)
(* worth at the last marks (PortfolioService.snapshot).                      *)
(*                                                                           *)
(* A holding is [qty, average, realized, rounded]; average and realized are  *)
(* counted in parts of a money unit, Parts to the unit, so that the averages *)
(* of the small instances are whole numbers. rounded (a history) is what was *)
(* left out of the worth of the position where an average was rounded.       *)
EXTENDS QuoteMatching

Parts == 72
NoHolding == [qty |-> 0, average |-> 0, realized |-> 0, rounded |-> 0]

Abs(n) == IF n < 0 THEN -n ELSE n
Least(a, b) == IF a < b THEN a ELSE b
SameSign(a, b) == a > 0 <=> b > 0

\* Mutant: a position that changes sign keeps its old average.
TurnsOverNever(before, after) == FALSE
TurnsOver(before, after) == ~SameSign(before, after)

\* A fill adds to the position, or closes it as far as it goes; what is left
\* over opens the opposite position at the price of the fill.
AfterTrade(h, side, n, price) ==
  LET after == PositionAfter(side, h.qty, n)
      adds == h.qty = 0 \/ SameSign(h.qty, after - h.qty)
      paid == Abs(h.qty) * h.average + n * Parts * price
      rest == paid % Abs(after)
      gain == Least(Abs(h.qty), n) * (Parts * price - h.average)
  IN  IF adds
      THEN [qty |-> after, average |-> paid \div Abs(after), realized |-> h.realized,
            rounded |-> h.rounded + (IF after > 0 THEN rest ELSE -rest)]
      ELSE [qty |-> after,
            average |-> IF after = 0 THEN 0
                        ELSE IF TurnsOver(h.qty, after) THEN Parts * price ELSE h.average,
            realized |-> h.realized + (IF h.qty > 0 THEN gain ELSE -gain),
            rounded |-> h.rounded]

\* A position whose last quote has no price counts for nothing.
Marked(mark) == mark > 0
MarketValue(h, mark) == IF Marked(mark) THEN h.qty * mark ELSE 0
Unrealized(h, mark) == IF Marked(mark) THEN (Parts * mark - h.average) * h.qty ELSE 0
=============================================================================
