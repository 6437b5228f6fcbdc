------------------------------ MODULE PairLegs ------------------------------
(* The two-leg orders of the pair strategies (strategies/pairs.py): entering *)
(* a pair, what its fills mean, and flattening. An operator that trades      *)
(* returns the desk it leaves.                                               *)
EXTENDS Desk, PremiumSignals

CONSTANT Capital  \* capital_per_side
ASSUME CapitalAssumption == Capital \in Nat

NoIntent == [pair |-> NoPair, long |-> 0, short |-> 0, applied |-> FALSE, failed |-> FALSE]
Legs(intent) == {intent.long, intent.short}
Live(intent) == intent # NoIntent /\ ~intent.applied /\ ~intent.failed

\* pair_intent_pending: this pair is ordered and a leg can still fill.
Pending(desk, intent, pair) ==
  /\ Live(intent) /\ intent.pair = pair
  /\ \E i \in Legs(intent) : InFlight(desk.orders[i])

CancelLeg(desk, i) == IF InFlight(desk.orders[i]) THEN Cancelled(desk, i) ELSE desk
\* Mutant: a replaced intent leaves its legs in the market.
CancelInFlightNot(desk, intent) == desk
CancelInFlight(desk, intent) == CancelLeg(CancelLeg(desk, intent.long), intent.short)

\* _awaiting_fill, of the orders as submit returned them.
Awaiting(long, short) ==
  \/ long.status = "FILLED" /\ short.status = "FILLED"
  \/ InFlight(long) \/ InFlight(short)
  \/ long.filled > 0 \/ short.filled > 0

Opposite(desk, s) == IF Held(desk, s) > 0 THEN "SELL" ELSE "BUY"

\* An opposite order for every position, in the order of the portfolio. The
\* positions are read once, before the first order.
Flatten(desk) ==
  SubmitEach(desk, [s \in Symbols |-> [side |-> Opposite(desk, s), qty |-> Abs(Held(desk, s))]],
             FALSE)

LegSize(desk, s) == IF Close(desk, s) > 0 THEN Capital \div Close(desk, s) ELSE 0

\* The short leg is sent first. The intent is kept whatever became of the legs.
EnterPair(desk, pair) ==
  LET sold == Submit(desk, pair[2], "SELL", LegSize(desk, pair[2]), TRUE)
      both == Submit(sold, pair[1], "BUY", LegSize(desk, pair[1]), TRUE)
      short == Len(desk.orders) + 1
      long == short + 1
  IN  IF both.raised THEN [desk |-> both, intent |-> NoIntent]
      ELSE [desk |-> both,
            intent |-> [pair |-> pair, long |-> long, short |-> short, applied |-> FALSE,
                        failed |-> ~Awaiting(both.orders[long], both.orders[short])]]

\* open_pair: [desk, intent, sent].
OpenPair(desk, intent, pair) ==
  IF LegSize(desk, pair[1]) = 0 \/ LegSize(desk, pair[2]) = 0
  THEN [desk |-> desk, intent |-> intent, sent |-> FALSE]
  ELSE IF Pending(desk, intent, pair)
  THEN [desk |-> desk, intent |-> intent, sent |-> TRUE]
  ELSE LET free == IF Live(intent) /\ intent.pair # pair
                   THEN CancelInFlight(desk, intent) ELSE desk
           entered == EnterPair(free, pair)
       IN  [desk |-> entered.desk, intent |-> entered.intent,
            sent |-> ~entered.intent.failed]

LegFailed(order) == order.status \in {"REJECTED", "CANCELLED", "EXPIRED"}

\* consume_pair_fill: what a fill says of the intent.
Outcome(desk, intent, fill) ==
  IF ~Live(intent) \/ fill.order \notin Legs(intent) THEN "none"
  ELSE IF \A i \in Legs(intent) : desk.orders[i].status = "FILLED" THEN "opened"
  ELSE IF \E i \in Legs(intent) : LegFailed(desk.orders[i]) THEN "failed"
  ELSE "none"

\* Mutant: the leg that traded is kept when the other one died.
RolledBackNot(desk, intent) == desk
\* The leg that traded is undone when the other one died.
RolledBack(desk, intent) ==
  IF \E i \in Legs(intent) : desk.orders[i].filled > 0 THEN Flatten(desk) ELSE desk
=============================================================================
