-------------------------------- MODULE Desk --------------------------------
(* What a strategy trades on: StrategyContext.submit_order with its          *)
(* execution policy (strategy.py, execution_policy.py) over one account of   *)
(* the paper broker, as operators on a record of the account. Quotes carry   *)
(* a last price and no depth (quote_fill = "last").                          *)
(*                                                                           *)
(* desk.raised says that a call raised: nothing after it is done.            *)
EXTENDS OrderRules, Portfolio, Sequences, FiniteSets, Functions

NoRow == -1
NoOp == [noop |-> TRUE, quantum |-> 1, tick |-> 1, min |-> 1, offset |-> 0]

\* The account of create_account and the context a run puts over it. terms: the
\* latency, the permission to go short and the policy of the run.
OpenDesk(symbols, cash, terms) ==
  [orders |-> <<>>, fills |-> <<>>, cash |-> cash, fees |-> 0,
   holdings |-> [s \in symbols |-> NoHolding], curve |-> <<>>,
   book |-> [s \in symbols |-> NoRow], time |-> 0, market |-> <<>>,
   terms |-> terms, raised |-> FALSE]

InFlight(order) == order.status \in Working \cup {"CREATED"}

Held(desk, s) == desk.holdings[s].qty

\* What the snapshot the strategy is shown says; 0 when it says nothing.
Close(desk, s) == IF s \in DOMAIN desk.market THEN desk.market[s].last ELSE 0

----------------------------------------------------------------------------
(* OffsetLimitPolicy.translate *)

\* The limit stays at least as aggressive as the price.
SnapToTick(price, tick, side) ==
  tick * (IF side = "BUY" THEN (price + tick - 1) \div tick ELSE price \div tick)

OffsetLimit(policy, reference, side) ==
  SnapToTick(IF side = "BUY" THEN reference + policy.offset ELSE reference - policy.offset,
             policy.tick, side)

RoundQuantity(policy, qty) == (qty \div policy.quantum) * policy.quantum

\* The order the venue is given, as a MARKET order of the strategy becomes it.
Translated(desk, s, side, qty) ==
  LET policy == desk.terms.policy
  IN  IF policy.noop THEN [type |-> "MARKET", limit |-> 0, qty |-> qty]
      ELSE [type |-> "LIMIT", limit |-> OffsetLimit(policy, Close(desk, s), side),
            qty |-> RoundQuantity(policy, qty)]

Raises(desk, s, side, qty) ==
  LET policy == desk.terms.policy
      to == Translated(desk, s, side, qty)
  IN  ~policy.noop /\ (Close(desk, s) <= 0 \/ to.limit <= 0 \/ to.qty < policy.min)

----------------------------------------------------------------------------
(* The paper broker *)

SpecOf(desk, o) ==
  [type |-> o.type, side |-> o.side, limit |-> o.limit, short |-> desk.terms.short]

Fillable(desk, o) ==
  {n \in 1..(o.qty - o.filled) :
     /\ o.side = "BUY" => Affordable(n, desk.book[o.symbol], desk.cash)
     /\ o.side = "SELL" => HoldsEnough(n, SpecOf(desk, o), Held(desk, o.symbol))}

\* apply_fill of the portfolio; it raises when the cash does not cover the fill.
Booked(desk, s, side, n, price) ==
  LET cash == CashAfter(side, desk.cash, n, price)
  IN  IF cash < 0 THEN [desk EXCEPT !.raised = TRUE]
      ELSE [desk EXCEPT !.cash = cash, !.fees = @ + FeeFor(n, price),
                        !.holdings[s] = AfterTrade(@, side, n, price)]

Filled(desk, i, n) ==
  LET o == desk.orders[i]
      price == ExecPrice(o.side, desk.book[o.symbol])
      booked == Booked(desk, o.symbol, o.side, n, price)
  IN  IF price <= 0 THEN [desk EXCEPT !.raised = TRUE]
      ELSE IF booked.raised THEN booked
      ELSE [booked EXCEPT !.orders[i] = AfterFill(o, n),
                          !.fills = Append(@, [order |-> i, qty |-> n])]

\* One order against the book: it waits, closes, or fills as far as it can.
Matched(desk, i) ==
  LET o == desk.orders[i]
      raw == desk.book[o.symbol]
      sizes == Fillable(desk, o)
  IN  IF desk.raised \/ raw = NoRow \/ (raw = 0 /\ o.type = "LIMIT") THEN desk
      ELSE IF raw > 0 /\ ~Crosses(SpecOf(desk, o), raw) THEN desk
      ELSE IF raw = 0 \/ sizes = {}
      THEN IF o.type = "MARKET" \/ o.filled = 0
           THEN [desk EXCEPT !.orders[i] = AfterClose(o, TRUE)] ELSE desk
      ELSE Filled(desk, i, CHOOSE n \in sizes : \A m \in sizes : m <= n)

\* submit_order. Client ids are not modelled: no strategy here gives one twice. Nor
\* is the point of the equity history that submit_order writes over that of its
\* event: the last point here is the one feed has left.
Submit(desk, s, side, qty, entry) ==
  LET to == Translated(desk, s, side, qty)
      created == [symbol |-> s, side |-> side, type |-> to.type, limit |-> to.limit,
                  qty |-> to.qty, filled |-> 0, status |-> "CREATED", at |-> desk.time,
                  active |-> desk.time + desk.terms.lag, entry |-> entry]
      due == desk.terms.lag = 0
      placed == [desk EXCEPT
                   !.orders = Append(@, IF due THEN AfterAccept(created) ELSE created)]
  IN  IF desk.raised THEN desk
      ELSE IF Raises(desk, s, side, qty) THEN [desk EXCEPT !.raised = TRUE]
      ELSE IF due THEN Matched(placed, Len(placed.orders))
      ELSE placed

\* Orders for one symbol after the other; wanted says [side, qty] of each, a
\* quantity of 0 that there is none.
SubmitEach(desk, wanted, entry) ==
  LET upTo[s \in 0..Len(wanted)] ==
        IF s = 0 THEN desk
        ELSE IF wanted[s].qty = 0 THEN upTo[s - 1]
        ELSE Submit(upTo[s - 1], s, wanted[s].side, wanted[s].qty, entry)
  IN  upTo[Len(wanted)]

\* cancel_order with its default confirmation.
Cancelled(desk, i) ==
  LET pending == AfterRequestCancel(desk.orders[i])
  IN  [desk EXCEPT !.orders[i] = IF pending.status = "CANCEL_PENDING"
                                 THEN AfterConfirmCancel(pending) ELSE pending]

Activated(desk, clock) ==
  [desk EXCEPT !.orders = [i \in DOMAIN @ |->
     IF @[i].status = "CREATED" /\ clock >= @[i].active THEN AfterAccept(@[i]) ELSE @[i]]]

\* feed, up to the matching: the book takes the quotes, due orders are activated.
Fed(desk, snap, now) ==
  Activated([desk EXCEPT !.market = snap, !.time = now,
                         !.book = [s \in DOMAIN @ |->
                                     IF s \in DOMAIN snap THEN snap[s].last ELSE @[s]]],
            now)

\* portfolio.equity at the quotes of the book
Equity(desk) ==
  desk.cash
    + SumFunction([s \in DOMAIN desk.holdings |-> MarketValue(desk.holdings[s], desk.book[s])])

\* _record_equity, the last of what feed does for an account.
Recorded(desk) == [desk EXCEPT !.curve = Append(@, [equity |-> Equity(desk), fees |-> desk.fees])]

WorkingOrders(desk) == {i \in DOMAIN desk.orders : desk.orders[i].status \in Working}
=============================================================================
