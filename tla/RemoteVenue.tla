---- MODULE RemoteVenue ----
(***************************************************************************)
(* The venue of remote paper trading as simulation/inmemory_remote.py      *)
(* implements it: it owns matching, accepts every order at once, answers a *)
(* client id it knows with the order that id names, and matches an account *)
(* order by order when the market moves.  Accounts share nothing, so there *)
(* is one.  The operators take the account v and return what becomes of it;*)
(* RemoteSession says who calls them and when.                             *)
(***************************************************************************)
EXTENDS OrderRules, QuoteMatching, Sequences, FiniteSets, FiniteSetsExt

CONSTANTS
  Symbols,
  Intents,     \* what the client's callers want to trade
  OrderSpec,   \* [Intents -> [symbol, side, type, qty, limit]]
  Keyed,       \* the intents submitted with a client id of their own
  OrderIds,    \* order ids 1..n, in the order the venue gives them
  Snapshots,   \* market snapshots: functions from some of the symbols to quotes
  InitialCash

ASSUME IntentsAssumption ==
  /\ Keyed \subseteq Intents
  /\ IsFiniteSet(OrderIds) /\ OrderIds = 1..Cardinality(OrderIds)
  /\ OrderSpec \in [Intents -> [symbol : Symbols, side : {"BUY", "SELL"},
                                type : {"MARKET", "LIMIT"}, qty : Nat \ {0}, limit : Nat]]
ASSUME MarketAssumption ==
  /\ InitialCash \in Nat
  /\ \A snap \in Snapshots :
       /\ DOMAIN snap \subseteq Symbols
       /\ \A s \in DOMAIN snap :
            snap[s] \in [ask : Nat, bid : Nat, last : Nat,
                         askSize : Nat \cup {NoSize}, bidSize : Nat \cup {NoSize}]

VARIABLES
  venue,   \* the account: orders, the order each client id named, fills, cash, positions
  quotes,  \* a quote, or NoQuote, per symbol
  todo     \* orders a market event has still to match
server == <<venue, quotes, todo>>

NoOrder == [status |-> "NONE", filled |-> 0, qty |-> 0, intent |-> ""]
\* No quote is stored; a quote without any price is not this.
NoQuote == [ask |-> 0, bid |-> 0, last |-> -1, askSize |-> NoSize, bidSize |-> NoSize]

VenueInit ==
  /\ venue = [orders   |-> [o \in OrderIds |-> NoOrder],
              byClient |-> [i \in Keyed |-> 0],
              fills    |-> <<>>,
              cash     |-> InitialCash,
              position |-> [s \in Symbols |-> 0]]
  /\ quotes = [s \in Symbols |-> NoQuote]
  /\ todo = {}

----------------------------------------------------------------------------
(* Matching one order *)

Wanted(v, o) == OrderSpec[v.orders[o].intent]
Quote(v, o) == quotes[Wanted(v, o).symbol]
Raw(v, o)   == Touch(Quote(v, o), Wanted(v, o).side)

Tradable(v, o) ==
  /\ v.orders[o].status \in Working
  /\ Raw(v, o) > 0
  /\ Crosses(Wanted(v, o), Raw(v, o))

\* Quantities that could trade.  The whole size is there for every order, and
\* what a seller holds is not asked.
Fillable(v, o) ==
  LET size == Size(Quote(v, o), Wanted(v, o).side)
  IN  {n \in 1..(v.orders[o].qty - v.orders[o].filled) :
         /\ size # NoSize => n <= size
         /\ Wanted(v, o).side = "BUY" => Affordable(n, Raw(v, o), v.cash)}

\* A market order without a quote, or a buy that cannot start, is rejected.
Refused(v, o) ==
  /\ Wanted(v, o).type = "MARKET"
  /\ \/ v.orders[o].status \in Working /\ Quote(v, o) = NoQuote
     \/ /\ Tradable(v, o) /\ Fillable(v, o) = {}
        /\ Wanted(v, o).side = "BUY" /\ v.orders[o].filled = 0

\* Mutant: the fee is not charged.
CommitFillNoFee(v, o, n) ==
  LET side == Wanted(v, o).side
      price == ExecPrice(side, Raw(v, o))
  IN  [v EXCEPT !.orders[o] = AfterFill(@, n),
                !.fills = Append(@, [order |-> o, qty |-> n, price |-> price, fee |-> FeeFor(n, price)]),
                !.cash = IF side = "BUY" THEN @ - n * price ELSE @ + n * price,
                !.position[Wanted(v, o).symbol] = PositionAfter(side, @, n)]
\* The slipped price is not checked against the cash.
CommitFill(v, o, n) ==
  LET side == Wanted(v, o).side
      price == ExecPrice(side, Raw(v, o))
  IN  [v EXCEPT !.orders[o] = AfterFill(@, n),
                !.fills = Append(@, [order |-> o, qty |-> n, price |-> price, fee |-> FeeFor(n, price)]),
                !.cash = CashAfter(side, @, n, price),
                !.position[Wanted(v, o).symbol] = PositionAfter(side, @, n)]

MatchOrder(v, o) ==
  IF Tradable(v, o) /\ Fillable(v, o) # {} THEN CommitFill(v, o, Max(Fillable(v, o)))
  ELSE IF Refused(v, o) THEN [v EXCEPT !.orders[o] = AfterReject(@)]
  ELSE v

----------------------------------------------------------------------------
(* What the venue does for a call; a call is served at once *)

Used(v)   == {o \in OrderIds : v.orders[o] # NoOrder}
NextId(v) == Cardinality(Used(v)) + 1

\* Mutant: the client id is not looked up.
KnownNever(v, i) == FALSE
Known(v, i) == i \in Keyed /\ v.byClient[i] # 0

\* The order a submission is answered with.
Named(v, i) == IF Known(v, i) THEN v.byClient[i] ELSE NextId(v)

\* Without a client id one is made up, which no other submission has.
AfterSubmit(v, i) ==
  LET o     == NextId(v)
      order == [status |-> "ACCEPTED", filled |-> 0, qty |-> OrderSpec[i].qty, intent |-> i]
      named == IF i \in Keyed THEN [v.byClient EXCEPT ![i] = o] ELSE v.byClient
  IN  IF Known(v, i) THEN v
      ELSE MatchOrder([v EXCEPT !.orders[o] = order, !.byClient = named], o)

\* Mutant: a closed order is cancelled too.
CloseableAny(order) == TRUE
Closeable(order) == order.status \notin Terminal
\* The order is matched once more before its cancel is final.
AfterCancel(v, o) ==
  LET matched == MatchOrder([v EXCEPT !.orders[o] = MoveTo(@, "CANCEL_PENDING")], o)
  IN  IF ~Closeable(v.orders[o]) THEN v
      ELSE IF matched.orders[o].status = "CANCEL_PENDING"
      THEN [matched EXCEPT !.orders[o] = AfterConfirmCancel(@)]
      ELSE matched

\* apply_market, first its quotes, then the account's orders in turn.
ApplyMarket(snap) ==
  /\ todo = {}
  /\ quotes' = [s \in Symbols |-> IF s \in DOMAIN snap THEN snap[s] ELSE quotes[s]]
  /\ todo' = Used(venue)
  /\ UNCHANGED venue
MatchNext ==
  /\ todo # {}
  /\ todo' = todo \ {Min(todo)}
  /\ venue' = MatchOrder(venue, Min(todo))
  /\ UNCHANGED quotes
====
