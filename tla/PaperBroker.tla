---- MODULE PaperBroker ----
(***************************************************************************)
(* LocalPaperBroker (simulation/paper_broker.py): an OrderManager and a    *)
(* MarketBook in memory over one SQLite file.  submit_order, feed and      *)
(* settle_delayed_orders open a transaction, match orders one at a time    *)
(* and commit.  An exception in between rolls the file back and leaves     *)
(* the memory as it is; a crash loses the memory and the transaction.      *)
(*                                                                         *)
(* One iteration of the matching loop is one step: pc tells which call is  *)
(* in its transaction, todo the orders it has still to match, work the     *)
(* uncommitted file.  No other call starts before the transaction ends.    *)
(***************************************************************************)
EXTENDS OrderRules, QuoteMatching, FiniteSets, FiniteSetsExt

CONSTANTS
  Accounts,     \* account ids, numbered in order of creation
  Symbols,
  OrderIds,     \* order ids, each with a client id of its own
  OrderSpec,    \* [OrderIds -> [account, symbol, side, type, qty, limit, short]]
  EventIds,     \* event ids the data source gives its snapshots
  SettleIds,    \* event ids settle_delayed_orders makes up
  NoEvent,      \* book.event_id is None
  Snapshots,    \* snapshots: functions from some of the symbols to quotes
  MaxTime,      \* bound: snapshot times are 1..MaxTime
  WallClock,    \* datetime.now() as a submission before any quote sees it
  Latency,      \* submit delay of the latency model
  InitialCash,
  Confirm       \* the values of confirm that callers of cancel_order pass

Events == EventIds \cup SettleIds

ASSUME IdsAssumption ==
  /\ Accounts \subseteq Nat /\ OrderIds \subseteq Nat
  /\ EventIds \cap SettleIds = {} /\ NoEvent \notin Events /\ EventIds # {}
ASSUME SpecAssumption ==
  OrderSpec \in [OrderIds -> [account : Accounts, symbol : Symbols, side : {"BUY", "SELL"},
                              type : {"MARKET", "LIMIT"}, qty : Nat \ {0}, limit : Nat,
                              short : BOOLEAN]]
ASSUME MarketAssumption ==
  \A snap \in Snapshots :
    /\ DOMAIN snap \subseteq Symbols
    /\ \A s \in DOMAIN snap :
         snap[s] \in [ask : Nat, bid : Nat, last : Nat,
                      askSize : Nat \cup {NoSize}, bidSize : Nat \cup {NoSize}]
ASSUME BoundsAssumption ==
  /\ MaxTime \in Nat /\ WallClock \in Nat /\ Latency \in Nat /\ InitialCash \in Nat \ {0}
  /\ Confirm \subseteq BOOLEAN

VARIABLES
  mem,       \* orders._orders
  book,      \* the MarketBook: its event, its time, and a row per symbol
  lastTime,  \* _last_timestamp; 0 is None
  db,        \* the committed SQLite file
  work,      \* the file as the open transaction sees it; db between calls
  pc,        \* "idle", or the call whose transaction is open
  todo,      \* orders the open transaction has still to match
  cur        \* event id and time the open transaction matches at
vars == <<mem, book, lastTime, db, work, pc, todo, cur>>

NoOrder == [status |-> "NONE", filled |-> 0, qty |-> 0, at |-> 0, active |-> 0]
NoQuote == [ask |-> 0, bid |-> 0, last |-> 0, askSize |-> 0, bidSize |-> 0]
NoRow   == [event |-> NoEvent, quote |-> NoQuote]
NoCur   == [event |-> NoEvent, time |-> 0]

\* The tables.  events maps an event id to its time, 0 when it is not stored.
\* A fill's quoted is the event that brought the quote it traded against (a
\* history field).
EmptyFile ==
  [orders   |-> [o \in OrderIds |-> NoOrder],
   fills    |-> {},
   cash     |-> [a \in Accounts |-> InitialCash],
   position |-> [a \in Accounts |-> [s \in Symbols |-> 0]],
   events   |-> [e \in Events |-> 0],
   rows     |-> [s \in Symbols |-> NoRow]]

EmptyBook == [event |-> NoEvent, time |-> 0, rows |-> [s \in Symbols |-> NoRow]]

Init ==
  /\ mem = EmptyFile.orders /\ book = EmptyBook /\ lastTime = 0
  /\ db = EmptyFile /\ work = EmptyFile
  /\ pc = "idle" /\ todo = {} /\ cur = NoCur

SumQty(fills) == SumFunction([f \in fills |-> f.qty])

----------------------------------------------------------------------------
(* Transactions *)

Begin(call, file, candidates, event, time) ==
  /\ pc' = call /\ work' = file /\ todo' = candidates
  /\ cur' = [event |-> event, time |-> time]
  /\ UNCHANGED db

Close(file) ==
  /\ work' = file /\ pc' = "idle" /\ todo' = {} /\ cur' = NoCur

Commit ==
  /\ pc # "idle" /\ todo = {}
  /\ db' = work /\ Close(work)
  /\ lastTime' = IF pc = "feed" THEN cur.time ELSE lastTime
  /\ UNCHANGED <<mem, book>>

\* The exception leaves the transaction block: the file is rolled back, the
\* order manager and the market book keep what they were told.
Rollback == Close(db) /\ UNCHANGED <<mem, book, lastTime, db>>

----------------------------------------------------------------------------
(* Matching one order of the open transaction *)

\* Orders are matched account by account, then by submission time and id.
Before(o, p) ==
  LET a == OrderSpec[o].account
      b == OrderSpec[p].account
  IN  \/ a < b
      \/ a = b /\ mem[o].at < mem[p].at
      \/ a = b /\ mem[o].at = mem[p].at /\ o < p
IsNext(o) == o \in todo /\ \A p \in todo \ {o} : Before(o, p)

Quote(o) == book.rows[OrderSpec[o].symbol].quote
Raw(o)   == Touch(Quote(o), OrderSpec[o].side)
Rest(o)  == mem[o].qty - mem[o].filled
Cash(o)     == work.cash[OrderSpec[o].account]
Position(o) == work.position[OrderSpec[o].account][OrderSpec[o].symbol]

SameSide(o, p) ==
  /\ OrderSpec[o].account = OrderSpec[p].account
  /\ OrderSpec[o].symbol = OrderSpec[p].symbol
  /\ OrderSpec[o].side = OrderSpec[p].side

\* What this account already took from its side of the quote in this event.
\* Mutant: only the order's own fills count.
ConsumedByOwn(o) ==
  SumQty({f \in work.fills : f.event = cur.event /\ f.order = o})
Consumed(o) ==
  SumQty({f \in work.fills : f.event = cur.event /\ SameSide(f.order, o)})

WithinDepth(o, n) ==
  LET size == Size(Quote(o), OrderSpec[o].side)
  IN  size = NoSize \/ n + Consumed(o) <= size

\* Quantities that could trade; the largest one is proposed.
Fillable(o) ==
  {n \in 1..Rest(o) :
     /\ WithinDepth(o, n)
     /\ OrderSpec[o].side = "BUY"  => Affordable(n, Raw(o), Cash(o))
     /\ OrderSpec[o].side = "SELL" => HoldsEnough(n, OrderSpec[o], Position(o))}

\* match_order's answer: propose a fill, or propose nothing and wait, close
\* (terminal) or reject (terminal with a reason).
Answer(o) ==
  LET market == OrderSpec[o].type = "MARKET"
  IN  IF book.rows[OrderSpec[o].symbol] = NoRow THEN "wait"
      ELSE IF Raw(o) = 0 THEN IF market THEN "reject" ELSE "wait"
      ELSE IF ~Crosses(OrderSpec[o], Raw(o)) THEN "wait"
      ELSE IF \A n \in 1..Rest(o) : ~WithinDepth(o, n)
           THEN IF market THEN "close" ELSE "wait"
      ELSE IF Fillable(o) = {} THEN "reject"
      ELSE "fill"

\* The order manager and the open transaction both take the order's new record.
Put(o, order) ==
  /\ mem' = [mem EXCEPT ![o] = order]
  /\ work' = [work EXCEPT !.orders[o] = order]

Step(o) == todo' = todo \ {o} /\ UNCHANGED <<pc, cur, db, book, lastTime>>

\* A fill on a cancel-pending order is its last: the remainder is cancelled.
\* Mutant: the remainder stays pending and may fill again.
FilledKeepsPending(o, n) == AfterFill(mem[o], n)
Filled(o, n) ==
  LET updated == AfterFill(mem[o], n)
  IN  IF updated.status = "CANCEL_PENDING" THEN AfterConfirmCancel(updated) ELSE updated

\* Mutant: the account may be overdrawn.
PayableOverdrawn(o, n) == ExecPrice(OrderSpec[o].side, Raw(o)) > 0
\* The slipped price is positive and the account can pay; else apply_fill raises.
Payable(o, n) ==
  LET price == ExecPrice(OrderSpec[o].side, Raw(o))
  IN  price > 0 /\ CashAfter(OrderSpec[o].side, Cash(o), n, price) >= 0

\* The fill row must refer to a stored order, and UNIQUE(order, event) ignores
\* a second row.
Insertable(o, n) == work.orders[o] # NoOrder /\ CanFill(mem[o], n)
AlreadyFilled(o) == \E f \in work.fills : f.order = o /\ f.event = cur.event

FillRow(o, n, price) ==
  [order |-> o, event |-> cur.event, qty |-> n, price |-> price,
   fee |-> FeeFor(n, price), quoted |-> book.rows[OrderSpec[o].symbol].event]

\* Mutant: the fee is not charged to the account.
RecordFillNoFee(o, n, price) ==
  LET a == OrderSpec[o].account
      side == OrderSpec[o].side
  IN  [work EXCEPT !.orders[o] = Filled(o, n),
                   !.fills = @ \cup {FillRow(o, n, price)},
                   !.cash[a] = IF side = "BUY" THEN @ - n * price ELSE @ + n * price,
                   !.position[a][OrderSpec[o].symbol] = PositionAfter(side, @, n)]
\* Mutant: the order row is left as it was.
RecordFillAlone(o, n, price) ==
  LET a == OrderSpec[o].account
      side == OrderSpec[o].side
  IN  [work EXCEPT !.fills = @ \cup {FillRow(o, n, price)},
                   !.cash[a] = CashAfter(side, @, n, price),
                   !.position[a][OrderSpec[o].symbol] = PositionAfter(side, @, n)]
\* Fill, order, account and position rows written together.
RecordFill(o, n, price) ==
  LET a == OrderSpec[o].account
      side == OrderSpec[o].side
  IN  [work EXCEPT !.orders[o] = Filled(o, n),
                   !.fills = @ \cup {FillRow(o, n, price)},
                   !.cash[a] = CashAfter(side, @, n, price),
                   !.position[a][OrderSpec[o].symbol] = PositionAfter(side, @, n)]

MatchFill(o) ==
  /\ IsNext(o) /\ Answer(o) = "fill"
  /\ \E n \in Fillable(o) :
       /\ \A m \in Fillable(o) : m <= n
       /\ IF Payable(o, n) /\ AlreadyFilled(o)
          THEN Step(o) /\ UNCHANGED <<mem, work>>
          ELSE IF Payable(o, n) /\ Insertable(o, n)
          THEN /\ mem' = [mem EXCEPT ![o] = Filled(o, n)]
               /\ work' = RecordFill(o, n, ExecPrice(OrderSpec[o].side, Raw(o)))
               /\ Step(o)
          ELSE Rollback

\* An order that cannot trade any more is closed if it is a market order or
\* never traded; closing raises when the transition table forbids it.
MatchClose(o) ==
  /\ IsNext(o) /\ Answer(o) \in {"close", "reject"}
  /\ LET rejected == Answer(o) = "reject"
     IN  IF OrderSpec[o].type = "LIMIT" /\ mem[o].filled > 0
         THEN Step(o) /\ UNCHANGED <<mem, work>>
         ELSE IF CanClose(mem[o], rejected)
         THEN Put(o, AfterClose(mem[o], rejected)) /\ Step(o)
         ELSE Rollback

\* Mutant: a pending cancel waits for the venue.
MatchWaitPending(o) ==
  /\ IsNext(o) /\ Answer(o) = "wait"
  /\ Step(o) /\ UNCHANGED <<mem, work>>
\* Nothing to trade now: a pending cancel is confirmed, any other order rests.
MatchWait(o) ==
  /\ IsNext(o) /\ Answer(o) = "wait"
  /\ Step(o)
  /\ IF mem[o].status = "CANCEL_PENDING"
     THEN Put(o, AfterConfirmCancel(mem[o]))
     ELSE UNCHANGED <<mem, work>>

Match(o) == MatchFill(o) \/ MatchClose(o) \/ MatchWait(o)

----------------------------------------------------------------------------
(* Public methods *)

\* submit_order: the order is created in memory before the transaction opens;
\* a client id memory knows returns the order it names and changes nothing.
Submit(o) ==
  LET clock   == IF book.event = NoEvent THEN WallClock ELSE book.time
      created == [status |-> "CREATED", filled |-> 0, qty |-> OrderSpec[o].qty,
                  at |-> clock, active |-> clock + Latency]
      due     == Latency = 0
      order   == IF due THEN AfterAccept(created) ELSE created
  IN  /\ pc = "idle" /\ mem[o] = NoOrder
      /\ mem' = [mem EXCEPT ![o] = order]
      /\ Begin("submit", [db EXCEPT !.orders[o] = order],
               IF due /\ book.event # NoEvent THEN {o} ELSE {}, book.event, clock)
      /\ UNCHANGED <<book, lastTime>>

\* cancel_order: reads the order from the file, changes it in memory.
Cancel(o, confirm) ==
  LET pending == AfterRequestCancel(mem[o])
      final   == IF confirm /\ pending.status = "CANCEL_PENDING"
                 THEN AfterConfirmCancel(pending) ELSE pending
  IN  /\ pc = "idle" /\ db.orders[o] # NoOrder
      /\ mem' = [mem EXCEPT ![o] = final]
      /\ db' = [db EXCEPT !.orders[o] = final]
      /\ work' = db'
      /\ UNCHANGED <<book, lastTime, pc, todo, cur>>

\* Mutant: the activation time is not compared.
DueAlways(o, clock) == mem[o].status = "CREATED"
Due(o, clock) == mem[o].status = "CREATED" /\ clock >= mem[o].active
Activated(clock) ==
  [o \in OrderIds |-> IF Due(o, clock) THEN AfterAccept(mem[o]) ELSE mem[o]]

\* The file with the orders that memory just activated.
Stored(file, clock) ==
  [file EXCEPT !.orders =
     [o \in OrderIds |-> IF Due(o, clock) THEN Activated(clock)[o] ELSE file.orders[o]]]

\* feed() returns early for an event already stored and raises for a time
\* earlier than the last event's or the book's; neither changes anything.
Accepts(e, t) ==
  /\ db.events[e] = 0
  /\ lastTime <= t
  /\ book.event # NoEvent => book.time <= t

WorkingIn(orders) == {o \in OrderIds : orders[o].status \in Working}

\* The rows of the book or of the file with the snapshot's quotes put in; a
\* symbol it leaves out keeps its row.
Fed(rows, e, snap) ==
  [s \in Symbols |-> IF s \in DOMAIN snap THEN [event |-> e, quote |-> snap[s]] ELSE rows[s]]

\* Mutant: the snapshot replaces the whole book.
BookWithAlone(e, t, snap) ==
  [event |-> e, time |-> t, rows |-> Fed(EmptyBook.rows, e, snap)]
BookWith(e, t, snap) == [event |-> e, time |-> t, rows |-> Fed(book.rows, e, snap)]

\* feed: the event and its quotes are stored, the book takes them, due orders
\* are activated and every working order is a candidate.
Feed(e, t, snap) ==
  /\ pc = "idle" /\ Accepts(e, t)
  /\ book' = BookWith(e, t, snap)
  /\ mem' = Activated(t)
  /\ Begin("feed",
           Stored([db EXCEPT !.events[e] = t, !.rows = Fed(db.rows, e, snap)], t),
           WorkingIn(Activated(t)), e, t)
  /\ UNCHANGED lastTime

\* settle_delayed_orders: every created order is activated and all working
\* orders are matched once more against the book, under a new event id.
Settle(e) ==
  LET created == {o \in OrderIds : mem[o].status = "CREATED"}
      clocks  == {book.time} \cup {mem[o].active : o \in created}
  IN  /\ pc = "idle" /\ book.event # NoEvent /\ created # {}
      /\ db.events[e] = 0
      /\ \E clock \in clocks :
           /\ \A c \in clocks : c <= clock
           /\ mem' = Activated(clock)
           /\ Begin("settle", Stored([db EXCEPT !.events[e] = clock], clock),
                    WorkingIn(Activated(clock)), e, clock)
      /\ UNCHANGED <<book, lastTime>>

\* Mutant: the feed clock starts afresh.
RestoredTimeNone(t) == t = 0
\* _last_timestamp on opening: the latest market event of the file.
RestoredTime(t) == \A e \in Events : db.events[e] <= t

\* The process ends, in a call or between calls, and the file is opened again.
\* The book takes its event and its time from whichever quote row is read last.
Restart ==
  /\ mem' = db.orders
  /\ \E s \in Symbols :
       /\ db.rows[s] # NoRow \/ db.rows = EmptyFile.rows
       /\ book' = IF db.rows[s] = NoRow THEN EmptyBook
                  ELSE [event |-> db.rows[s].event,
                        time |-> db.events[db.rows[s].event], rows |-> db.rows]
  /\ \E t \in {0} \cup {db.events[e] : e \in Events} : RestoredTime(t) /\ lastTime' = t
  /\ Close(db) /\ UNCHANGED db

Next ==
  \/ \E o \in OrderIds : Submit(o)
  \/ \E o \in OrderIds, confirm \in Confirm : Cancel(o, confirm)
  \/ \E e \in EventIds, t \in 1..MaxTime, snap \in Snapshots : Feed(e, t, snap)
  \/ \E e \in SettleIds : Settle(e)
  \/ \E o \in OrderIds : Match(o)
  \/ Commit
  \/ Restart

Spec == Init /\ [][Next]_vars

----------------------------------------------------------------------------
Order == [status : Statuses, filled : Nat, qty : Nat \ {0}, at : Nat, active : Nat]
Fill  == [order : OrderIds, event : Events, qty : Nat \ {0}, price : Nat, fee : Nat,
          quoted : EventIds]
AQuote == [ask : Nat, bid : Nat, last : Nat,
           askSize : Nat \cup {NoSize}, bidSize : Nat \cup {NoSize}]
Rows  == [Symbols -> [event : EventIds, quote : AQuote] \cup {NoRow}]

File  == [orders : [OrderIds -> Order \cup {NoOrder}], fills : SUBSET Fill,
          cash : [Accounts -> Nat], position : [Accounts -> [Symbols -> Int]],
          events : [Events -> Nat], rows : Rows]
Book  == [event : EventIds \cup {NoEvent}, time : Nat, rows : Rows]

\* Types, and one thing that is more than a type: no account is overdrawn.
TypeOK ==
  /\ mem \in [OrderIds -> Order \cup {NoOrder}]
  /\ book \in Book
  /\ lastTime \in Nat
  /\ db \in File /\ work \in File
  /\ pc \in {"idle", "submit", "feed", "settle"}
  /\ todo \subseteq OrderIds
  /\ cur \in [event : Events \cup {NoEvent}, time : Nat]

\* What a fill row took from its account's cash and added to its position.
Paid(f) ==
  IF OrderSpec[f.order].side = "BUY" THEN f.qty * f.price + f.fee ELSE f.fee - f.qty * f.price
Gained(f) == IF OrderSpec[f.order].side = "BUY" THEN f.qty ELSE -f.qty

FillsOf(file, a) == {f \in file.fills : OrderSpec[f.order].account = a}
FillsIn(file, a, s) == {f \in FillsOf(file, a) : OrderSpec[f.order].symbol = s}

Balanced(file) ==
  \A a \in Accounts :
    /\ file.cash[a] = InitialCash - SumFunction([f \in FillsOf(file, a) |-> Paid(f)])
    /\ \A s \in Symbols :
         file.position[a][s] = SumFunction([f \in FillsIn(file, a, s) |-> Gained(f)])

\* The ledger is exactly what the fill rows say: no fill is paid twice, lost or
\* half recorded, whatever was rolled back or interrupted.
LedgerMatchesFills == Balanced(db)

\* The fill rows of an order never add up to more than its row says it traded,
\* nor that to more than was ordered: a fill that memory kept and the file lost
\* is not traded again.
RowsWithinOrder ==
  \A o \in OrderIds :
    /\ SumQty({f \in db.fills : f.order = o}) <= db.orders[o].filled
    /\ db.orders[o].filled <= db.orders[o].qty

\* Status and filled quantity of every order agree, in memory and in the file.
OrdersConsistent ==
  \A o \in OrderIds :
    /\ mem[o] # NoOrder => Consistent(mem[o])
    /\ db.orders[o] # NoOrder => Consistent(db.orders[o])

\* Between calls the order manager and the market book are what reopening the
\* file would rebuild, from order rows and fill rows that agree: as long as no
\* call has failed half-way, every order has traded exactly its fill rows.
MemoryMatchesFile ==
  pc = "idle" =>
    /\ mem = db.orders /\ book.rows = db.rows
    /\ \A o \in OrderIds : db.orders[o].filled = SumQty({f \in db.fills : f.order = o})

\* A client id that memory recognises belongs to a stored order, so a resent
\* submission is answered with an order that exists.
ResentOrderExists ==
  pc = "idle" => \A o \in OrderIds : mem[o] # NoOrder => db.orders[o] # NoOrder

\* The orders of one account never take more from one side of a quote than the
\* size it showed, however many orders, events and restarts it is used for.
QuoteDepthRespected ==
  \A o \in OrderIds :
    LET row  == db.rows[OrderSpec[o].symbol]
        size == Size(row.quote, OrderSpec[o].side)
    IN  row # NoRow /\ size # NoSize =>
          SumQty({f \in db.fills : f.quoted = row.event /\ SameSide(f.order, o)}) <= size

\* An account none of whose orders may go short never holds less than nothing.
NeverShort ==
  \A a \in Accounts :
    (\A o \in OrderIds : OrderSpec[o].account = a => ~OrderSpec[o].short)
      => \A s \in Symbols : db.position[a][s] >= 0

\* No order trades before its activation time: the market event it trades at
\* reaches that time, or a settle has reached it and activated the order. At a
\* settle it may also have been a market event (the clock of a reopened book can
\* be earlier than the last event, and the settle is stamped with it).
NoFillBeforeActive ==
  \A f \in db.fills : \E e \in Events :
    /\ db.events[e] >= db.orders[f.order].active
    /\ e = f.event \/ e \in SettleIds \/ f.event \in SettleIds

\* A limit order never trades through its limit by more than the slippage.
LimitHonoured ==
  \A f \in db.fills :
    OrderSpec[f.order].type = "LIMIT" =>
      IF OrderSpec[f.order].side = "BUY"
      THEN f.price <= OrderSpec[f.order].limit + Slip
      ELSE f.price + Slip >= OrderSpec[f.order].limit

\* A fill of an order whose cancel was requested is its last: the same commit
\* closes the order.
LateFillCloses ==
  [][\A o \in OrderIds :
       db.orders[o].status = "CANCEL_PENDING" /\ db'.orders[o].filled # db.orders[o].filled
         => db'.orders[o].status \in {"FILLED", "CANCELLED"}]_vars

\* The market event that follows a cancel request settles it.
EventSettlesCancel ==
  [][pc = "feed" /\ db' # db =>
       \A o \in OrderIds : db.orders[o].status = "CANCEL_PENDING"
                              => db'.orders[o].status \in Terminal]_vars

\* Market events are stored in time order and once, across rollbacks and
\* restarts.
EventsInOrder ==
  [][\A e \in EventIds : db'.events[e] # db.events[e] =>
       /\ db.events[e] = 0
       /\ \A d \in EventIds : db.events[d] <= db'.events[e]]_vars

\* The orders in the file keep the promise made for orders, rollbacks, crashes
\* and restarts included.
Lifecycle == INSTANCE OrderLifecycle WITH Ids <- OrderIds, orders <- db.orders
LifecycleSpec == Lifecycle!Spec
====
