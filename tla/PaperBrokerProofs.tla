---- MODULE PaperBrokerProofs ----
(***************************************************************************)
(* The broker's type correctness, the order promises that survive          *)
(* rollbacks and crashes, the event, limit and short rules, the ledger as  *)
(* the sum of its rows, and, where no call fails half-way, what memory is, *)
(* when orders trade and what settles a cancel; the depth of a quote: for  *)
(* every set of accounts, symbols, orders, events and snapshots.           *)
(***************************************************************************)
EXTENDS PaperBroker, BookLemmas

----------------------------------------------------------------------------
(* Types of what one match computes *)

\* Rounding a quotient of naturals gives a natural.
LEMMA RoundTyped ==
  ASSUME NEW a \in Nat, NEW b \in Nat \ {0}
  PROVE  RoundHalfEven(a, b) \in Nat
  BY DEF RoundHalfEven

LEMMA FeeTyped ==
  ASSUME NEW n \in Nat, NEW price \in Nat
  PROVE  FeeFor(n, price) \in Nat
<1>1. n * price * FeeNum \in Nat
  BY FeeAssumption
<1>2. FeeDen * MoneyQuantum \in Nat \ {0}
  BY FeeAssumption
<1>3. RoundHalfEven(n * price * FeeNum, FeeDen * MoneyQuantum) \in Nat
  BY <1>1, <1>2, RoundTyped
<1> QED
  BY <1>3, FeeAssumption DEF FeeFor

LEMMA OrderIsRecord == \A o \in Order : Record(o) /\ o # NoOrder
  BY DEF Order, Record, NoOrder, Statuses, Working, Terminal

LEMMA MoveTyped ==
  ASSUME NEW o \in Order, NEW s \in Statuses
  PROVE  MoveTo(o, s) \in Order
  BY DEF Order, MoveTo

LEMMA FillTyped ==
  ASSUME NEW o \in Order, NEW n \in Nat, CanFill(o, n)
  PROVE  AfterFill(o, n) \in Order
<1>1. StatusAfterFill(o, n) \in Statuses
  BY DEF StatusAfterFill, Statuses, Working, Terminal
<1>2. o.filled + n \in Nat
  BY DEF Order
<1> QED
  BY <1>1, <1>2 DEF Order, AfterFill

LEMMA FilledTyped ==
  ASSUME NEW o \in OrderIds, mem[o] \in Order, NEW n \in Nat, CanFill(mem[o], n)
  PROVE  Filled(o, n) \in Order
<1>1. AfterFill(mem[o], n) \in Order
  BY FillTyped
<1>2. AfterConfirmCancel(AfterFill(mem[o], n)) \in Order
  BY <1>1, MoveTyped DEF AfterConfirmCancel, Statuses, Terminal
<1> QED
  BY <1>1, <1>2 DEF Filled

\* A payable fill has a natural price and leaves natural cash.
LEMMA PayableTyped ==
  ASSUME TypeOK, NEW o \in OrderIds, NEW n \in Nat, Payable(o, n)
  PROVE  /\ ExecPrice(OrderSpec[o].side, Raw(o)) \in Nat
         /\ CashAfter(OrderSpec[o].side, Cash(o), n, ExecPrice(OrderSpec[o].side, Raw(o))) \in Nat
<1> DEFINE side == OrderSpec[o].side
           price == ExecPrice(side, Raw(o))
<1>1. /\ OrderSpec[o].account \in Accounts /\ OrderSpec[o].symbol \in Symbols
  BY SpecAssumption
<1>2. Raw(o) \in Nat
  <2>1. book.rows[OrderSpec[o].symbol].quote \in AQuote
    BY <1>1 DEF TypeOK, Book, Rows, NoRow, NoQuote, AQuote, NoSize
  <2> QED
    BY <2>1 DEF Raw, Quote, Touch, AQuote
<1>3. price \in Nat
  BY <1>2, SlipAssumption DEF Payable, ExecPrice
<1>4. Cash(o) \in Nat
  BY <1>1 DEF Cash, TypeOK, File
<1>5. FeeFor(n, price) \in Nat /\ n * price \in Nat
  <2> HIDE DEF price
  <2>1. FeeFor(n, price) \in Nat
    BY <1>3, FeeTyped
  <2>2. n * price \in Nat
    BY <1>3
  <2> QED
    BY <2>1, <2>2
<1>6. CashAfter(side, Cash(o), n, price) >= 0
  BY DEF Payable
<1>7. CashAfter(side, Cash(o), n, price) \in Int
  <2> HIDE DEF price
  <2> QED
    BY <1>4, <1>5 DEF CashAfter
<1> QED
  BY <1>3, <1>6, <1>7

----------------------------------------------------------------------------
(* Type correctness *)

\* An order waiting for its turn in the open transaction is a working order,
\* and there is an event to match it at; between calls nothing waits and
\* nothing is uncommitted.
Matchable ==
  /\ \A o \in todo : mem[o].status \in Working
  /\ todo # {} => cur.event \in Events
  /\ pc = "idle" => todo = {} /\ work = db

TypeInv == TypeOK /\ Matchable

LEMMA WorkingIsOrder ==
  ASSUME TypeOK, NEW o \in OrderIds, mem[o].status \in Statuses
  PROVE  mem[o] \in Order
  BY DEF TypeOK, NoOrder, Statuses, Working, Terminal

\* Activation touches created orders only and makes them working ones.
LEMMA ActivatedTyped ==
  ASSUME TypeOK, NEW clock \in Nat
  PROVE  /\ Activated(clock) \in [OrderIds -> Order \cup {NoOrder}]
         /\ \A o \in WorkingIn(Activated(clock)) : Activated(clock)[o].status \in Working
         /\ WorkingIn(Activated(clock)) \subseteq OrderIds
         /\ \A file \in File : Stored(file, clock) \in File
<1>1. ASSUME NEW o \in OrderIds, Due(o, clock)
      PROVE  AfterAccept(mem[o]) \in Order
  <2>1. mem[o] \in Order
    BY <1>1, WorkingIsOrder DEF Due, Statuses
  <2> QED
    BY <2>1, MoveTyped DEF AfterAccept, Statuses, Working
<1>2. Activated(clock) \in [OrderIds -> Order \cup {NoOrder}]
  BY <1>1 DEF Activated, TypeOK
<1>3. ASSUME NEW file \in File PROVE Stored(file, clock) \in File
  <2>1. [o \in OrderIds |-> IF Due(o, clock) THEN Activated(clock)[o] ELSE file.orders[o]]
          \in [OrderIds -> Order \cup {NoOrder}]
    BY <1>2, <1>3 DEF File
  <2> QED
    BY <1>3, <2>1 DEF Stored, File
<1> QED
  BY <1>2, <1>3 DEF WorkingIn

LEMMA FedTyped ==
  ASSUME NEW rows \in Rows, NEW e \in EventIds, NEW snap \in Snapshots
  PROVE  Fed(rows, e, snap) \in Rows
<1>1. ASSUME NEW s \in Symbols, s \in DOMAIN snap
      PROVE  [event |-> e, quote |-> snap[s]] \in [event : EventIds, quote : AQuote]
  BY <1>1, MarketAssumption DEF AQuote
<1> QED
  BY <1>1 DEF Fed, Rows

\* Putting a record of an order into the memory and the open transaction.
LEMMA PutTyped ==
  ASSUME TypeInv, NEW o \in todo, NEW order \in Order, Put(o, order), Step(o)
  PROVE  TypeInv'
<1>1. o \in OrderIds
  BY DEF TypeInv, TypeOK
<1>2. work' \in File
  BY <1>1 DEF Put, TypeInv, TypeOK, File
<1>3. mem' \in [OrderIds -> Order \cup {NoOrder}]
  BY <1>1 DEF Put, TypeInv, TypeOK
<1>4. \A p \in todo' : mem'[p] = mem[p] /\ p \in todo
  BY <1>1 DEF Put, Step, TypeInv, TypeOK
<1> QED
  BY <1>2, <1>3, <1>4 DEF Step, TypeInv, TypeOK, Matchable

\* Leaving an order as it is.
LEMMA SkipTyped ==
  ASSUME TypeInv, NEW o \in todo, Step(o), UNCHANGED <<mem, work>>
  PROVE  TypeInv'
  BY DEF TypeInv, TypeOK, Matchable, Step

LEMMA RollbackTyped ==
  ASSUME TypeInv, Rollback
  PROVE  TypeInv'
<1>1. NoCur \in [event : Events \cup {NoEvent}, time : Nat]
  BY DEF NoCur
<1> QED
  BY <1>1 DEF TypeInv, TypeOK, Matchable, Rollback, Close

LEMMA InitTyped == Init => TypeInv
<1> SUFFICES ASSUME Init PROVE TypeInv
  OBVIOUS
<1>1. EmptyFile \in File
  BY BoundsAssumption DEF EmptyFile, File, Rows
<1>2. EmptyBook \in Book
  BY DEF EmptyBook, Book, Rows
<1>3. mem \in [OrderIds -> Order \cup {NoOrder}]
  BY DEF Init, EmptyFile
<1>4. NoCur \in [event : Events \cup {NoEvent}, time : Nat]
  BY DEF NoCur
<1> QED
  BY <1>1, <1>2, <1>3, <1>4 DEF Init, TypeInv, TypeOK, Matchable

LEMMA SubmitTyped ==
  ASSUME TypeInv, NEW o \in OrderIds, Submit(o)
  PROVE  TypeInv'
<1> DEFINE clock   == IF book.event = NoEvent THEN WallClock ELSE book.time
           created == [status |-> "CREATED", filled |-> 0, qty |-> OrderSpec[o].qty,
                       at |-> clock, active |-> clock + Latency]
           order   == IF Latency = 0 THEN AfterAccept(created) ELSE created
           file    == [db EXCEPT !.orders[o] = order]
           first   == IF Latency = 0 /\ book.event # NoEvent THEN {o} ELSE {}
<1>1. clock \in Nat
  BY BoundsAssumption DEF TypeInv, TypeOK, Book
<1>2. created \in Order
  BY <1>1, BoundsAssumption, SpecAssumption DEF Order, Statuses
<1>3. order \in Order /\ (Latency = 0 => order.status \in Working)
  <2> HIDE DEF clock
  <2>1. AfterAccept(created) \in Order
    BY <1>2, MoveTyped DEF AfterAccept, Statuses, Working
  <2>2. AfterAccept(created).status = "ACCEPTED"
    BY DEF AfterAccept, MoveTo
  <2> HIDE DEF created
  <2> QED
    BY <1>2, <2>1, <2>2 DEF Working
<1> HIDE DEF order
<1>4. file \in File
  BY <1>3 DEF TypeInv, TypeOK, File
<1>5. /\ mem' = [mem EXCEPT ![o] = order]
      /\ pc' = "submit" /\ work' = file /\ todo' = first
      /\ cur' = [event |-> book.event, time |-> clock]
      /\ UNCHANGED <<db, book, lastTime>>
  BY DEF Submit, Begin, order
<1>6. cur' \in [event : Events \cup {NoEvent}, time : Nat]
  BY <1>1, <1>5 DEF TypeInv, TypeOK, Book, Events
<1>7. first # {} => cur'.event \in Events
  BY <1>5 DEF TypeInv, TypeOK, Book, Events
<1>8. \A p \in first : mem'[p].status \in Working
  BY <1>3, <1>5 DEF TypeInv, TypeOK
<1>9. TypeOK'
  BY <1>3, <1>4, <1>5, <1>6 DEF TypeInv, TypeOK
<1> QED
  BY <1>5, <1>7, <1>8, <1>9 DEF TypeInv, Matchable

LEMMA CancelRequestTyped ==
  ASSUME NEW o \in Order, NEW confirm \in BOOLEAN
  PROVE  LET pending == AfterRequestCancel(o)
             final   == IF confirm /\ pending.status = "CANCEL_PENDING"
                        THEN AfterConfirmCancel(pending) ELSE pending
         IN  pending \in Order /\ final \in Order
<1> DEFINE pending == AfterRequestCancel(o)
<1>1. pending \in Order
  BY MoveTyped DEF AfterRequestCancel, Statuses, Working, Terminal
<1>2. AfterConfirmCancel(pending) \in Order
  <2> HIDE DEF pending
  <2> QED
    BY <1>1, MoveTyped DEF AfterConfirmCancel, Statuses, Terminal
<1> QED
  BY <1>1, <1>2

LEMMA FeedTyped ==
  ASSUME TypeInv, NEW e \in EventIds, NEW t \in 1..MaxTime, NEW snap \in Snapshots,
         Feed(e, t, snap)
  PROVE  TypeInv'
<1> DEFINE file == [db EXCEPT !.events[e] = t, !.rows = Fed(db.rows, e, snap)]
<1>1. t \in Nat
  BY BoundsAssumption
<1>2. /\ Fed(db.rows, e, snap) \in Rows
      /\ Fed(book.rows, e, snap) \in Rows
  BY FedTyped DEF TypeInv, TypeOK, File, Book
<1>3. file \in File
  BY <1>1, <1>2 DEF TypeInv, TypeOK, File, Events
<1>4. Stored(file, t) \in File
  BY <1>1, <1>3, ActivatedTyped DEF TypeInv
<1>5. BookWith(e, t, snap) \in Book
  BY <1>1, <1>2 DEF BookWith, Book
<1>6. cur' \in [event : Events \cup {NoEvent}, time : Nat] /\ cur'.event \in Events
  BY <1>1 DEF Feed, Begin, Events
<1>7. TypeOK'
  BY <1>1, <1>4, <1>5, <1>6, ActivatedTyped DEF Feed, Begin, TypeInv, TypeOK
<1>8. \A o \in todo' : mem'[o].status \in Working
  BY <1>1, ActivatedTyped DEF Feed, Begin, TypeInv
<1> QED
  BY <1>6, <1>7, <1>8 DEF TypeInv, Matchable, Feed, Begin

LEMMA SettleTyped ==
  ASSUME TypeInv, NEW e \in SettleIds, Settle(e)
  PROVE  TypeInv'
<1> DEFINE clocks == {book.time} \cup {mem[o].active :
                        o \in {p \in OrderIds : mem[p].status = "CREATED"}}
<1>1. PICK clock \in clocks :
        /\ mem' = Activated(clock)
        /\ Begin("settle", Stored([db EXCEPT !.events[e] = clock], clock),
                 WorkingIn(Activated(clock)), e, clock)
        /\ UNCHANGED <<book, lastTime>>
  BY DEF Settle
<1>2. clock \in Nat
  <2>1. \A p \in OrderIds : mem[p].status = "CREATED" => mem[p].active \in Nat
    BY WorkingIsOrder DEF TypeInv, Statuses, Order
  <2> QED
    BY <2>1 DEF TypeInv, TypeOK, Book
<1> HIDE DEF clocks
<1>3. [db EXCEPT !.events[e] = clock] \in File
  BY <1>2 DEF TypeInv, TypeOK, File, Events
<1>4. Stored([db EXCEPT !.events[e] = clock], clock) \in File
  BY <1>2, <1>3, ActivatedTyped DEF TypeInv
<1>5. cur' \in [event : Events \cup {NoEvent}, time : Nat] /\ cur'.event \in Events
  BY <1>1, <1>2 DEF Begin, Events
<1>6. TypeOK'
  BY <1>1, <1>2, <1>4, <1>5, ActivatedTyped DEF Begin, TypeInv, TypeOK
<1>7. \A o \in todo' : mem'[o].status \in Working
  BY <1>1, <1>2, ActivatedTyped DEF Begin, TypeInv
<1> QED
  BY <1>1, <1>5, <1>6, <1>7 DEF TypeInv, Matchable, Begin

\* A proposed fill is for a symbol with a quote and for a natural number of
\* units.
LEMMA FillAnswer ==
  ASSUME TypeInv, NEW o \in OrderIds, Answer(o) = "fill", NEW n \in Fillable(o)
  PROVE  /\ book.rows[OrderSpec[o].symbol].event \in EventIds
         /\ Crosses(OrderSpec[o], Raw(o))
<1>1. book.rows[OrderSpec[o].symbol] # NoRow /\ Crosses(OrderSpec[o], Raw(o))
  BY DEF Answer
<1> QED
  BY <1>1, SpecAssumption DEF TypeInv, TypeOK, Book, Rows

LEMMA RestIsNat ==
  ASSUME TypeInv, NEW o \in todo
  PROVE  /\ o \in OrderIds /\ mem[o] \in Order
         /\ \A n \in Fillable(o) : n \in Nat \ {0}
<1>1. o \in OrderIds
  BY DEF TypeInv, TypeOK
<1>2. mem[o] \in Order
  BY <1>1, WorkingIsOrder DEF TypeInv, Matchable, Statuses
<1> QED
  BY <1>1, <1>2 DEF Fillable

LEMMA RecordFillTyped ==
  ASSUME TypeInv, NEW o \in todo, Answer(o) = "fill", NEW n \in Fillable(o),
         Payable(o, n), Insertable(o, n)
  PROVE  RecordFill(o, n, ExecPrice(OrderSpec[o].side, Raw(o))) \in File
<1> DEFINE price == ExecPrice(OrderSpec[o].side, Raw(o))
           a     == OrderSpec[o].account
           s     == OrderSpec[o].symbol
           side  == OrderSpec[o].side
<1>1. o \in OrderIds /\ mem[o] \in Order /\ n \in Nat \ {0}
  BY RestIsNat
<1>2. a \in Accounts /\ s \in Symbols
  BY <1>1, SpecAssumption
<1>3. Filled(o, n) \in Order
  BY <1>1, FilledTyped DEF Insertable
<1>4. price \in Nat /\ CashAfter(side, work.cash[a], n, price) \in Nat
  BY <1>1, PayableTyped DEF TypeInv, Cash
<1>5. FeeFor(n, price) \in Nat
  <2> HIDE DEF price
  <2> QED
    BY <1>1, <1>4, FeeTyped
<1>6. PositionAfter(side, work.position[a][s], n) \in Int
  <2>1. work.position[a][s] \in Int
    BY <1>2 DEF TypeInv, TypeOK, File
  <2> QED
    BY <1>1, <2>1 DEF PositionAfter
<1>7. cur.event \in Events /\ book.rows[s].event \in EventIds
  BY <1>1, FillAnswer DEF TypeInv, Matchable
<1>8. FillRow(o, n, price) \in Fill
  <2> HIDE DEF price
  <2> QED
    BY <1>1, <1>4, <1>5, <1>7 DEF FillRow, Fill
<1> DEFINE cash == CashAfter(side, work.cash[a], n, price)
           pos  == PositionAfter(side, work.position[a][s], n)
<1>9. RecordFill(o, n, price)
        = [work EXCEPT !.orders[o] = Filled(o, n), !.fills = @ \cup {FillRow(o, n, price)},
                       !.cash[a] = cash, !.position[a][s] = pos]
  BY DEF RecordFill
<1> HIDE DEF price, a, s, side, cash, pos
<1>10. cash \in Nat /\ pos \in Int
  BY <1>4, <1>6 DEF cash, pos
<1>11. [work.orders EXCEPT ![o] = Filled(o, n)] \in [OrderIds -> Order \cup {NoOrder}]
  BY <1>1, <1>3 DEF TypeInv, TypeOK, File
<1>12. work.fills \cup {FillRow(o, n, price)} \in SUBSET Fill
  BY <1>8 DEF TypeInv, TypeOK, File, price
<1>13. [work.cash EXCEPT ![a] = cash] \in [Accounts -> Nat]
  BY <1>2, <1>10 DEF TypeInv, TypeOK, File
<1>14. [work.position EXCEPT ![a][s] = pos] \in [Accounts -> [Symbols -> Int]]
  <2>1. work.position \in [Accounts -> [Symbols -> Int]]
    BY DEF TypeInv, TypeOK, File
  <2>2. [work.position[a] EXCEPT ![s] = pos] \in [Symbols -> Int]
    BY <1>2, <1>10, <2>1
  <2> QED
    BY <1>2, <2>1, <2>2
<1>15. work \in File
  BY DEF TypeInv, TypeOK
<1> QED
  BY <1>9, <1>11, <1>12, <1>13, <1>14, <1>15 DEF File, price

LEMMA MatchFillTyped ==
  ASSUME TypeInv, NEW o \in OrderIds, MatchFill(o)
  PROVE  TypeInv'
<1>1. o \in todo /\ Answer(o) = "fill"
  BY DEF MatchFill, IsNext
<1>2. PICK n \in Fillable(o) :
        IF Payable(o, n) /\ AlreadyFilled(o)
        THEN Step(o) /\ UNCHANGED <<mem, work>>
        ELSE IF Payable(o, n) /\ Insertable(o, n)
        THEN /\ mem' = [mem EXCEPT ![o] = Filled(o, n)]
             /\ work' = RecordFill(o, n, ExecPrice(OrderSpec[o].side, Raw(o)))
             /\ Step(o)
        ELSE Rollback
  BY DEF MatchFill
<1>3. CASE Payable(o, n) /\ AlreadyFilled(o)
  BY <1>1, <1>2, <1>3, SkipTyped
<1>4. CASE /\ Payable(o, n) /\ ~AlreadyFilled(o) /\ Insertable(o, n)
  <2>1. work' \in File
    BY <1>1, <1>2, <1>4, RecordFillTyped
  <2>2. Filled(o, n) \in Order
    BY <1>1, <1>4, RestIsNat, FilledTyped DEF Insertable
  <2>3. mem' = [mem EXCEPT ![o] = Filled(o, n)] /\ Step(o)
    BY <1>2, <1>4
  <2>4. mem' \in [OrderIds -> Order \cup {NoOrder}]
    BY <2>2, <2>3 DEF TypeInv, TypeOK
  <2>5. \A p \in todo' : mem'[p] = mem[p] /\ p \in todo
    BY <2>3 DEF Step, TypeInv, TypeOK
  <2> QED
    BY <1>1, <2>1, <2>3, <2>4, <2>5 DEF Step, TypeInv, TypeOK, Matchable
<1>5. CASE ~Payable(o, n) \/ (~AlreadyFilled(o) /\ ~Insertable(o, n))
  BY <1>2, <1>5, RollbackTyped
<1> QED
  BY <1>3, <1>4, <1>5

LEMMA MatchCloseTyped ==
  ASSUME TypeInv, NEW o \in OrderIds, MatchClose(o)
  PROVE  TypeInv'
<1>1. o \in todo
  BY DEF MatchClose, IsNext
<1>2. \A rejected \in BOOLEAN : AfterClose(mem[o], rejected) \in Order
  BY <1>1, RestIsNat, MoveTyped DEF AfterClose, AfterReject, AfterConfirmCancel, Statuses, Terminal
<1>3. \/ Step(o) /\ UNCHANGED <<mem, work>>
      \/ \E rejected \in BOOLEAN : Put(o, AfterClose(mem[o], rejected)) /\ Step(o)
      \/ Rollback
  BY DEF MatchClose
<1> QED
  BY <1>1, <1>2, <1>3, SkipTyped, PutTyped, RollbackTyped

LEMMA MatchWaitTyped ==
  ASSUME TypeInv, NEW o \in OrderIds, MatchWait(o)
  PROVE  TypeInv'
<1>1. o \in todo
  BY DEF MatchWait, IsNext
<1>2. AfterConfirmCancel(mem[o]) \in Order
  BY <1>1, RestIsNat, MoveTyped DEF AfterConfirmCancel, Statuses, Terminal
<1> QED
  BY <1>1, <1>2, SkipTyped, PutTyped DEF MatchWait

LEMMA RestartTyped ==
  ASSUME TypeInv, Restart
  PROVE  TypeInv'
<1>1. book' \in Book
  <2>1. PICK s \in Symbols :
          book' = IF db.rows[s] = NoRow THEN EmptyBook
                  ELSE [event |-> db.rows[s].event,
                        time |-> db.events[db.rows[s].event], rows |-> db.rows]
    BY DEF Restart
  <2>2. EmptyBook \in Book
    BY DEF EmptyBook, Book, Rows
  <2>3. CASE db.rows[s] # NoRow
    <3>1. db.rows[s].event \in EventIds /\ db.rows \in Rows
      BY <2>3 DEF TypeInv, TypeOK, File, Rows
    <3>2. db.events[db.rows[s].event] \in Nat
      BY <3>1 DEF TypeInv, TypeOK, File, Events
    <3> QED
      BY <2>1, <2>3, <3>1, <3>2 DEF Book
  <2> QED
    BY <2>1, <2>2, <2>3
<1>2. lastTime' \in Nat
  BY DEF Restart, TypeInv, TypeOK, File
<1>3. NoCur \in [event : Events \cup {NoEvent}, time : Nat]
  BY DEF NoCur
<1>4. db' = db /\ work' = db /\ mem' = db.orders /\ pc' = "idle" /\ todo' = {} /\ cur' = NoCur
  BY DEF Restart, Close
<1> QED
  BY <1>1, <1>2, <1>3, <1>4 DEF TypeInv, TypeOK, Matchable, File

LEMMA CommitTyped ==
  ASSUME TypeInv, Commit
  PROVE  TypeInv'
<1>1. NoCur \in [event : Events \cup {NoEvent}, time : Nat]
  BY DEF NoCur
<1>2. lastTime' \in Nat
  BY DEF Commit, TypeInv, TypeOK
<1> QED
  BY <1>1, <1>2 DEF Commit, Close, TypeInv, TypeOK, Matchable

\* Orders in the file are in memory too (shown below), so a cancel finds one.
LEMMA CancelTyped ==
  ASSUME TypeInv, NEW o \in OrderIds, NEW confirm \in Confirm, Cancel(o, confirm),
         mem[o] # NoOrder
  PROVE  TypeInv'
<1> DEFINE pending == AfterRequestCancel(mem[o])
           final   == IF confirm /\ pending.status = "CANCEL_PENDING"
                      THEN AfterConfirmCancel(pending) ELSE pending
<1>1. final \in Order
  BY BoundsAssumption, CancelRequestTyped DEF TypeInv, TypeOK
<1>2. /\ mem' = [mem EXCEPT ![o] = final] /\ db' = [db EXCEPT !.orders[o] = final]
      /\ work' = db' /\ pc = "idle"
      /\ UNCHANGED <<book, lastTime, pc, todo, cur>>
  BY DEF Cancel
<1> HIDE DEF final
<1>3. db' \in File
  BY <1>1, <1>2 DEF TypeInv, TypeOK, File
<1>4. TypeOK'
  BY <1>1, <1>2, <1>3 DEF TypeInv, TypeOK
<1> QED
  BY <1>2, <1>4 DEF TypeInv, Matchable

----------------------------------------------------------------------------
(* The file never knows more of an order than memory does *)

\* b is a or a later record of the same order; if a was waiting for its cancel
\* and b has traded since, then b is closed.
Ahead(a, b) ==
  \/ a = b
  \/ /\ b # NoOrder
     /\ \/ a = NoOrder
        \/ /\ Onward(a, b)
           /\ a.status = "CANCEL_PENDING" /\ b.filled # a.filled
                => b.status \in {"FILLED", "CANCELLED"}

Sound(o) == o # NoOrder => Consistent(o)

\* The inductive invariant: committed, uncommitted and remembered records of an
\* order are stages of one life in this order.  A rollback or a crash goes back
\* along the chain in the transaction or in memory, never in the file.
OrdersInv ==
  \A o \in OrderIds :
    /\ Sound(db.orders[o]) /\ Sound(work.orders[o]) /\ Sound(mem[o])
    /\ Ahead(db.orders[o], work.orders[o])
    /\ Ahead(work.orders[o], mem[o])

LEMMA AheadTransitive ==
  ASSUME NEW a \in Order \cup {NoOrder}, NEW b \in Order \cup {NoOrder},
         NEW c \in Order \cup {NoOrder}, Ahead(a, b), Ahead(b, c),
         Sound(a), Sound(b), Sound(c)
  PROVE  Ahead(a, c)
<1>1. CASE a = b \/ b = c \/ a = NoOrder
  BY <1>1 DEF Ahead
<1>2. CASE a # b /\ b # c /\ a # NoOrder
  <2>1. /\ Onward(a, b) /\ Onward(b, c) /\ b # NoOrder /\ c # NoOrder
        /\ a \in Order /\ b \in Order /\ c \in Order
    BY <1>2, OrderIsRecord DEF Ahead
  <2>2. Onward(a, c)
    BY <2>1, OnwardTransitive, OrderIsRecord
  <2>3. ASSUME a.status = "CANCEL_PENDING", c.filled # a.filled
        PROVE  c.status \in {"FILLED", "CANCELLED"}
    <3>1. CASE b.filled = a.filled
      <4>1. b.status \in {"CANCEL_PENDING", "FILLED", "CANCELLED"}
        BY <2>1, <2>3 DEF Onward, Later
      <4>2. b.status = "CANCEL_PENDING"
        BY <2>1, <2>3, <3>1, <4>1 DEF Onward, Terminal
      <4> QED
        BY <1>2, <2>1, <2>3, <3>1, <4>2 DEF Ahead
    <3>2. CASE b.filled # a.filled
      <4>1. b.status \in {"FILLED", "CANCELLED"}
        BY <1>2, <2>3, <3>2 DEF Ahead
      <4> QED
        BY <2>1, <4>1 DEF Onward, Later
    <3> QED
      BY <3>1, <3>2
  <2> QED
    BY <2>1, <2>2, <2>3 DEF Ahead
<1> QED
  BY <1>1, <1>2

\* Every call the broker makes on an order leaves it ahead of what it was.
LEMMA MoveAhead ==
  ASSUME NEW o \in Order, Consistent(o),
         NEW s \in {"ACCEPTED", "REJECTED", "CANCEL_PENDING", "CANCELLED", "EXPIRED"},
         CanMove(o.status, s) \/ o.status = s
  PROVE  Ahead(o, MoveTo(o, s)) /\ Consistent(MoveTo(o, s))
<1>0. Record(o)
  BY OrderIsRecord
<1>1. CASE CanMove(o.status, s)
  <2>1. s \in Statuses
    BY DEF Statuses, Working, Terminal
  <2>2. Onward(o, MoveTo(o, s))
    BY <1>0, <1>1, MoveOnward
  <2>3. MoveTo(o, s).filled = o.filled /\ MoveTo(o, s) \in Order
    BY <1>0, <2>1, MoveKeeps, MoveTyped
  <2> QED
    BY <2>2, <2>3, OrderIsRecord DEF Ahead, Onward
<1>2. CASE o.status = s
  <2>1. MoveTo(o, s) = o
    BY <1>2 DEF MoveTo, Order
  <2> QED
    BY <2>1 DEF Ahead
<1> QED
  BY <1>1, <1>2

LEMMA FilledAhead ==
  ASSUME NEW o \in OrderIds, mem[o] \in Order, Consistent(mem[o]),
         NEW n \in Nat \ {0}, CanFill(mem[o], n)
  PROVE  Ahead(mem[o], Filled(o, n)) /\ Consistent(Filled(o, n))
<1> DEFINE a == mem[o]
           b == AfterFill(a, n)
           c == AfterConfirmCancel(b)
<1>1. /\ b \in Order /\ Onward(a, b) /\ Consistent(b) /\ Record(a) /\ Record(b)
  BY FillTyped, FillOnward, OrderIsRecord DEF Onward
<1>2. CASE b.status # "CANCEL_PENDING"
  <2>1. a.status = "CANCEL_PENDING" => b.status = "FILLED"
    BY <1>1, <1>2 DEF Onward, Later, AfterFill, StatusAfterFill, Order
  <2> QED
    BY <1>1, <1>2, <2>1, OrderIsRecord DEF Filled, Ahead
<1>3. CASE b.status = "CANCEL_PENDING"
  <2>1. CanMove(b.status, "CANCELLED")
    BY <1>3 DEF CanMove, Allowed
  <2>2. Onward(b, c) /\ Record(c) /\ c \in Order /\ c.status = "CANCELLED"
    <3> HIDE DEF b
    <3> QED
      BY <1>1, <2>1, MoveOnward, MoveKeeps, MoveTyped
      DEF AfterConfirmCancel, Statuses, Terminal
  <2>3. Onward(a, c)
    BY <1>1, <2>2, OnwardTransitive
  <2>4. Filled(o, n) = c
    BY <1>3 DEF Filled
  <2> HIDE DEF a, b, c
  <2> QED
    BY <2>2, <2>3, <2>4, OrderIsRecord DEF Ahead, Onward, a
<1> QED
  BY <1>2, <1>3

LEMMA CloseAhead ==
  ASSUME NEW o \in Order, Consistent(o), NEW rejected \in BOOLEAN, CanClose(o, rejected)
  PROVE  /\ AfterClose(o, rejected) \in Order
         /\ Ahead(o, AfterClose(o, rejected)) /\ Consistent(AfterClose(o, rejected))
<1>1. PICK s \in {"REJECTED", "CANCELLED"} :
        /\ AfterClose(o, rejected) = MoveTo(o, s)
        /\ CanMove(o.status, s) \/ o.status = s
  BY DEF CanClose, CanReject, CanConfirmCancel, AfterClose, AfterReject, AfterConfirmCancel
<1> QED
  BY <1>1, MoveAhead, MoveTyped DEF Statuses, Terminal

LEMMA CancelAhead ==
  ASSUME NEW o \in Order, Consistent(o), NEW confirm \in BOOLEAN
  PROVE  LET pending == AfterRequestCancel(o)
             final   == IF confirm /\ pending.status = "CANCEL_PENDING"
                        THEN AfterConfirmCancel(pending) ELSE pending
         IN  Ahead(o, final) /\ Consistent(final)
<1> DEFINE pending == AfterRequestCancel(o)
<1>1. /\ pending \in Order /\ Ahead(o, pending) /\ Consistent(pending)
  <2>1. \/ pending = o
        \/ \E s \in {"CANCELLED", "CANCEL_PENDING"} :
             pending = MoveTo(o, s) /\ CanMove(o.status, s)
    BY DEF Order, AfterRequestCancel, CanMove, Allowed, Statuses, Working, Terminal
  <2> HIDE DEF pending
  <2> QED
    BY <2>1, MoveAhead, MoveTyped DEF Ahead, Statuses, Working, Terminal
<1>2. CASE pending.status = "CANCEL_PENDING"
  <2> HIDE DEF pending
  <2>1. CanMove(pending.status, "CANCELLED")
    BY <1>2 DEF CanMove, Allowed
  <2>2. /\ AfterConfirmCancel(pending) \in Order
        /\ Ahead(pending, AfterConfirmCancel(pending))
        /\ Consistent(AfterConfirmCancel(pending))
    BY <1>1, <2>1, MoveAhead, MoveTyped DEF AfterConfirmCancel, Statuses, Terminal
  <2>3. Ahead(o, AfterConfirmCancel(pending))
    BY <1>1, <2>2, AheadTransitive DEF Sound
  <2> QED
    BY <1>1, <2>2, <2>3 DEF pending
<1> QED
  BY <1>1, <1>2

\* One order's record replaced, in memory and in the open transaction, by a
\* later one.
LEMMA PutAhead ==
  ASSUME TypeInv, OrdersInv, NEW o \in OrderIds, NEW order \in Order,
         Ahead(mem[o], order), Consistent(order),
         mem' = [mem EXCEPT ![o] = order],
         work'.orders = [work.orders EXCEPT ![o] = order], UNCHANGED db
  PROVE  OrdersInv'
<1>1. \A p \in OrderIds : p # o => mem'[p] = mem[p] /\ work'.orders[p] = work.orders[p]
  BY DEF TypeInv, TypeOK, File
<1>2. mem'[o] = order /\ work'.orders[o] = order
  BY DEF TypeInv, TypeOK, File
<1>3. Ahead(db.orders[o], order)
  <2>1. /\ db.orders[o] \in Order \cup {NoOrder} /\ work.orders[o] \in Order \cup {NoOrder}
        /\ mem[o] \in Order \cup {NoOrder}
    BY DEF TypeInv, TypeOK, File
  <2>2. Ahead(db.orders[o], mem[o])
    BY <2>1, AheadTransitive DEF OrdersInv
  <2> QED
    BY <2>1, <2>2, AheadTransitive DEF OrdersInv, Sound
<1>4. Ahead(order, order)
  BY DEF Ahead
<1> QED
  BY <1>1, <1>2, <1>3, <1>4 DEF OrdersInv, Sound

\* Memory and file may always fall back to the committed file, and what is in
\* memory is ahead of it.
LEMMA FileBehind ==
  ASSUME TypeInv, OrdersInv, NEW o \in OrderIds
  PROVE  Ahead(db.orders[o], mem[o])
<1>1. /\ db.orders[o] \in Order \cup {NoOrder} /\ work.orders[o] \in Order \cup {NoOrder}
      /\ mem[o] \in Order \cup {NoOrder}
  BY DEF TypeInv, TypeOK, File
<1> QED
  BY <1>1, AheadTransitive DEF OrdersInv

LEMMA RollbackAhead ==
  ASSUME TypeInv, OrdersInv, Rollback
  PROVE  OrdersInv'
  BY FileBehind DEF OrdersInv, Rollback, Close, Ahead

LEMMA SkipAhead ==
  ASSUME TypeInv, OrdersInv, NEW o, Step(o), UNCHANGED <<mem, work>>
  PROVE  OrdersInv'
  BY DEF OrdersInv, Step

LEMMA SubmitAhead ==
  ASSUME TypeInv, OrdersInv, NEW o \in OrderIds, Submit(o)
  PROVE  OrdersInv'
<1> DEFINE clock   == IF book.event = NoEvent THEN WallClock ELSE book.time
           created == [status |-> "CREATED", filled |-> 0, qty |-> OrderSpec[o].qty,
                       at |-> clock, active |-> clock + Latency]
           order   == IF Latency = 0 THEN AfterAccept(created) ELSE created
<1>1. created \in Order /\ Consistent(created)
  <2>1. clock \in Nat
    BY BoundsAssumption DEF TypeInv, TypeOK, Book
  <2>2. clock + Latency \in Nat
    BY <2>1, BoundsAssumption
  <2> QED
    BY <2>1, <2>2, SpecAssumption DEF Order, Statuses, Consistent
<1>2. order \in Order /\ Consistent(order)
  <2>1. CanMove(created.status, "ACCEPTED")
    BY DEF CanMove, Allowed
  <2> HIDE DEF created
  <2> QED
    BY <1>1, <2>1, MoveAhead, MoveTyped DEF AfterAccept, Statuses, Working
<1>3. mem[o] = NoOrder /\ mem' = [mem EXCEPT ![o] = order]
      /\ work' = [db EXCEPT !.orders[o] = order] /\ db' = db /\ work = db
  BY DEF Submit, Begin, TypeInv, Matchable
<1>4. work'.orders = [work.orders EXCEPT ![o] = order]
  BY <1>3 DEF TypeInv, TypeOK, File
<1> HIDE DEF order
<1>5. Ahead(mem[o], order)
  BY <1>2, <1>3, OrderIsRecord DEF Ahead
<1> QED
  BY <1>2, <1>3, <1>4, <1>5, PutAhead

LEMMA CancelKeeps ==
  ASSUME TypeInv, OrdersInv, NEW o \in OrderIds, NEW confirm \in Confirm, Cancel(o, confirm)
  PROVE  /\ mem[o] # NoOrder
         /\ OrdersInv'
         /\ \A p \in OrderIds : Ahead(db.orders[p], db'.orders[p])
<1> DEFINE pending == AfterRequestCancel(mem[o])
           final   == IF confirm /\ pending.status = "CANCEL_PENDING"
                      THEN AfterConfirmCancel(pending) ELSE pending
<1>1. mem[o] # NoOrder
  <2>1. Ahead(db.orders[o], mem[o]) /\ db.orders[o] # NoOrder
    BY FileBehind DEF Cancel
  <2> QED
    BY <2>1 DEF Ahead
<1>2. mem[o] \in Order /\ Consistent(mem[o]) /\ confirm \in BOOLEAN
  BY <1>1, BoundsAssumption DEF TypeInv, TypeOK, OrdersInv, Sound
<1>3. final \in Order /\ Ahead(mem[o], final) /\ Consistent(final)
  BY <1>2, CancelRequestTyped, CancelAhead
<1>4. /\ mem' = [mem EXCEPT ![o] = final] /\ db' = [db EXCEPT !.orders[o] = final]
      /\ work' = db' /\ work = db
  BY DEF Cancel, TypeInv, Matchable
<1> HIDE DEF final
<1>5. /\ db'.orders[o] = final /\ mem'[o] = final
      /\ \A p \in OrderIds : p # o => db'.orders[p] = db.orders[p] /\ mem'[p] = mem[p]
  BY <1>4 DEF TypeInv, TypeOK, File
<1>6. Ahead(db.orders[o], final)
  <2>1. db.orders[o] \in Order \cup {NoOrder}
    BY DEF TypeInv, TypeOK, File
  <2> QED
    BY <1>2, <1>3, <2>1, FileBehind, AheadTransitive DEF OrdersInv, Sound
<1>7. OrdersInv'
  BY <1>3, <1>4, <1>5 DEF OrdersInv, Sound, Ahead
<1>8. \A p \in OrderIds : Ahead(db.orders[p], db'.orders[p])
  BY <1>5, <1>6 DEF Ahead
<1> QED
  BY <1>1, <1>7, <1>8

\* Activation of due orders, in feed and in settle.
LEMMA ActivateAhead ==
  ASSUME TypeInv, OrdersInv, NEW clock \in Nat, work = db, NEW file, file.orders = db.orders,
         mem' = Activated(clock), work'.orders = Stored(file, clock).orders,
         file \in File, UNCHANGED db
  PROVE  OrdersInv'
<1> SUFFICES ASSUME NEW o \in OrderIds
             PROVE  /\ Sound(db.orders[o]) /\ Sound(work'.orders[o]) /\ Sound(mem'[o])
                    /\ Ahead(db.orders[o], work'.orders[o])
                    /\ Ahead(work'.orders[o], mem'[o])
  BY DEF OrdersInv
<1>1. /\ mem'[o] = IF Due(o, clock) THEN AfterAccept(mem[o]) ELSE mem[o]
      /\ work'.orders[o] = IF Due(o, clock) THEN AfterAccept(mem[o]) ELSE db.orders[o]
  BY DEF Activated, Stored, File
<1>2. Ahead(db.orders[o], mem[o]) /\ Sound(db.orders[o]) /\ Sound(mem[o])
  BY FileBehind DEF OrdersInv
<1>3. CASE ~Due(o, clock)
  BY <1>1, <1>2, <1>3 DEF Ahead
<1>4. CASE Due(o, clock)
  <2>1. mem[o] \in Order /\ Consistent(mem[o]) /\ CanMove(mem[o].status, "ACCEPTED")
    BY <1>2, <1>4, WorkingIsOrder, OrderIsRecord
    DEF Due, TypeInv, Sound, Statuses, CanMove, Allowed
  <2>2. /\ AfterAccept(mem[o]) \in Order /\ Consistent(AfterAccept(mem[o]))
        /\ Ahead(mem[o], AfterAccept(mem[o]))
    BY <2>1, MoveAhead, MoveTyped DEF AfterAccept, Statuses, Working
  <2>3. db.orders[o] \in Order \cup {NoOrder}
    BY DEF TypeInv, TypeOK, File
  <2>4. Ahead(db.orders[o], AfterAccept(mem[o]))
    BY <1>2, <2>1, <2>2, <2>3, AheadTransitive DEF Sound
  <2> QED
    BY <1>1, <1>2, <1>4, <2>2, <2>4 DEF Sound, Ahead
<1> QED
  BY <1>3, <1>4

LEMMA FeedAhead ==
  ASSUME TypeInv, OrdersInv, NEW e \in EventIds, NEW t \in 1..MaxTime, NEW snap \in Snapshots,
         Feed(e, t, snap)
  PROVE  OrdersInv'
<1> DEFINE file == [db EXCEPT !.events[e] = t, !.rows = Fed(db.rows, e, snap)]
<1>1. t \in Nat
  BY BoundsAssumption
<1>2. Fed(db.rows, e, snap) \in Rows
  BY FedTyped DEF TypeInv, TypeOK, File
<1>3. file \in File /\ file.orders = db.orders
  BY <1>1, <1>2 DEF TypeInv, TypeOK, File, Events
<1>4. work = db /\ UNCHANGED db /\ mem' = Activated(t) /\ work' = Stored(file, t)
  BY DEF Feed, Begin, TypeInv, Matchable
<1> HIDE DEF file
<1> QED
  BY <1>1, <1>3, <1>4, ActivateAhead

LEMMA SettleAhead ==
  ASSUME TypeInv, OrdersInv, NEW e \in SettleIds, Settle(e)
  PROVE  OrdersInv'
<1> DEFINE clocks == {book.time} \cup {mem[o].active :
                        o \in {p \in OrderIds : mem[p].status = "CREATED"}}
<1>1. PICK clock \in clocks :
        /\ mem' = Activated(clock)
        /\ Begin("settle", Stored([db EXCEPT !.events[e] = clock], clock),
                 WorkingIn(Activated(clock)), e, clock)
  BY DEF Settle
<1>2. clock \in Nat
  <2>1. \A p \in OrderIds : mem[p].status = "CREATED" => mem[p].active \in Nat
    BY WorkingIsOrder DEF TypeInv, Statuses, Order
  <2> QED
    BY <2>1 DEF TypeInv, TypeOK, Book
<1> HIDE DEF clocks
<1> DEFINE file == [db EXCEPT !.events[e] = clock]
<1>3. file \in File /\ file.orders = db.orders
  BY <1>2 DEF TypeInv, TypeOK, File, Events
<1>4. work = db /\ UNCHANGED db /\ mem' = Activated(clock) /\ work' = Stored(file, clock)
  BY <1>1 DEF Settle, Begin, TypeInv, Matchable
<1> HIDE DEF file
<1> QED
  BY <1>2, <1>3, <1>4, ActivateAhead

LEMMA MatchFillAhead ==
  ASSUME TypeInv, OrdersInv, NEW o \in OrderIds, MatchFill(o)
  PROVE  OrdersInv'
<1>1. o \in todo /\ mem[o] \in Order /\ Consistent(mem[o])
  BY RestIsNat, OrderIsRecord DEF MatchFill, IsNext, OrdersInv, Sound
<1>2. PICK n \in Fillable(o) :
        \/ Step(o) /\ UNCHANGED <<mem, work>>
        \/ /\ Insertable(o, n)
           /\ mem' = [mem EXCEPT ![o] = Filled(o, n)]
           /\ work' = RecordFill(o, n, ExecPrice(OrderSpec[o].side, Raw(o)))
           /\ Step(o)
        \/ Rollback
  BY DEF MatchFill
<1>3. n \in Nat \ {0}
  BY <1>1, RestIsNat
<1>4. CASE Step(o) /\ UNCHANGED <<mem, work>>
  BY <1>4, SkipAhead
<1>5. CASE Rollback
  BY <1>5, RollbackAhead
<1>6. CASE /\ Insertable(o, n)
           /\ mem' = [mem EXCEPT ![o] = Filled(o, n)]
           /\ work' = RecordFill(o, n, ExecPrice(OrderSpec[o].side, Raw(o)))
           /\ Step(o)
  <2>1. /\ Filled(o, n) \in Order /\ Ahead(mem[o], Filled(o, n))
        /\ Consistent(Filled(o, n))
    BY <1>1, <1>3, <1>6, FilledTyped, FilledAhead DEF Insertable
  <2>2. work'.orders = [work.orders EXCEPT ![o] = Filled(o, n)]
    BY <1>6 DEF RecordFill, TypeInv, TypeOK, File
  <2> QED
    BY <1>6, <2>1, <2>2, PutAhead DEF Step
<1> QED
  BY <1>2, <1>4, <1>5, <1>6

LEMMA MatchCloseAhead ==
  ASSUME TypeInv, OrdersInv, NEW o \in OrderIds, MatchClose(o)
  PROVE  OrdersInv'
<1>1. mem[o] \in Order /\ Consistent(mem[o])
  BY RestIsNat, OrderIsRecord DEF MatchClose, IsNext, OrdersInv, Sound
<1>2. \/ Step(o) /\ UNCHANGED <<mem, work>>
      \/ \E rejected \in BOOLEAN :
           /\ CanClose(mem[o], rejected)
           /\ Put(o, AfterClose(mem[o], rejected)) /\ Step(o)
      \/ Rollback
  BY DEF MatchClose
<1>3. ASSUME NEW rejected \in BOOLEAN, CanClose(mem[o], rejected),
             Put(o, AfterClose(mem[o], rejected)), Step(o)
      PROVE  OrdersInv'
  <2>1. /\ AfterClose(mem[o], rejected) \in Order
        /\ Ahead(mem[o], AfterClose(mem[o], rejected))
        /\ Consistent(AfterClose(mem[o], rejected))
    BY <1>1, <1>3, CloseAhead
  <2>2. work'.orders = [work.orders EXCEPT ![o] = AfterClose(mem[o], rejected)]
    BY <1>3 DEF Put, TypeInv, TypeOK, File
  <2> QED
    BY <1>3, <2>1, <2>2, PutAhead DEF Put, Step
<1> QED
  BY <1>2, <1>3, SkipAhead, RollbackAhead

LEMMA MatchWaitAhead ==
  ASSUME TypeInv, OrdersInv, NEW o \in OrderIds, MatchWait(o)
  PROVE  OrdersInv'
<1>1. mem[o] \in Order /\ Consistent(mem[o]) /\ Step(o)
  BY RestIsNat, OrderIsRecord DEF MatchWait, IsNext, OrdersInv, Sound
<1>2. CASE mem[o].status = "CANCEL_PENDING"
  <2>1. CanMove(mem[o].status, "CANCELLED")
    BY <1>2 DEF CanMove, Allowed
  <2>2. /\ AfterConfirmCancel(mem[o]) \in Order
        /\ Ahead(mem[o], AfterConfirmCancel(mem[o]))
        /\ Consistent(AfterConfirmCancel(mem[o]))
    BY <1>1, <2>1, MoveAhead, MoveTyped DEF AfterConfirmCancel, Statuses, Terminal
  <2>3. Put(o, AfterConfirmCancel(mem[o]))
    BY <1>2 DEF MatchWait
  <2>4. work'.orders = [work.orders EXCEPT ![o] = AfterConfirmCancel(mem[o])]
    BY <2>3 DEF Put, TypeInv, TypeOK, File
  <2> QED
    BY <1>1, <2>2, <2>3, <2>4, PutAhead DEF Put, Step
<1>3. CASE mem[o].status # "CANCEL_PENDING"
  BY <1>1, <1>3, SkipAhead DEF MatchWait
<1> QED
  BY <1>2, <1>3

LEMMA CommitAhead ==
  ASSUME TypeInv, OrdersInv, Commit
  PROVE  OrdersInv' /\ \A p \in OrderIds : Ahead(db.orders[p], db'.orders[p])
  BY DEF OrdersInv, Commit, Close, Ahead

LEMMA RestartAhead ==
  ASSUME TypeInv, OrdersInv, Restart
  PROVE  OrdersInv'
  BY DEF OrdersInv, Restart, Close, Ahead

----------------------------------------------------------------------------
(* The invariant holds and every committed step is one of Ahead *)

Inv == TypeInv /\ OrdersInv
FileAhead == \A p \in OrderIds : Ahead(db.orders[p], db'.orders[p])

LEMMA InitInv == Init => Inv
  BY InitTyped DEF Init, EmptyFile, Inv, OrdersInv, Sound, Ahead

LEMMA MatchInv ==
  ASSUME Inv, NEW o \in OrderIds, Match(o)
  PROVE  Inv' /\ FileAhead
<1>1. UNCHANGED db
  BY DEF Match, MatchFill, MatchClose, MatchWait, Step, Rollback
<1>2. FileAhead
  BY <1>1 DEF FileAhead, Ahead
<1>3. Inv'
  BY MatchFillTyped, MatchCloseTyped, MatchWaitTyped, MatchFillAhead, MatchCloseAhead,
     MatchWaitAhead DEF Match, Inv
<1> QED
  BY <1>2, <1>3

LEMMA StepInv ==
  ASSUME Inv, [Next]_vars
  PROVE  Inv' /\ FileAhead
<1>0. ASSUME UNCHANGED db PROVE FileAhead
  BY <1>0 DEF FileAhead, Ahead
<1>1. ASSUME NEW o \in OrderIds, Submit(o) PROVE Inv' /\ FileAhead
  BY <1>0, <1>1, SubmitTyped, SubmitAhead DEF Inv, Submit, Begin
<1>2. ASSUME NEW o \in OrderIds, NEW confirm \in Confirm, Cancel(o, confirm)
      PROVE  Inv' /\ FileAhead
  BY <1>2, CancelTyped, CancelKeeps DEF Inv, FileAhead
<1>3. ASSUME NEW e \in EventIds, NEW t \in 1..MaxTime, NEW snap \in Snapshots, Feed(e, t, snap)
      PROVE  Inv' /\ FileAhead
  BY <1>0, <1>3, FeedTyped, FeedAhead DEF Inv, Feed, Begin
<1>4. ASSUME NEW e \in SettleIds, Settle(e) PROVE Inv' /\ FileAhead
  BY <1>0, <1>4, SettleTyped, SettleAhead DEF Inv, Settle, Begin
<1>5. ASSUME NEW o \in OrderIds, Match(o) PROVE Inv' /\ FileAhead
  BY <1>5, MatchInv
<1>6. CASE Commit
  BY <1>6, CommitTyped, CommitAhead DEF Inv, FileAhead
<1>7. CASE Restart
  BY <1>0, <1>7, RestartTyped, RestartAhead DEF Inv, Restart
<1>8. CASE UNCHANGED vars
  BY <1>0, <1>8 DEF vars, Inv, TypeInv, TypeOK, Matchable, OrdersInv
<1> QED
  BY <1>1, <1>2, <1>3, <1>4, <1>5, <1>6, <1>7, <1>8 DEF Next

LEMMA InvHolds == Spec => []Inv
<1>1. Inv /\ [Next]_vars => Inv'
  BY StepInv
<1> QED
  BY <1>1, InitInv, PTL DEF Spec

\* The state has the types declared for it, and in particular no account is
\* ever overdrawn: apply_fill raises before a negative balance is stored.
THEOREM TypeCorrect == Spec => []TypeOK
<1>1. Inv => TypeOK
  BY DEF Inv, TypeInv
<1> QED
  BY <1>1, InvHolds, PTL

\* Status and filled quantity of every order agree in memory and in the file,
\* whatever was rolled back, interrupted or reopened.
THEOREM Consistency == Spec => []OrdersConsistent
<1>1. Inv => OrdersConsistent
  BY DEF Inv, OrdersInv, Sound, OrdersConsistent
<1> QED
  BY <1>1, InvHolds, PTL

\* A fill of an order whose cancel was requested closes it in the same commit
\* (the branch after the fill is written in _match_account).
THEOREM LateFills == Spec => LateFillCloses
<1>1. FileAhead => \A o \in OrderIds :
        db.orders[o].status = "CANCEL_PENDING" /\ db'.orders[o].filled # db.orders[o].filled
          => db'.orders[o].status \in {"FILLED", "CANCELLED"}
  BY DEF FileAhead, Ahead, NoOrder
<1>2. Inv /\ [Next]_vars =>
        [\A o \in OrderIds :
           db.orders[o].status = "CANCEL_PENDING" /\ db'.orders[o].filled # db.orders[o].filled
             => db'.orders[o].status \in {"FILLED", "CANCELLED"}]_vars
  BY <1>1, StepInv
<1> QED
  BY <1>2, InvHolds, PTL DEF Spec, LateFillCloses

\* The instance's promise is the one stated in OrderRules.
LEMMA ForwardMeans ==
  ASSUME NEW a, NEW b
  PROVE  Lifecycle!Forward(a, b) <=>
           /\ b # NoOrder
           /\ b.status \in Statuses
           /\ IF a = NoOrder THEN Consistent(b) ELSE Onward(a, b)
  BY DEF Lifecycle!Forward, Lifecycle!Onward, Lifecycle!Consistent, Lifecycle!Later,
         Lifecycle!Statuses, Lifecycle!Working, Lifecycle!Terminal,
         Onward, Consistent, Later, Statuses, Working, Terminal

\* The file of the broker implements the order lifecycle: what a client reads
\* of an order only ever moves forward, across rollbacks, crashes and restarts.
THEOREM ImplementsLifecycle == Spec => LifecycleSpec
<1>1. Init => Lifecycle!Init
  BY DEF Init, EmptyFile, Lifecycle!Init
<1>2. ASSUME Inv, [Next]_vars PROVE [Lifecycle!Next]_(db.orders)
  <2> SUFFICES ASSUME NEW o \in OrderIds
               PROVE  db'.orders[o] = db.orders[o]
                        \/ Lifecycle!Forward(db.orders[o], db'.orders[o])
    BY DEF Lifecycle!Next
  <2>1. Inv' /\ Ahead(db.orders[o], db'.orders[o])
    BY <1>2, StepInv DEF FileAhead
  <2>2. db'.orders[o] # NoOrder => Consistent(db'.orders[o]) /\ db'.orders[o].status \in Statuses
    BY <2>1 DEF Inv, TypeInv, TypeOK, File, Order, OrdersInv, Sound
  <2>3. CASE db'.orders[o] # db.orders[o]
    BY <2>1, <2>2, <2>3, ForwardMeans DEF Ahead
  <2> QED
    BY <2>3
<1> QED
  BY <1>1, <1>2, InvHolds, PTL DEF Spec, LifecycleSpec, Lifecycle!Spec

----------------------------------------------------------------------------
(* The rows a step writes *)

\* f has the fills, the cash and the positions of g, and orders that have traded
\* no less.
SameRows(f, g) ==
  /\ f.fills = g.fills /\ f.cash = g.cash /\ f.position = g.position
  /\ \A o \in OrderIds : g.orders[o].filled <= f.orders[o].filled

\* The only step that writes a fill is MatchFill, into the open transaction.
Fills(o, n) ==
  /\ Answer(o) = "fill" /\ Payable(o, n) /\ ~AlreadyFilled(o) /\ Insertable(o, n)
  /\ work' = RecordFill(o, n, ExecPrice(OrderSpec[o].side, Raw(o)))

LEMMA AheadFilled ==
  ASSUME NEW a \in Order \cup {NoOrder}, NEW b \in Order \cup {NoOrder}, Ahead(a, b)
  PROVE  a.filled <= b.filled /\ a.filled \in Nat /\ b.filled \in Nat
  BY DEF Ahead, Onward, Order, NoOrder

LEMMA TradedNoLess ==
  ASSUME Inv, NEW o \in OrderIds
  PROVE  /\ db.orders[o].filled <= work.orders[o].filled
         /\ work.orders[o].filled <= mem[o].filled
         /\ db.orders[o].filled \in Nat /\ work.orders[o].filled \in Nat /\ mem[o].filled \in Nat
<1>1. /\ db.orders[o] \in Order \cup {NoOrder} /\ work.orders[o] \in Order \cup {NoOrder}
      /\ mem[o] \in Order \cup {NoOrder}
  BY DEF Inv, TypeInv, TypeOK, File
<1>2. Ahead(db.orders[o], work.orders[o]) /\ Ahead(work.orders[o], mem[o])
  BY DEF Inv, OrdersInv
<1> QED
  BY <1>1, <1>2, AheadFilled

LEMMA SameIsSame ==
  ASSUME NEW f \in File
  PROVE  SameRows(f, f)
<1>1. \A o \in OrderIds : f.orders[o].filled \in Nat
  BY DEF File, Order, NoOrder
<1> QED
  BY <1>1 DEF SameRows

LEMMA MatchWrites ==
  ASSUME Inv, NEW o \in OrderIds, Match(o)
  PROVE  \/ Rollback
         \/ /\ Step(o) /\ o \in todo
            /\ work'.events = work.events
            /\ SameRows(work', work) \/ \E n \in Fillable(o) : Fills(o, n)
<1>1. work \in File
  BY DEF Inv, TypeInv, TypeOK
<1>2. CASE MatchFill(o)
  <2>1. PICK n \in Fillable(o) :
          \/ Step(o) /\ UNCHANGED <<mem, work>>
          \/ Fills(o, n) /\ Step(o)
          \/ Rollback
    BY <1>2 DEF MatchFill, Fills
  <2>2. Fills(o, n) => work'.events = work.events
    BY <1>1 DEF Fills, RecordFill, File
  <2> QED
    BY <1>1, <1>2, <2>1, <2>2, SameIsSame DEF MatchFill, IsNext
<1>3. ASSUME NEW order, order.filled = mem[o].filled, Put(o, order)
      PROVE  work'.events = work.events /\ SameRows(work', work)
  <2>1. /\ work'.events = work.events /\ work'.fills = work.fills
        /\ work'.cash = work.cash /\ work'.position = work.position
        /\ work'.orders = [work.orders EXCEPT ![o] = order]
        /\ DOMAIN work.orders = OrderIds
    BY <1>1, <1>3 DEF Put, File
  <2>2. \A p \in OrderIds : work.orders[p].filled <= work'.orders[p].filled
    BY <1>3, <2>1, TradedNoLess
  <2> QED
    BY <2>1, <2>2 DEF SameRows
<1>4. CASE MatchClose(o)
  <2>1. \A rejected : AfterClose(mem[o], rejected).filled = mem[o].filled
    BY DEF AfterClose, AfterReject, AfterConfirmCancel, MoveTo, Inv, TypeInv, TypeOK, Order, NoOrder
  <2> QED
    BY <1>1, <1>3, <1>4, <2>1, SameIsSame DEF MatchClose, IsNext
<1>5. CASE MatchWait(o)
  <2>1. AfterConfirmCancel(mem[o]).filled = mem[o].filled
    BY DEF AfterConfirmCancel, MoveTo, Inv, TypeInv, TypeOK, Order, NoOrder
  <2> QED
    BY <1>1, <1>3, <1>5, <2>1, SameIsSame DEF MatchWait, IsNext
<1> QED
  BY <1>2, <1>4, <1>5 DEF Match

\* Calls begin with the file as it is; only orders move.
LEMMA BeginWrites ==
  ASSUME Inv, [Next]_vars, work'.fills = db.fills, work'.cash = db.cash,
         work'.position = db.position, db'.fills = db.fills, db'.cash = db.cash,
         db'.position = db.position
  PROVE  SameRows(db', db) /\ SameRows(work', db)
<1> SUFFICES ASSUME NEW o \in OrderIds
             PROVE  /\ db.orders[o].filled <= db'.orders[o].filled
                    /\ db.orders[o].filled <= work'.orders[o].filled
  BY DEF SameRows
<1>1. Ahead(db.orders[o], db'.orders[o]) /\ Ahead(db'.orders[o], work'.orders[o])
  BY StepInv DEF FileAhead, Inv, OrdersInv
<1>2. /\ db.orders[o] \in Order \cup {NoOrder} /\ db'.orders[o] \in Order \cup {NoOrder}
      /\ work'.orders[o] \in Order \cup {NoOrder}
  <2>1. Inv'
    BY StepInv
  <2> QED
    BY <2>1 DEF Inv, TypeInv, TypeOK, File
<1> QED
  <2>1. db.orders[o].filled <= db'.orders[o].filled /\ db.orders[o].filled \in Nat
    BY <1>1, <1>2, AheadFilled
  <2>2. db'.orders[o].filled <= work'.orders[o].filled /\ db'.orders[o].filled \in Nat
        /\ work'.orders[o].filled \in Nat
    BY <1>1, <1>2, AheadFilled
  <2> QED
    BY <2>1, <2>2

LEMMA StepWrites ==
  ASSUME Inv, [Next]_vars
  PROVE  /\ SameRows(db', db) \/ SameRows(db', work)
         /\ \/ SameRows(work', db) \/ SameRows(work', work)
            \/ \E o \in todo : \E n \in Fillable(o) : Fills(o, n)
<1>0. db \in File /\ work \in File /\ SameRows(db, db) /\ SameRows(work, work)
  BY SameIsSame DEF Inv, TypeInv, TypeOK
<1>1. ASSUME NEW o \in OrderIds, Submit(o) PROVE SameRows(db', db) /\ SameRows(work', db)
  BY <1>0, <1>1, BeginWrites DEF Submit, Begin, File
<1>2. ASSUME NEW o \in OrderIds, NEW confirm \in Confirm, Cancel(o, confirm)
      PROVE  SameRows(db', db) /\ SameRows(work', db)
  BY <1>0, <1>2, BeginWrites DEF Cancel, File
<1>3. ASSUME NEW e \in EventIds, NEW t \in 1..MaxTime, NEW snap \in Snapshots, Feed(e, t, snap)
      PROVE  SameRows(db', db) /\ SameRows(work', db)
  BY <1>0, <1>3, BeginWrites DEF Feed, Begin, Stored, File
<1>4. ASSUME NEW e \in SettleIds, Settle(e) PROVE SameRows(db', db) /\ SameRows(work', db)
  BY <1>0, <1>4, BeginWrites DEF Settle, Begin, Stored, File
<1>5. ASSUME NEW o \in OrderIds, Match(o)
      PROVE  /\ SameRows(db', db)
             /\ \/ SameRows(work', db) \/ SameRows(work', work)
                \/ \E p \in todo : \E n \in Fillable(p) : Fills(p, n)
  <2>1. db' = db /\ (Rollback => work' = db)
    BY <1>5, MatchWrites DEF Rollback, Close, Step
  <2> QED
    BY <1>0, <1>5, <2>1, MatchWrites
<1>6. CASE Commit
  BY <1>0, <1>6 DEF Commit, Close
<1>7. CASE Restart
  BY <1>0, <1>7 DEF Restart, Close
<1>8. CASE UNCHANGED vars
  BY <1>0, <1>8 DEF vars
<1> QED
  BY <1>1, <1>2, <1>3, <1>4, <1>5, <1>6, <1>7, <1>8 DEF Next

----------------------------------------------------------------------------
(* What a fill row and a position can be *)

WithinLimit(f) ==
  OrderSpec[f.order].type = "LIMIT" =>
    IF OrderSpec[f.order].side = "BUY"
    THEN f.price <= OrderSpec[f.order].limit + Slip
    ELSE f.price + Slip >= OrderSpec[f.order].limit

LongOnly(a) == \A o \in OrderIds : OrderSpec[o].account = a => ~OrderSpec[o].short

RowRules(file) ==
  /\ \A f \in file.fills : WithinLimit(f)
  /\ \A a \in Accounts : LongOnly(a) => \A s \in Symbols : file.position[a][s] >= 0

RulesInv == RowRules(db) /\ RowRules(work)

LEMMA FillRules ==
  ASSUME Inv, RowRules(work), NEW o \in todo, NEW n \in Fillable(o), Fills(o, n)
  PROVE  RowRules(work')
<1> DEFINE price == ExecPrice(OrderSpec[o].side, Raw(o))
           a     == OrderSpec[o].account
           s     == OrderSpec[o].symbol
           side  == OrderSpec[o].side
<1>1. o \in OrderIds /\ n \in Nat \ {0} /\ a \in Accounts /\ s \in Symbols /\ side \in {"BUY", "SELL"}
  BY RestIsNat, SpecAssumption DEF Inv
<1>2. Crosses(OrderSpec[o], Raw(o)) /\ book.rows[s].event \in EventIds
  BY <1>1, FillAnswer DEF Fills, Inv
<1>3. Raw(o) \in Nat /\ OrderSpec[o].limit \in Nat
  <2>1. book.rows[s].quote \in AQuote
    BY <1>1 DEF Inv, TypeInv, TypeOK, Book, Rows, NoRow, NoQuote, AQuote, NoSize
  <2> QED
    BY <1>1, <2>1, SpecAssumption DEF Raw, Quote, Touch, AQuote
<1>4. WithinLimit(FillRow(o, n, price))
  BY <1>1, <1>2, <1>3, SlipAssumption, SpecAssumption DEF WithinLimit, FillRow, ExecPrice, Crosses
<1>5. work'.fills = work.fills \cup {FillRow(o, n, price)}
  BY DEF Fills, RecordFill, Inv, TypeInv, TypeOK, File
<1>6. work.position \in [Accounts -> [Symbols -> Int]]
  BY DEF Inv, TypeInv, TypeOK, File
<1>7. work'.position = [work.position EXCEPT ![a][s] = PositionAfter(side, @, n)]
  BY DEF Fills, RecordFill, Inv, TypeInv, TypeOK, File
<1> HIDE DEF price
<1>8. ASSUME NEW b \in Accounts, LongOnly(b), NEW r \in Symbols
      PROVE  work'.position[b][r] >= 0
  <2>1. work.position[b][r] >= 0 /\ work.position[b][r] \in Int
    BY <1>6, <1>8 DEF RowRules
  <2>2. CASE b = a /\ r = s
    <3>1. work'.position[b][r] = PositionAfter(side, work.position[a][s], n)
      BY <1>1, <1>6, <1>7, <2>2
    <3>2. side = "SELL" => n <= work.position[a][s]
      BY <1>1, <1>8, <2>2 DEF Fillable, HoldsEnough, LongOnly, Position
    <3> QED
      BY <1>1, <2>1, <2>2, <3>1, <3>2 DEF PositionAfter
  <2>3. CASE ~(b = a /\ r = s)
    BY <1>1, <1>6, <1>7, <2>1, <2>3
  <2> QED
    BY <2>2, <2>3
<1> QED
  BY <1>4, <1>5, <1>8 DEF RowRules

LEMMA RulesHold == Spec => []RulesInv
<1>1. Init => RulesInv
  BY DEF Init, EmptyFile, RulesInv, RowRules
<1>2. ASSUME Inv, RulesInv, [Next]_vars PROVE RulesInv'
  <2>1. ASSUME NEW f, NEW g, SameRows(f, g), RowRules(g) PROVE RowRules(f)
    BY <2>1 DEF SameRows, RowRules
  <2>2. RowRules(db')
    BY <1>2, <2>1, StepWrites DEF RulesInv
  <2>3. RowRules(work')
    BY <1>2, <2>1, StepWrites, FillRules DEF RulesInv
  <2> QED
    BY <2>2, <2>3 DEF RulesInv, RowRules, LongOnly, WithinLimit
<1> QED
  BY <1>1, <1>2, InvHolds, PTL DEF Spec

\* No limit order trades through its limit by more than the slippage, however
\* long it rested and however often the broker was restarted.
THEOREM LimitsHonoured == Spec => []LimitHonoured
<1>1. RulesInv => LimitHonoured
  BY DEF RulesInv, RowRules, WithinLimit, LimitHonoured
<1> QED
  BY <1>1, RulesHold, PTL

\* Accounts that may not go short never do: not by two sells of the same units
\* in one event, and not across rollbacks.
THEOREM NoShorts == Spec => []NeverShort
<1>1. RulesInv => NeverShort
  BY DEF RulesInv, RowRules, LongOnly, NeverShort
<1> QED
  BY <1>1, RulesHold, PTL

----------------------------------------------------------------------------
(* The ledger *)

LEMMA FillsTyped ==
  ASSUME NEW file \in File, NEW f \in file.fills
  PROVE  /\ Paid(f) \in Int /\ Gained(f) \in Int /\ f.qty \in Nat \ {0}
         /\ f.order \in OrderIds
<1>1. f \in Fill
  BY DEF File
<1>2. f.qty \in Nat \ {0} /\ f.price \in Nat /\ f.fee \in Nat /\ f.order \in OrderIds
  BY <1>1 DEF Fill
<1>3. f.qty * f.price \in Nat
  BY <1>2
<1> QED
  BY <1>2, <1>3 DEF Paid, Gained

\* What one fill does to the open transaction, table by table.
LEMMA FillWrites ==
  ASSUME Inv, NEW o \in todo, NEW n \in Fillable(o), Fills(o, n)
  PROVE  LET a   == OrderSpec[o].account
             s   == OrderSpec[o].symbol
             row == FillRow(o, n, ExecPrice(OrderSpec[o].side, Raw(o)))
         IN  /\ o \in OrderIds /\ n \in Nat \ {0} /\ a \in Accounts /\ s \in Symbols
             /\ row \notin work.fills /\ row.order = o /\ row.qty = n
             /\ work' \in File /\ work'.fills = work.fills \cup {row}
             /\ Paid(row) \in Int /\ Gained(row) \in Int
             /\ work'.cash = [work.cash EXCEPT ![a] = @ - Paid(row)]
             /\ work'.position = [work.position EXCEPT ![a][s] = @ + Gained(row)]
             /\ work'.orders = [work.orders EXCEPT ![o] = Filled(o, n)]
<1> DEFINE a     == OrderSpec[o].account
           s     == OrderSpec[o].symbol
           side  == OrderSpec[o].side
           price == ExecPrice(side, Raw(o))
           row   == FillRow(o, n, price)
<1>1. o \in OrderIds /\ n \in Nat \ {0} /\ a \in Accounts /\ s \in Symbols
  BY RestIsNat, SpecAssumption DEF Inv
<1>2. work' \in File
  BY RecordFillTyped DEF Inv, Fills
<1>3. work \in File
  BY DEF Inv, TypeInv, TypeOK
<1>4. /\ work'.fills = work.fills \cup {row}
      /\ work'.orders = [work.orders EXCEPT ![o] = Filled(o, n)]
      /\ work'.cash = [work.cash EXCEPT ![a] = CashAfter(side, @, n, price)]
      /\ work'.position = [work.position EXCEPT ![a][s] = PositionAfter(side, @, n)]
  BY <1>3 DEF Fills, RecordFill, File
<1>5. price \in Nat /\ FeeFor(n, price) \in Nat
  <2>1. price \in Nat
    BY <1>1, PayableTyped DEF Fills, Inv, TypeInv
  <2> HIDE DEF price
  <2> QED
    BY <1>1, <2>1, FeeTyped
<1> HIDE DEF price
<1>6. /\ row.order = o /\ row.event = cur.event /\ row.qty = n /\ row.price = price
      /\ row.fee = FeeFor(n, price)
  BY DEF FillRow
<1>7. row \notin work.fills
  BY <1>6 DEF Fills, AlreadyFilled
<1>8. n * price \in Nat
  BY <1>1, <1>5
<1> HIDE DEF row
<1>9. Paid(row) \in Int /\ Gained(row) \in Int
  BY <1>1, <1>5, <1>6, <1>8 DEF Paid, Gained
<1>10. \A c \in Int : CashAfter(side, c, n, price) = c - Paid(row)
  BY <1>5, <1>6, <1>8 DEF CashAfter, Paid
<1>11. \A c \in Int : PositionAfter(side, c, n) = c + Gained(row)
  BY <1>1, <1>6 DEF PositionAfter, Gained
<1>12. work'.cash = [work.cash EXCEPT ![a] = @ - Paid(row)]
  <2>1. work.cash[a] \in Int
    BY <1>1, <1>3 DEF File
  <2> QED
    BY <1>4, <1>10, <2>1
<1>13. work'.position = [work.position EXCEPT ![a][s] = @ + Gained(row)]
  <2>1. work.position[a][s] \in Int
    BY <1>1, <1>3 DEF File
  <2> QED
    BY <1>4, <1>11, <2>1
<1> QED
  BY <1>1, <1>2, <1>4, <1>6, <1>7, <1>9, <1>12, <1>13 DEF row, price

\* One more row among the rows that satisfy a condition, or none.
LEMMA RowsGrow ==
  ASSUME NEW file \in File, IsFiniteSet(file.fills), NEW row, row \notin file.fills,
         NEW S \in SUBSET file.fills, NEW T, T = S \cup {row},
         NEW f, NEW g, f = [r \in S |-> f[r]], g = [r \in T |-> g[r]],
         \A r \in S : f[r] \in Int /\ g[r] = f[r], g[row] \in Int
  PROVE  SumFunction(g) = SumFunction(f) + g[row]
<1>1. IsFiniteSet(S) /\ row \notin S /\ DOMAIN f = S /\ DOMAIN g = S \cup {row}
  BY FS_Subset
<1> QED
  BY <1>1, WholeGrows

\* The quantities of some rows, and of these and one more.
LEMMA QtyGrows ==
  ASSUME NEW file \in File, IsFiniteSet(file.fills), NEW row, row \notin file.fills,
         row.qty \in Int, NEW S \in SUBSET file.fills
  PROVE  SumQty(S) \in Int /\ SumQty(S \cup {row}) = SumQty(S) + row.qty
<1> DEFINE T == S \cup {row}
           f == [r \in S |-> r.qty]
           g == [r \in T |-> r.qty]
<1>1. \A r \in S : f[r] \in Int /\ g[r] = f[r]
  BY FillsTyped
<1>2. g[row] = row.qty /\ g[row] \in Int
  OBVIOUS
<1>3. f = [r \in S |-> f[r]] /\ g = [r \in T |-> g[r]]
  OBVIOUS
<1>4. SumQty(S) = SumFunction(f) /\ SumQty(T) = SumFunction(g)
  BY DEF SumQty
<1>5. T = S \cup {row}
  OBVIOUS
<1> HIDE DEF T, f, g
<1>6. DOMAIN f = S /\ DOMAIN g = S \cup {row} /\ IsFiniteSet(S) /\ row \notin S
  BY <1>3, <1>5, FS_Subset
<1>7. SumFunction(g) = SumFunction(f) + g[row]
  BY <1>1, <1>2, <1>6, WholeGrows
<1>8. SumFunction(f) \in Int
  BY <1>1, <1>6, SumInt DEF SumFunction
<1> QED
  BY <1>2, <1>4, <1>5, <1>7, <1>8

LEMMA FillBalances ==
  ASSUME Inv, IsFiniteSet(work.fills), Balanced(work),
         NEW o \in todo, NEW n \in Fillable(o), Fills(o, n)
  PROVE  Balanced(work') /\ IsFiniteSet(work'.fills)
<1> DEFINE a   == OrderSpec[o].account
           s   == OrderSpec[o].symbol
           row == FillRow(o, n, ExecPrice(OrderSpec[o].side, Raw(o)))
<1>1. /\ o \in OrderIds /\ n \in Nat \ {0} /\ a \in Accounts /\ s \in Symbols
      /\ row \notin work.fills /\ row.order = o
      /\ work' \in File /\ work'.fills = work.fills \cup {row}
      /\ Paid(row) \in Int /\ Gained(row) \in Int
      /\ work'.cash = [work.cash EXCEPT ![a] = @ - Paid(row)]
      /\ work'.position = [work.position EXCEPT ![a][s] = @ + Gained(row)]
  BY FillWrites
<1>2. work \in File
  BY DEF Inv, TypeInv, TypeOK
<1> HIDE DEF a, s, row
<1>3. IsFiniteSet(work'.fills)
  BY <1>1, FS_AddElement
<1>4. ASSUME NEW b \in Accounts
      PROVE  work'.cash[b] = InitialCash - SumFunction([f \in FillsOf(work', b) |-> Paid(f)])
  <2> DEFINE S == FillsOf(work, b)
             T == FillsOf(work', b)
             f == [r \in S |-> Paid(r)]
             g == [r \in T |-> Paid(r)]
  <2>1. work.cash[b] = InitialCash - SumFunction(f) /\ work.cash \in [Accounts -> Nat]
    BY <1>2 DEF Balanced, File
  <2>2. CASE b # a
    <3>1. T = S
      BY <1>1, <2>2 DEF FillsOf, a
    <3> QED
      BY <1>1, <2>1, <2>2, <3>1
  <2>3. CASE b = a
    <3>1. T = S \cup {row} /\ S \in SUBSET work.fills
      BY <1>1, <2>3 DEF FillsOf, a
    <3>2. \A r \in S : f[r] \in Int /\ g[r] = f[r]
      <4>1. \A r \in S : Paid(r) \in Int
        BY <1>2, <3>1, FillsTyped
      <4> QED
        BY <3>1, <4>1
    <3>3. g[row] = Paid(row)
      BY <3>1
    <3>4. f = [r \in S |-> f[r]] /\ g = [r \in T |-> g[r]]
      OBVIOUS
    <3> HIDE DEF S, T, f, g
    <3>5. SumFunction(g) = SumFunction(f) + g[row]
      <4>1. row \notin work.fills /\ g[row] \in Int
        BY <1>1, <3>3
      <4> QED
        BY <1>2, <3>1, <3>2, <3>4, <4>1, RowsGrow
    <3>6. SumFunction(f) \in Int
      <4>1. DOMAIN f = S /\ IsFiniteSet(S)
        BY <3>1, <3>4, FS_Subset
      <4> QED
        BY <3>2, <4>1, SumInt DEF SumFunction
    <3>7. work'.cash[b] = work.cash[b] - Paid(row)
      BY <1>1, <2>1, <2>3
    <3>8. work'.cash[b] = InitialCash - SumFunction(g)
      BY <1>1, <2>1, <3>3, <3>5, <3>6, <3>7, BoundsAssumption
    <3> QED
      BY <3>8 DEF g, T
  <2> QED
    BY <2>2, <2>3
<1>5. ASSUME NEW b \in Accounts, NEW c \in Symbols
      PROVE  work'.position[b][c] = SumFunction([f \in FillsIn(work', b, c) |-> Gained(f)])
  <2> DEFINE S == FillsIn(work, b, c)
             T == FillsIn(work', b, c)
             f == [r \in S |-> Gained(r)]
             g == [r \in T |-> Gained(r)]
  <2>1. work.position[b][c] = SumFunction(f) /\ work.position \in [Accounts -> [Symbols -> Int]]
    BY <1>2 DEF Balanced, File
  <2>2. CASE ~(b = a /\ c = s)
    <3>1. T = S
      BY <1>1, <2>2 DEF FillsOf, FillsIn, a, s
    <3>2. work'.position[b][c] = work.position[b][c]
      BY <1>1, <2>1, <2>2
    <3> QED
      BY <2>1, <3>1, <3>2
  <2>3. CASE b = a /\ c = s
    <3>1. T = S \cup {row} /\ S \in SUBSET work.fills
      BY <1>1, <2>3 DEF FillsOf, FillsIn, a, s
    <3>2. \A r \in S : f[r] \in Int /\ g[r] = f[r]
      BY <1>2, <3>1, FillsTyped
    <3>3. g[row] = Gained(row)
      BY <3>1
    <3>4. f = [r \in S |-> f[r]] /\ g = [r \in T |-> g[r]]
      OBVIOUS
    <3> HIDE DEF S, T, f, g
    <3>5. SumFunction(g) = SumFunction(f) + g[row]
      <4>1. row \notin work.fills /\ g[row] \in Int
        BY <1>1, <3>3
      <4> QED
        BY <1>2, <3>1, <3>2, <3>4, <4>1, RowsGrow
    <3>6. work'.position[b][c] = work.position[b][c] + Gained(row)
      BY <1>1, <2>1, <2>3
    <3>7. work'.position[b][c] = SumFunction(g)
      BY <2>1, <3>3, <3>5, <3>6
    <3> QED
      BY <3>7 DEF g, T
  <2> QED
    BY <2>2, <2>3
<1> QED
  BY <1>3, <1>4, <1>5 DEF Balanced

\* The committed and the uncommitted ledger are each the sum of its rows.
LedgerInv ==
  /\ IsFiniteSet(db.fills) /\ IsFiniteSet(work.fills)
  /\ Balanced(db) /\ Balanced(work)

LEMMA LedgerHolds == Spec => []LedgerInv
<1>1. ASSUME Init PROVE LedgerInv
  <2>1. db.fills = {} /\ work = db /\ db \in File
    BY <1>1, InitInv DEF Init, EmptyFile, Inv, TypeInv, TypeOK
  <2>2. \A a \in Accounts : FillsOf(db, a) = {} /\ \A s \in Symbols : FillsIn(db, a, s) = {}
    BY <2>1 DEF FillsOf, FillsIn
  <2>3. ASSUME NEW f, DOMAIN f = {} PROVE SumFunction(f) = 0
    BY <2>3, SumEmpty DEF SumFunction
  <2>4. \A a \in Accounts : db.cash[a] = InitialCash - 0 /\ \A s \in Symbols : db.position[a][s] = 0
    BY <1>1, BoundsAssumption DEF Init, EmptyFile
  <2>5. Balanced(db)
    BY <2>2, <2>3, <2>4 DEF Balanced
  <2> QED
    BY <2>1, <2>5, FS_EmptySet DEF LedgerInv
<1>2. ASSUME Inv, LedgerInv, [Next]_vars PROVE LedgerInv'
  <2>1. ASSUME NEW f, NEW g, SameRows(f, g), Balanced(g), IsFiniteSet(g.fills)
        PROVE  Balanced(f) /\ IsFiniteSet(f.fills)
    BY <2>1 DEF SameRows, Balanced, FillsOf, FillsIn
  <2>2. Balanced(db') /\ IsFiniteSet(db'.fills)
    BY <1>2, <2>1, StepWrites DEF LedgerInv
  <2>3. Balanced(work') /\ IsFiniteSet(work'.fills)
    BY <1>2, <2>1, StepWrites, FillBalances DEF LedgerInv
  <2> QED
    BY <2>2, <2>3 DEF LedgerInv, Balanced, FillsOf, FillsIn, Paid, Gained
<1> QED
  BY <1>1, <1>2, InvHolds, PTL DEF Spec

\* Cash and positions in the file are at every moment the initial cash and the
\* fill rows added up: fill, cash and position are written in one transaction,
\* and the unique (order, event) row keeps a fill from being paid twice.
THEOREM LedgerBalances == Spec => []LedgerMatchesFills
<1>1. LedgerInv => LedgerMatchesFills
  BY DEF LedgerInv, LedgerMatchesFills
<1> QED
  BY <1>1, LedgerHolds, PTL

\* What the rows of an order add up to, and what the order row says.
RowsOf(file, o) == {f \in file.fills : f.order = o}
Covered(file) == \A o \in OrderIds : SumQty(RowsOf(file, o)) <= file.orders[o].filled
CoveredInv == Covered(db) /\ Covered(work)

LEMMA RowsNat ==
  ASSUME NEW file \in File, IsFiniteSet(file.fills), NEW o
  PROVE  SumQty(RowsOf(file, o)) \in Nat
<1> DEFINE S == RowsOf(file, o)
           f == [r \in S |-> r.qty]
<1>1. IsFiniteSet(S) /\ \A r \in S : f[r] \in Nat
  BY FillsTyped, FS_Subset DEF RowsOf
<1>2. DOMAIN f = S
  OBVIOUS
<1> HIDE DEF S, f
<1>3. SumFunction(f) \in Nat
  BY <1>1, <1>2, SumNat DEF SumFunction
<1> QED
  BY <1>3 DEF SumQty, S, f

\* Memory is ahead of the open transaction, so what it adds to is enough.
LEMMA FillCovers ==
  ASSUME Inv, IsFiniteSet(work.fills), Covered(work),
         NEW o \in todo, NEW n \in Fillable(o), Fills(o, n)
  PROVE  Covered(work')
<1> DEFINE row == FillRow(o, n, ExecPrice(OrderSpec[o].side, Raw(o)))
<1>1. /\ o \in OrderIds /\ n \in Nat \ {0}
      /\ row \notin work.fills /\ row.order = o /\ row.qty = n
      /\ work' \in File /\ work'.fills = work.fills \cup {row}
      /\ work'.orders = [work.orders EXCEPT ![o] = Filled(o, n)]
  BY FillWrites
<1>2. work \in File
  BY DEF Inv, TypeInv, TypeOK
<1> HIDE DEF row
<1>3. Filled(o, n).filled = mem[o].filled + n
  BY RestIsNat DEF Filled, AfterFill, AfterConfirmCancel, MoveTo, Inv, Order
<1> SUFFICES ASSUME NEW p \in OrderIds
             PROVE  SumQty(RowsOf(work', p)) <= work'.orders[p].filled
  BY DEF Covered
<1>4. CASE p # o
  <2>1. RowsOf(work', p) = RowsOf(work, p)
    BY <1>1, <1>4 DEF RowsOf
  <2>2. work'.orders[p] = work.orders[p]
    BY <1>1, <1>2, <1>4 DEF File
  <2> QED
    BY <2>1, <2>2 DEF Covered
<1>5. CASE p = o
  <2> DEFINE S == RowsOf(work, o)
             T == RowsOf(work', o)
             f == [r \in S |-> r.qty]
             g == [r \in T |-> r.qty]
  <2>1. T = S \cup {row} /\ S \in SUBSET work.fills
    BY <1>1 DEF RowsOf
  <2>2. \A r \in S : f[r] \in Int /\ g[r] = f[r]
    BY <1>2, <2>1, FillsTyped
  <2>3. g[row] = n
    BY <1>1, <2>1
  <2>4. f = [r \in S |-> f[r]] /\ g = [r \in T |-> g[r]]
    OBVIOUS
  <2>5. SumQty(S) = SumFunction(f) /\ SumQty(T) = SumFunction(g)
    BY DEF SumQty
  <2>6. SumQty(S) \in Nat /\ SumQty(S) <= work.orders[o].filled
    BY <1>1, <1>2, RowsNat DEF Covered
  <2> HIDE DEF S, T, f, g
  <2>7. SumFunction(g) = SumFunction(f) + g[row]
    BY <1>1, <1>2, <2>1, <2>2, <2>3, <2>4, RowsGrow
  <2>8. work'.orders[o].filled = mem[o].filled + n
    BY <1>1, <1>2, <1>3 DEF File
  <2>9. SumQty(T) <= work'.orders[o].filled
    BY <1>1, <2>3, <2>5, <2>6, <2>7, <2>8, TradedNoLess
  <2> QED
    BY <1>5, <2>9 DEF T
<1> QED
  BY <1>4, <1>5

\* The fill rows of an order never add up to more than its row says, nor that
\* to more than was ordered: what _match_account writes is the remembered
\* quantity plus the new fill, and memory never forgets a fill of the file.
THEOREM RowsBounded == Spec => []RowsWithinOrder
<1>1. ASSUME Init PROVE CoveredInv
  <2>1. db.fills = {} /\ work = db /\ \A o \in OrderIds : db.orders[o].filled = 0
    BY <1>1 DEF Init, EmptyFile, NoOrder
  <2>2. \A o \in OrderIds : SumQty(RowsOf(db, o)) = 0
    <3>1. \A o \in OrderIds : RowsOf(db, o) = {}
      BY <2>1 DEF RowsOf
    <3>2. SumQty({}) = 0
      BY SumEmpty DEF SumQty, SumFunction
    <3> QED
      BY <3>1, <3>2
  <2> QED
    BY <2>1, <2>2 DEF CoveredInv, Covered
<1>2. ASSUME Inv, LedgerInv, CoveredInv, [Next]_vars PROVE CoveredInv'
  <2>1. db' \in File /\ work' \in File /\ db \in File /\ work \in File
    BY <1>2, StepInv DEF Inv, TypeInv, TypeOK
  <2>2. ASSUME NEW f \in File, NEW g \in File, SameRows(f, g), Covered(g),
               IsFiniteSet(g.fills)
        PROVE  Covered(f)
    <3> SUFFICES ASSUME NEW o \in OrderIds PROVE SumQty(RowsOf(f, o)) <= f.orders[o].filled
      BY DEF Covered
    <3>1. RowsOf(f, o) = RowsOf(g, o) /\ g.orders[o].filled <= f.orders[o].filled
      BY <2>2 DEF SameRows, RowsOf
    <3>2. SumQty(RowsOf(g, o)) <= g.orders[o].filled /\ SumQty(RowsOf(g, o)) \in Nat
      BY <2>2, RowsNat DEF Covered
    <3>3. f.orders[o].filled \in Nat /\ g.orders[o].filled \in Nat
      BY <2>2 DEF File, Order, NoOrder
    <3> QED
      BY <3>1, <3>2, <3>3
  <2>3. Covered(db')
    BY <1>2, <2>1, <2>2, StepWrites DEF LedgerInv, CoveredInv
  <2>4. Covered(work')
    BY <1>2, <2>1, <2>2, StepWrites, FillCovers DEF LedgerInv, CoveredInv
  <2> QED
    BY <2>3, <2>4 DEF CoveredInv
<1>3. Inv /\ CoveredInv => RowsWithinOrder
  <2>1. ASSUME Inv, NEW o \in OrderIds PROVE db.orders[o].filled <= db.orders[o].qty
    BY <2>1 DEF Inv, TypeInv, TypeOK, File, Order, OrdersInv, Sound, Consistent, NoOrder
  <2> QED
    BY <2>1 DEF CoveredInv, Covered, RowsOf, RowsWithinOrder
<1> QED
  BY <1>1, <1>2, <1>3, InvHolds, LedgerHolds, PTL DEF Spec

----------------------------------------------------------------------------
(* The order of market events *)

\* The last feed time bounds every market event of the file; the event the
\* open transaction adds is new and not earlier.
EventsInv ==
  /\ \A d \in EventIds : db.events[d] <= lastTime
  /\ pc = "feed" => /\ cur.event \in EventIds /\ db.events[cur.event] = 0
                    /\ lastTime <= cur.time
  /\ pc = "settle" => cur.event \in SettleIds
  /\ \A d \in Events :
       work.events[d] = IF pc \in {"feed", "settle"} /\ d = cur.event THEN cur.time
                        ELSE db.events[d]

LEMMA StepEvents ==
  ASSUME Inv, EventsInv, [Next]_vars
  PROVE  /\ EventsInv'
         /\ \A e \in EventIds : db'.events[e] # db.events[e] =>
              /\ db.events[e] = 0
              /\ \A d \in EventIds : db.events[d] <= db'.events[e]
<1> DEFINE Goal == /\ EventsInv'
                   /\ \A e \in EventIds : db'.events[e] # db.events[e] =>
                        /\ db.events[e] = 0
                        /\ \A d \in EventIds : db.events[d] <= db'.events[e]
<1>0. /\ db \in File /\ work \in File /\ lastTime \in Nat /\ pc \in {"idle", "submit", "feed", "settle"}
      /\ EventIds \cap SettleIds = {} /\ cur.time \in Nat
      /\ pc = "idle" => work = db
  BY IdsAssumption DEF Inv, TypeInv, TypeOK, Matchable
<1>1. ASSUME NEW o \in OrderIds, Submit(o) PROVE Goal
  BY <1>0, <1>1 DEF Submit, Begin, File, EventsInv
<1>2. ASSUME NEW o \in OrderIds, NEW confirm \in Confirm, Cancel(o, confirm) PROVE Goal
  BY <1>0, <1>2 DEF Cancel, File, EventsInv
<1>3. ASSUME NEW e \in EventIds, NEW t \in 1..MaxTime, NEW snap \in Snapshots, Feed(e, t, snap)
      PROVE  Goal
  <2>1. /\ pc' = "feed" /\ cur' = [event |-> e, time |-> t] /\ db' = db /\ lastTime' = lastTime
        /\ db.events[e] = 0 /\ lastTime <= t
        /\ work'.events = [db.events EXCEPT ![e] = t]
    BY <1>0, <1>3 DEF Feed, Begin, Accepts, Stored, File
  <2> QED
    BY <1>0, <2>1 DEF EventsInv, Events, File
<1>4. ASSUME NEW e \in SettleIds, Settle(e) PROVE Goal
  <2>1. PICK clock :
          /\ pc' = "settle" /\ cur' = [event |-> e, time |-> clock] /\ db' = db
          /\ lastTime' = lastTime /\ work'.events = [db.events EXCEPT ![e] = clock]
    BY <1>0, <1>4 DEF Settle, Begin, Stored, File
  <2> QED
    BY <1>0, <2>1 DEF EventsInv, Events, File
<1>5. CASE Rollback
  BY <1>0, <1>5 DEF Rollback, Close, EventsInv
<1>6. ASSUME NEW o \in OrderIds, Match(o) PROVE Goal
  BY <1>0, <1>5, <1>6, MatchWrites DEF Step, EventsInv
<1>7. CASE Commit
  <2>1. db' = work /\ work' = work /\ pc' = "idle"
        /\ lastTime' = IF pc = "feed" THEN cur.time ELSE lastTime
    BY <1>7 DEF Commit, Close
  <2>2. \A d \in EventIds : db'.events[d] <= lastTime'
    BY <1>0, <2>1 DEF EventsInv, Events, File
  <2>3. EventsInv'
    BY <2>1, <2>2 DEF EventsInv
  <2>4. ASSUME NEW e \in EventIds, db'.events[e] # db.events[e]
        PROVE  db.events[e] = 0 /\ \A d \in EventIds : db.events[d] <= db'.events[e]
    <3>1. pc = "feed" /\ e = cur.event /\ work.events[e] = cur.time
      BY <1>0, <2>1, <2>4 DEF EventsInv, Events
    <3> QED
      BY <1>0, <2>1, <3>1 DEF EventsInv, Events, File
  <2> QED
    BY <2>3, <2>4
<1>8. CASE Restart
  <2>1. /\ db' = db /\ work' = db /\ pc' = "idle"
        /\ \A e \in Events : db.events[e] <= lastTime'
    BY <1>8 DEF Restart, Close, RestoredTime
  <2> QED
    BY <2>1 DEF EventsInv, Events
<1>9. CASE UNCHANGED vars
  BY <1>9 DEF vars, EventsInv
<1> QED
  BY <1>1, <1>2, <1>3, <1>4, <1>6, <1>7, <1>8, <1>9 DEF Next

LEMMA EventsHold == Spec => []EventsInv
<1>1. Init => EventsInv
  BY DEF Init, EmptyFile, EventsInv, Events
<1>2. Inv /\ EventsInv /\ [Next]_vars => EventsInv'
  BY StepEvents
<1> QED
  BY <1>1, <1>2, InvHolds, PTL DEF Spec

\* Market events are stored in time order and once: the duplicate and order
\* checks of feed are enough, also after a failed feed or a reopened file.
THEOREM EventOrder == Spec => EventsInOrder
<1>1. Inv /\ EventsInv /\ [Next]_vars =>
        [\A e \in EventIds : db'.events[e] # db.events[e] =>
           /\ db.events[e] = 0
           /\ \A d \in EventIds : db.events[d] <= db'.events[e]]_vars
  BY StepEvents
<1> QED
  BY <1>1, InvHolds, EventsHold, PTL DEF Spec, EventsInOrder

----------------------------------------------------------------------------
(* Runs in which no call fails half-way *)

\* A call that raises while it has orders to match: the file is rolled back and
\* memory keeps what it was told.
CallFails == todo # {} /\ Rollback
NoCallFails == [][~CallFails]_vars

\* An order's row says what its fill rows add up to.
Exact(file) == \A o \in OrderIds : file.orders[o].filled = SumQty(RowsOf(file, o))

\* The events of quotes and of fills are stored; only stored orders have fills.
Known(file) ==
  /\ \A s \in Symbols : file.rows[s] # NoRow => file.events[file.rows[s].event] >= 1
  /\ \A f \in file.fills : file.events[f.event] >= 1 /\ file.orders[f.order] # NoOrder

\* A working order is active: some event has reached its activation time, which
\* any event does for an order that was due at once.
Reached(file, active) == active <= 1 \/ \E e \in Events : file.events[e] >= active
InTime(file, f) ==
  \E e \in Events : /\ file.events[e] >= file.orders[f.order].active
                    /\ e = f.event \/ e \in SettleIds \/ f.event \in SettleIds
Timely(file) ==
  /\ \A o \in OrderIds : file.orders[o].status \in Working => Reached(file, file.orders[o].active)
  /\ \A f \in file.fills : InTime(file, f)

\* Orders do not become active before the first quote on a clock of their own.
NoEarlyClock == Latency > 0 \/ WallClock <= 1

FileInv(file) == Exact(file) /\ Known(file) /\ (NoEarlyClock => Timely(file))

\* Memory and the market book are what the open transaction has written, and the
\* event that orders are matched at is stored in it.  An event that is being fed
\* has yet to settle the cancels that are pending, and has yet to fill the orders
\* that wait for their turn.
AbreastInv ==
  /\ mem = work.orders /\ book.rows = work.rows
  /\ FileInv(db) /\ FileInv(work)
  /\ book.event # NoEvent => work.events[book.event] = book.time /\ book.time >= 1
  /\ todo # {} => work.events[cur.event] = cur.time /\ cur.time >= 1
  /\ pc = "submit" => /\ todo # {} => cur.event \in EventIds
                      /\ \A o \in todo : mem[o].active <= cur.time
  /\ pc = "feed" => \A f \in work.fills : f.event = cur.event => f.order \notin todo

\* The limit orders that traded in part, whose cancel is pending and whose
\* remainder cannot be traded: no event closes them.
LeftOver(o) ==
  /\ IsNext(o) /\ Answer(o) = "reject"
  /\ OrderSpec[o].type = "LIMIT" /\ mem[o].filled > 0 /\ mem[o].status = "CANCEL_PENDING"

PendingInv ==
  pc = "feed" => \A o \in OrderIds : work.orders[o].status = "CANCEL_PENDING" => o \in todo

----------------------------------------------------------------------------
(* The steps of such a run *)

\* f is g with orders moved on, events added and quotes replaced: no fill.
Extends(f, g) ==
  /\ f.fills = g.fills
  /\ \A e \in Events : g.events[e] # 0 => f.events[e] = g.events[e]
  /\ \A o \in OrderIds :
       \/ f.orders[o] = g.orders[o]
       \/ /\ f.orders[o].filled = g.orders[o].filled /\ f.orders[o] # NoOrder
          /\ g.orders[o] # NoOrder => f.orders[o].active = g.orders[o].active
          /\ NoEarlyClock /\ f.orders[o].status \in Working => Reached(f, f.orders[o].active)
  /\ \A s \in Symbols :
       f.rows[s] # NoRow => f.rows[s] = g.rows[s] \/ f.events[f.rows[s].event] >= 1

LEMMA EventStays ==
  ASSUME NEW f \in File, NEW g \in File, NEW e \in Events, NEW a \in Nat,
         \A d \in Events : g.events[d] # 0 => f.events[d] = g.events[d],
         g.events[e] >= a
  PROVE  f.events[e] >= a
  BY DEF File

LEMMA ExtendsKeeps ==
  ASSUME NEW f \in File, NEW g \in File, FileInv(g), Extends(f, g)
  PROVE  FileInv(f)
<1>1. Exact(f)
  BY DEF FileInv, Exact, Extends, RowsOf
<1>2. \A r \in f.fills : r.order \in OrderIds /\ r.event \in Events
  BY DEF File, Fill
<1>3. Known(f)
  <2>1. ASSUME NEW s \in Symbols, f.rows[s] # NoRow
        PROVE  f.events[f.rows[s].event] >= 1
    <3>1. CASE f.rows[s] = g.rows[s]
      <4>1. g.events[g.rows[s].event] >= 1 /\ g.rows[s].event \in Events
        BY <2>1, <3>1 DEF FileInv, Known, File, Rows, Events
      <4> QED
        BY <3>1, <4>1, EventStays DEF Extends
    <3> QED
      BY <2>1, <3>1 DEF Extends
  <2>2. ASSUME NEW r \in f.fills
        PROVE  f.events[r.event] >= 1 /\ f.orders[r.order] # NoOrder
    <3>1. g.events[r.event] >= 1 /\ g.orders[r.order] # NoOrder
      BY <2>2 DEF FileInv, Known, Extends
    <3> QED
      BY <1>2, <2>2, <3>1, EventStays DEF Extends
  <2> QED
    BY <2>1, <2>2 DEF Known
<1>4. ASSUME NoEarlyClock PROVE Timely(f)
  <2>1. Timely(g)
    BY <1>4 DEF FileInv
  <2>2. \A o \in OrderIds : g.orders[o].active \in Nat
    BY DEF File, Order, NoOrder
  <2>3. ASSUME NEW o \in OrderIds, f.orders[o].status \in Working
        PROVE  Reached(f, f.orders[o].active)
    <3>1. CASE f.orders[o] = g.orders[o]
      <4>1. Reached(g, g.orders[o].active)
        BY <2>1, <2>3, <3>1 DEF Timely
      <4> QED
        BY <2>2, <3>1, <4>1, EventStays DEF Reached, Extends
    <3> QED
      BY <1>4, <2>3, <3>1 DEF Extends
  <2>4. ASSUME NEW r \in f.fills PROVE InTime(f, r)
    <3>1. r \in g.fills /\ InTime(g, r) /\ g.orders[r.order] # NoOrder
      BY <2>1, <2>4 DEF Timely, Extends, FileInv, Known
    <3>2. f.orders[r.order].active = g.orders[r.order].active
      BY <1>2, <2>4, <3>1 DEF Extends
    <3>3. PICK e \in Events : /\ g.events[e] >= g.orders[r.order].active
                              /\ e = r.event \/ e \in SettleIds \/ r.event \in SettleIds
      BY <3>1 DEF InTime
    <3>4. f.events[e] >= f.orders[r.order].active
      BY <1>2, <2>2, <2>4, <3>2, <3>3, EventStays DEF Extends
    <3> QED
      BY <3>3, <3>4 DEF InTime
  <2> QED
    BY <2>3, <2>4 DEF Timely
<1> QED
  BY <1>1, <1>3, <1>4 DEF FileInv

\* The committed file is left alone or becomes what the transaction wrote.
LEMMA FileFollows ==
  ASSUME Inv, [Next]_vars
  PROVE  db' = db \/ db' = work'
<1>1. ASSUME NEW o \in OrderIds, Match(o) PROVE db' = db
  BY <1>1 DEF Match, MatchFill, MatchClose, MatchWait, Step, Rollback
<1> QED
  BY <1>1 DEF Next, Submit, Cancel, Feed, Settle, Begin, Commit, Restart, Close, vars

LEMMA SubmitAbreast ==
  ASSUME Inv, Inv', AbreastInv, NEW o \in OrderIds, Submit(o)
  PROVE  AbreastInv'
<1> DEFINE clock   == IF book.event = NoEvent THEN WallClock ELSE book.time
           created == [status |-> "CREATED", filled |-> 0, qty |-> OrderSpec[o].qty,
                       at |-> clock, active |-> clock + Latency]
           order   == IF Latency = 0 THEN AfterAccept(created) ELSE created
           first   == IF Latency = 0 /\ book.event # NoEvent THEN {o} ELSE {}
<1>1. /\ pc = "idle" /\ mem[o] = NoOrder /\ mem' = [mem EXCEPT ![o] = order]
      /\ pc' = "submit" /\ work' = [db EXCEPT !.orders[o] = order] /\ todo' = first
      /\ cur' = [event |-> book.event, time |-> clock]
      /\ UNCHANGED <<db, book, lastTime>>
  BY DEF Submit, Begin
<1>2. /\ work = db /\ db \in File /\ work' \in File /\ book \in Book /\ todo = {}
      /\ mem \in [OrderIds -> Order \cup {NoOrder}]
  BY <1>1 DEF Inv, TypeInv, TypeOK, Matchable
<1>3. clock \in Nat
  BY <1>2, BoundsAssumption DEF Book
<1> HIDE DEF clock
<1>4. /\ order.filled = 0 /\ order.active = clock + Latency
      /\ order.status \in Working => Latency = 0
      /\ order # NoOrder
  BY DEF AfterAccept, MoveTo, Working, NoOrder
<1> HIDE DEF order
<1>5. /\ work'.fills = db.fills /\ work'.events = db.events /\ work'.rows = db.rows
      /\ work'.orders = [db.orders EXCEPT ![o] = order]
  BY <1>1, <1>2 DEF File
<1>6. ASSUME NoEarlyClock, order.status \in Working PROVE Reached(work', order.active)
  <2>1. order.active = clock
    BY <1>3, <1>4, <1>6
  <2>2. CASE book.event = NoEvent
    BY <1>4, <1>6, <2>1, <2>2, BoundsAssumption DEF NoEarlyClock, Reached, clock
  <2>3. CASE book.event # NoEvent
    <3>1. book.event \in Events /\ work'.events[book.event] = clock
      BY <1>2, <1>5, <2>3 DEF AbreastInv, Book, Events, clock
    <3> QED
      BY <1>3, <2>1, <3>1 DEF Reached
  <2> QED
    BY <2>2, <2>3
<1>7. Extends(work', db)
  <2>1. db.orders[o] = NoOrder
    BY <1>1, <1>2 DEF AbreastInv
  <2>2. ASSUME NEW p \in OrderIds
        PROVE  \/ work'.orders[p] = db.orders[p]
               \/ /\ work'.orders[p].filled = db.orders[p].filled /\ work'.orders[p] # NoOrder
                  /\ db.orders[p] # NoOrder => work'.orders[p].active = db.orders[p].active
                  /\ NoEarlyClock /\ work'.orders[p].status \in Working
                       => Reached(work', work'.orders[p].active)
    <3>1. CASE p = o
      <4>1. work'.orders[o] = order
        BY <1>2, <1>5 DEF File
      <4> QED
        BY <1>4, <1>6, <2>1, <3>1, <4>1 DEF NoOrder
    <3>2. CASE p # o
      BY <1>2, <1>5, <3>2 DEF File
    <3> QED
      BY <3>1, <3>2
  <2> QED
    BY <1>5, <2>2 DEF Extends
<1>8. FileInv(work') /\ FileInv(db')
  BY <1>1, <1>2, <1>7, ExtendsKeeps DEF AbreastInv
<1>9. mem' = work'.orders /\ book'.rows = work'.rows
  BY <1>1, <1>2, <1>5 DEF AbreastInv
<1>10. book.event # NoEvent => work'.events[book.event] = book.time /\ book.time >= 1
  BY <1>2, <1>5 DEF AbreastInv
<1>11. todo' # {} => /\ work'.events[cur'.event] = cur'.time /\ cur'.time >= 1
                     /\ cur'.event \in EventIds
  BY <1>1, <1>2, <1>10 DEF Book, clock
<1>12. \A p \in todo' : mem'[p].active <= cur'.time
  BY <1>1, <1>2, <1>3, <1>4
<1> QED
  BY <1>1, <1>8, <1>9, <1>10, <1>11, <1>12 DEF AbreastInv

LEMMA CancelAbreast ==
  ASSUME Inv, Inv', AbreastInv, NEW o \in OrderIds, NEW confirm \in Confirm, Cancel(o, confirm)
  PROVE  AbreastInv'
<1> DEFINE pending == AfterRequestCancel(mem[o])
           final   == IF confirm /\ pending.status = "CANCEL_PENDING"
                      THEN AfterConfirmCancel(pending) ELSE pending
<1>1. /\ pc = "idle" /\ db.orders[o] # NoOrder
      /\ mem' = [mem EXCEPT ![o] = final] /\ db' = [db EXCEPT !.orders[o] = final]
      /\ work' = db' /\ UNCHANGED <<book, lastTime, pc, todo, cur>>
  BY DEF Cancel
<1>2. /\ work = db /\ db \in File /\ work' \in File /\ todo = {}
      /\ mem \in [OrderIds -> Order \cup {NoOrder}] /\ mem = db.orders
  BY <1>1 DEF Inv, TypeInv, TypeOK, Matchable, AbreastInv
<1>3. mem[o] \in Order
  BY <1>1, <1>2
<1>4. /\ pending.filled = mem[o].filled /\ pending.active = mem[o].active /\ pending # NoOrder
      /\ pending.status \in Working => mem[o].status \in Working
      /\ pending \in Order
  <2>1. pending \in Order
    BY <1>3, MoveTyped DEF AfterRequestCancel, Statuses, Working, Terminal
  <2> QED
    BY <1>3, <2>1 DEF AfterRequestCancel, MoveTo, Order, NoOrder, Statuses, Working, Terminal
<1> HIDE DEF pending
<1>5. /\ final.filled = mem[o].filled /\ final.active = mem[o].active /\ final # NoOrder
      /\ final.status \in Working => mem[o].status \in Working
  BY <1>4 DEF AfterConfirmCancel, MoveTo, Order, NoOrder, Working
<1> HIDE DEF final
<1>6. /\ work'.fills = db.fills /\ work'.events = db.events /\ work'.rows = db.rows
      /\ work'.orders = [db.orders EXCEPT ![o] = final]
  BY <1>1, <1>2 DEF File
<1>7. ASSUME NoEarlyClock, final.status \in Working PROVE Reached(work', final.active)
  <2>1. Reached(db, mem[o].active)
    BY <1>2, <1>5, <1>7 DEF AbreastInv, FileInv, Timely
  <2> QED
    BY <1>5, <1>6, <2>1 DEF Reached
<1>8. Extends(work', db)
  <2>1. work'.orders[o] = final
    BY <1>2, <1>6 DEF File
  <2>2. \A p \in OrderIds : p # o => work'.orders[p] = db.orders[p]
    BY <1>2, <1>6 DEF File
  <2> QED
    BY <1>2, <1>5, <1>6, <1>7, <2>1, <2>2 DEF Extends
<1>9. FileInv(work')
  BY <1>2, <1>8, ExtendsKeeps DEF AbreastInv
<1> QED
  BY <1>1, <1>2, <1>6, <1>9 DEF AbreastInv

\* What feed and settle write: the due orders activated, and one more event.
LEMMA StoredExtends ==
  ASSUME Inv, AbreastInv, pc = "idle", NEW e \in Events, db.events[e] = 0, NEW t \in Nat, t >= 1,
         NEW file \in File, file.fills = db.fills, file.orders = db.orders,
         file.events = [db.events EXCEPT ![e] = t],
         \A s \in Symbols : file.rows[s] # NoRow =>
           file.rows[s] = db.rows[s] \/ file.rows[s].event = e
  PROVE  /\ Stored(file, t) \in File /\ FileInv(Stored(file, t))
         /\ Activated(t) = Stored(file, t).orders
         /\ Stored(file, t).rows = file.rows /\ Stored(file, t).events = file.events
         /\ Stored(file, t).fills = db.fills
<1> DEFINE new == Stored(file, t)
<1>1. /\ work = db /\ db \in File /\ mem = db.orders /\ FileInv(db)
      /\ mem \in [OrderIds -> Order \cup {NoOrder}]
  BY DEF Inv, TypeInv, TypeOK, Matchable, AbreastInv
<1>2. new \in File
  BY ActivatedTyped DEF Inv, TypeInv
<1>3. /\ new.fills = db.fills /\ new.events = file.events /\ new.rows = file.rows
      /\ new.orders = [o \in OrderIds |-> IF Due(o, t) THEN Activated(t)[o] ELSE db.orders[o]]
  BY DEF Stored, File
<1> HIDE DEF new
<1>4. Activated(t) = new.orders
  BY <1>1, <1>3 DEF Activated
<1>5. \A d \in Events : db.events[d] # 0 => new.events[d] = db.events[d]
  BY <1>1, <1>3 DEF File
<1>6. new.events[e] = t
  BY <1>1, <1>3 DEF File
<1>7. ASSUME NEW o \in OrderIds, Due(o, t)
      PROVE  /\ new.orders[o].filled = db.orders[o].filled /\ new.orders[o] # NoOrder
             /\ new.orders[o].active = db.orders[o].active
             /\ Reached(new, new.orders[o].active)
  <2>1. mem[o] \in Order /\ mem[o].active <= t
    BY <1>1, <1>7 DEF Due, NoOrder, Order
  <2>2. new.orders[o] = AfterAccept(mem[o])
    BY <1>3, <1>7 DEF Activated
  <2>3. /\ new.orders[o].filled = mem[o].filled /\ new.orders[o].active = mem[o].active
        /\ new.orders[o] # NoOrder
    BY <2>1, <2>2 DEF AfterAccept, MoveTo, Order, NoOrder
  <2> QED
    BY <1>1, <1>6, <2>1, <2>3 DEF Reached
<1>8. \A s \in Symbols : new.rows[s] # NoRow =>
        new.rows[s] = db.rows[s] \/ new.events[new.rows[s].event] >= 1
  BY <1>3, <1>6
<1>9. Extends(new, db)
  <2>1. \A o \in OrderIds : ~Due(o, t) => new.orders[o] = db.orders[o]
    BY <1>3
  <2> QED
    BY <1>3, <1>5, <1>7, <1>8, <2>1 DEF Extends
<1>10. FileInv(new)
  BY <1>1, <1>2, <1>9, ExtendsKeeps
<1> QED
  BY <1>2, <1>3, <1>4, <1>10 DEF new

LEMMA FeedAbreast ==
  ASSUME Inv, Inv', AbreastInv, NEW e \in EventIds, NEW t \in 1..MaxTime, NEW snap \in Snapshots,
         Feed(e, t, snap)
  PROVE  AbreastInv'
<1> DEFINE file == [db EXCEPT !.events[e] = t, !.rows = Fed(db.rows, e, snap)]
<1>1. /\ pc = "idle" /\ db.events[e] = 0 /\ book' = BookWith(e, t, snap) /\ mem' = Activated(t)
      /\ pc' = "feed" /\ work' = Stored(file, t) /\ todo' = WorkingIn(Activated(t))
      /\ cur' = [event |-> e, time |-> t] /\ db' = db
  BY DEF Feed, Begin, Accepts
<1>2. /\ db \in File /\ t \in Nat /\ t >= 1 /\ e \in Events
      /\ work = db /\ book.rows = db.rows
  BY <1>1, BoundsAssumption DEF Inv, TypeInv, TypeOK, Matchable, AbreastInv, Events
<1>3. /\ file \in File /\ file.fills = db.fills /\ file.orders = db.orders
      /\ file.events = [db.events EXCEPT ![e] = t] /\ file.rows = Fed(db.rows, e, snap)
  BY <1>2, FedTyped DEF File
<1> HIDE DEF file
<1>4. \A s \in Symbols : file.rows[s] # NoRow =>
        file.rows[s] = db.rows[s] \/ file.rows[s].event = e
  BY <1>3 DEF Fed
<1>5. /\ FileInv(work') /\ mem' = work'.orders /\ work'.rows = file.rows
      /\ work'.events = file.events /\ work'.fills = db.fills
  BY <1>1, <1>2, <1>3, <1>4, StoredExtends
<1>6. book'.rows = work'.rows /\ book'.event = e /\ book'.time = t
  BY <1>1, <1>2, <1>3, <1>5 DEF BookWith
<1>7. work'.events[e] = t
  BY <1>2, <1>3, <1>5 DEF File
<1>8. \A f \in work'.fills : f.event # e
  BY <1>1, <1>2, <1>5 DEF AbreastInv, FileInv, Known
<1> QED
  BY <1>1, <1>2, <1>5, <1>6, <1>7, <1>8 DEF AbreastInv

LEMMA SettleAbreast ==
  ASSUME Inv, Inv', AbreastInv, NEW e \in SettleIds, Settle(e)
  PROVE  AbreastInv'
<1> DEFINE clocks == {book.time} \cup {mem[o].active :
                        o \in {p \in OrderIds : mem[p].status = "CREATED"}}
<1>1. PICK clock \in clocks :
        /\ book.time <= clock /\ mem' = Activated(clock)
        /\ Begin("settle", Stored([db EXCEPT !.events[e] = clock], clock),
                 WorkingIn(Activated(clock)), e, clock)
        /\ UNCHANGED <<book, lastTime>>
  BY DEF Settle
<1>2. /\ pc = "idle" /\ book.event # NoEvent /\ db.events[e] = 0 /\ e \in Events
      /\ db \in File /\ work = db /\ book \in Book
  BY DEF Settle, Events, Inv, TypeInv, TypeOK, Matchable
<1>3. clock \in Nat /\ clock >= 1
  <2>1. \A p \in OrderIds : mem[p].status = "CREATED" => mem[p].active \in Nat
    BY WorkingIsOrder DEF Inv, TypeInv, Statuses, Order
  <2>2. book.time \in Nat /\ book.time >= 1
    BY <1>2 DEF AbreastInv, Book
  <2> QED
    BY <1>1, <2>1, <2>2
<1> HIDE DEF clocks
<1> DEFINE file == [db EXCEPT !.events[e] = clock]
<1>4. /\ file \in File /\ file.fills = db.fills /\ file.orders = db.orders
      /\ file.events = [db.events EXCEPT ![e] = clock] /\ file.rows = db.rows
  BY <1>2, <1>3 DEF File
<1>5. /\ pc' = "settle" /\ work' = Stored(file, clock)
      /\ cur' = [event |-> e, time |-> clock] /\ db' = db
  BY <1>1 DEF Begin
<1> HIDE DEF file
<1>6. /\ FileInv(work') /\ mem' = work'.orders /\ work'.rows = db.rows
      /\ work'.events = file.events
  BY <1>1, <1>2, <1>3, <1>4, <1>5, StoredExtends
<1>7. work'.events[e] = clock
  BY <1>2, <1>4, <1>6 DEF File
<1>8. book'.event # NoEvent => work'.events[book'.event] = book'.time /\ book'.time >= 1
  <2>1. db.events[book.event] = book.time /\ book.time >= 1 /\ book.event \in Events
    BY <1>2 DEF AbreastInv, Book, Events
  <2>2. book.event # e
    BY <1>2, <2>1
  <2> QED
    BY <1>1, <1>2, <1>4, <1>6, <2>1, <2>2 DEF File
<1> QED
  BY <1>1, <1>2, <1>3, <1>5, <1>6, <1>7, <1>8 DEF AbreastInv

LEMMA CommitAbreast ==
  ASSUME Inv, AbreastInv, Commit
  PROVE  AbreastInv'
  BY DEF AbreastInv, Commit, Close

\* Reopening rebuilds from the file what memory had.
LEMMA RestartAbreast ==
  ASSUME Inv, AbreastInv, Restart
  PROVE  AbreastInv'
<1>1. PICK s \in Symbols :
        /\ db.rows[s] # NoRow \/ db.rows = EmptyFile.rows
        /\ book' = IF db.rows[s] = NoRow THEN EmptyBook
                   ELSE [event |-> db.rows[s].event,
                         time |-> db.events[db.rows[s].event], rows |-> db.rows]
  BY DEF Restart
<1>2. mem' = db.orders /\ work' = db /\ db' = db /\ pc' = "idle" /\ todo' = {}
  BY DEF Restart, Close
<1>3. book'.rows = db.rows
  BY <1>1 DEF EmptyBook, EmptyFile
<1>4. book'.event # NoEvent => db.events[book'.event] = book'.time /\ book'.time >= 1
  BY <1>1 DEF EmptyBook, AbreastInv, FileInv, Known
<1> QED
  BY <1>2, <1>3, <1>4 DEF AbreastInv

\* One iteration of the matching loop that does not fail leaves the order as it
\* is, closes it, or fills it; the cases of leaving it are named.
Skips(o) ==
  /\ UNCHANGED <<mem, work>>
  /\ \/ Answer(o) = "fill" /\ AlreadyFilled(o)
     \/ /\ Answer(o) \in {"close", "reject"}
        /\ OrderSpec[o].type = "LIMIT" /\ mem[o].filled > 0
     \/ Answer(o) = "wait" /\ mem[o].status # "CANCEL_PENDING"
Closes(o, order) ==
  /\ Put(o, order) /\ order \in Order
  /\ order.filled = mem[o].filled /\ order.active = mem[o].active
  /\ order.status \in Terminal
Trades(o, n) == Fills(o, n) /\ mem' = [mem EXCEPT ![o] = Filled(o, n)]

LEMMA MatchSteps ==
  ASSUME Inv, NEW o \in OrderIds, Match(o), ~CallFails
  PROVE  /\ Step(o) /\ IsNext(o) /\ o \in todo
         /\ \/ Skips(o)
            \/ \E order : Closes(o, order)
            \/ \E n \in Fillable(o) : Trades(o, n)
<1>1. IsNext(o) /\ o \in todo /\ ~Rollback
  BY DEF Match, MatchFill, MatchClose, MatchWait, IsNext, CallFails
<1>2. mem[o] \in Order
  BY <1>1, RestIsNat DEF Inv
<1>3. CASE MatchFill(o)
  <2>1. PICK n \in Fillable(o) :
          IF Payable(o, n) /\ AlreadyFilled(o)
          THEN Step(o) /\ UNCHANGED <<mem, work>>
          ELSE IF Payable(o, n) /\ Insertable(o, n)
          THEN /\ mem' = [mem EXCEPT ![o] = Filled(o, n)]
               /\ work' = RecordFill(o, n, ExecPrice(OrderSpec[o].side, Raw(o)))
               /\ Step(o)
          ELSE Rollback
    BY <1>3 DEF MatchFill
  <2>2. Answer(o) = "fill"
    BY <1>3 DEF MatchFill
  <2> QED
    BY <1>1, <2>1, <2>2 DEF Skips, Trades, Fills
<1>4. \A s \in Terminal :
        /\ MoveTo(mem[o], s) \in Order /\ MoveTo(mem[o], s).filled = mem[o].filled
        /\ MoveTo(mem[o], s).active = mem[o].active /\ MoveTo(mem[o], s).status = s
  BY <1>2, MoveTyped DEF MoveTo, Order, Statuses, Terminal
<1>5. CASE MatchClose(o)
  <2>1. \/ Step(o) /\ Skips(o)
        \/ \E r \in BOOLEAN : Put(o, AfterClose(mem[o], r)) /\ Step(o)
    BY <1>1, <1>5 DEF MatchClose, Skips
  <2>2. \A r \in BOOLEAN : Put(o, AfterClose(mem[o], r)) => Closes(o, AfterClose(mem[o], r))
    BY <1>4 DEF AfterClose, AfterReject, AfterConfirmCancel, Closes, Terminal
  <2> QED
    BY <1>1, <2>1, <2>2
<1>6. CASE MatchWait(o)
  <2>1. Put(o, AfterConfirmCancel(mem[o])) => Closes(o, AfterConfirmCancel(mem[o]))
    BY <1>4 DEF AfterConfirmCancel, Closes, Terminal
  <2> QED
    BY <1>1, <1>6, <2>1 DEF MatchWait, Skips
<1> QED
  BY <1>3, <1>5, <1>6 DEF Match

\* The event of a fill has reached the activation time of its order.
LEMMA FillInTime ==
  ASSUME Inv, EventsInv, AbreastInv, NoEarlyClock, NEW o \in todo
  PROVE  \E e \in Events : /\ work.events[e] >= work.orders[o].active
                           /\ e = cur.event \/ e \in SettleIds \/ cur.event \in SettleIds
<1>1. /\ o \in OrderIds /\ cur.event \in Events /\ cur.time \in Nat /\ lastTime \in Nat
      /\ mem = work.orders /\ work.orders[o].status \in Working /\ pc # "idle"
      /\ work \in File /\ db \in File /\ pc \in {"idle", "submit", "feed", "settle"}
      /\ work.events[cur.event] = cur.time /\ cur.time >= 1
  BY DEF Inv, TypeInv, TypeOK, Matchable, AbreastInv
<1>2. work.orders[o].active \in Nat
  BY <1>1 DEF File, Order, NoOrder
<1>3. Reached(work, work.orders[o].active)
  BY <1>1 DEF AbreastInv, FileInv, Timely
<1>4. CASE work.orders[o].active <= cur.time
  BY <1>1, <1>4
<1>5. CASE work.orders[o].active > cur.time
  <2>1. PICK e \in Events : work.events[e] >= work.orders[o].active
    BY <1>1, <1>2, <1>3, <1>5 DEF Reached
  <2>2. CASE e \in SettleIds
    BY <2>1, <2>2
  <2>3. CASE e \in EventIds
    <3>1. pc # "submit"
      BY <1>1, <1>2, <1>5 DEF AbreastInv
    <3>2. CASE pc = "settle"
      BY <2>1, <3>2 DEF EventsInv
    <3>3. CASE pc = "feed"
      <4>1. work.events[e] <= cur.time
        BY <1>1, <2>1, <2>3, <3>3 DEF EventsInv, File, Events
      <4>2. work.events[e] \in Nat
        BY <1>1, <2>1 DEF File
      <4> QED
        BY <1>1, <1>2, <1>5, <2>1, <4>1, <4>2
    <3> QED
      BY <1>1, <3>1, <3>2, <3>3
  <2> QED
    BY <2>1, <2>2, <2>3 DEF Events
<1> QED
  BY <1>1, <1>2, <1>4, <1>5

LEMMA TradeKeeps ==
  ASSUME Inv, EventsInv, AbreastInv, IsFiniteSet(work.fills),
         NEW o \in todo, NEW n \in Fillable(o), Trades(o, n), Step(o)
  PROVE  FileInv(work') /\ mem' = work'.orders
<1> DEFINE row == FillRow(o, n, ExecPrice(OrderSpec[o].side, Raw(o)))
<1>1. /\ o \in OrderIds /\ n \in Nat \ {0}
      /\ row \notin work.fills /\ row.order = o /\ row.qty = n /\ row.event = cur.event
      /\ work' \in File /\ work'.fills = work.fills \cup {row}
      /\ work'.orders = [work.orders EXCEPT ![o] = Filled(o, n)]
  BY FillWrites DEF Trades, FillRow
<1>2. work'.events = work.events /\ work'.rows = work.rows /\ work \in File
  BY DEF Trades, Fills, RecordFill, Inv, TypeInv, TypeOK, File
<1> HIDE DEF row
<1>3. /\ mem = work.orders /\ mem' = work'.orders
      /\ mem[o] \in Order /\ work.orders[o].status \in Working
  BY <1>1, RestIsNat DEF Trades, AbreastInv, Inv, TypeInv, Matchable
<1>4. /\ Filled(o, n).filled = mem[o].filled + n /\ Filled(o, n).active = mem[o].active
      /\ Filled(o, n) # NoOrder
  BY <1>1, <1>3 DEF Filled, AfterFill, AfterConfirmCancel, MoveTo, Order, NoOrder, StatusAfterFill
<1>5. /\ work'.orders[o] = Filled(o, n)
      /\ \A p \in OrderIds \ {o} : work'.orders[p] = work.orders[p]
  BY <1>1, <1>2 DEF File
<1>6. Exact(work')
  <2> SUFFICES ASSUME NEW p \in OrderIds
               PROVE  work'.orders[p].filled = SumQty(RowsOf(work', p))
    BY DEF Exact
  <2>1. Exact(work)
    BY DEF AbreastInv, FileInv
  <2>2. CASE p # o
    <3>1. RowsOf(work', p) = RowsOf(work, p)
      BY <1>1, <2>2 DEF RowsOf
    <3> QED
      BY <1>5, <2>1, <2>2, <3>1 DEF Exact
  <2>3. CASE p = o
    <3>1. /\ RowsOf(work', o) = RowsOf(work, o) \cup {row}
          /\ RowsOf(work, o) \in SUBSET work.fills
      BY <1>1 DEF RowsOf
    <3>2. SumQty(RowsOf(work, o)) = work.orders[o].filled
      BY <1>1, <2>1 DEF Exact
    <3>3. SumQty(RowsOf(work', o)) = SumQty(RowsOf(work, o)) + n
      BY <1>1, <1>2, <3>1, QtyGrows
    <3> QED
      BY <1>3, <1>4, <1>5, <2>3, <3>2, <3>3
  <2> QED
    BY <2>2, <2>3
<1>7. Known(work')
  <2>1. Known(work)
    BY DEF AbreastInv, FileInv
  <2>2. work'.events[row.event] >= 1
    BY <1>1, <1>2 DEF AbreastInv
  <2>3. \A f \in work.fills : f.order \in OrderIds
    BY <1>2 DEF File, Fill
  <2> QED
    BY <1>1, <1>2, <1>4, <1>5, <2>1, <2>2, <2>3 DEF Known
<1>8. ASSUME NoEarlyClock PROVE Timely(work')
  <2>1. Timely(work)
    BY <1>8 DEF AbreastInv, FileInv
  <2>2. \A p \in OrderIds : work'.orders[p].active = work.orders[p].active
    BY <1>3, <1>4, <1>5
  <2>3. \A p \in OrderIds : work'.orders[p].status \in Working =>
          Reached(work', work'.orders[p].active)
    BY <1>2, <1>3, <1>5, <2>1, <2>2 DEF Timely, Reached
  <2>4. InTime(work', row)
    BY <1>1, <1>2, <1>8, <2>2, FillInTime DEF InTime
  <2>5. \A f \in work.fills : InTime(work', f)
    BY <1>2, <2>1, <2>2 DEF Timely, InTime, File, Fill
  <2> QED
    BY <1>1, <2>3, <2>4, <2>5 DEF Timely
<1> QED
  BY <1>3, <1>6, <1>7, <1>8 DEF FileInv

LEMMA MatchAbreast ==
  ASSUME Inv, Inv', EventsInv, AbreastInv, LedgerInv, NEW o \in OrderIds, Match(o), ~CallFails
  PROVE  AbreastInv'
<1>1. Step(o) /\ o \in todo
  BY MatchSteps
<1>2. work \in File /\ work' \in File /\ mem \in [OrderIds -> Order \cup {NoOrder}]
  BY DEF Inv, TypeInv, TypeOK
<1>3. FileInv(work') /\ mem' = work'.orders
  <2>1. CASE Skips(o)
    BY <2>1 DEF Skips, AbreastInv
  <2>2. ASSUME NEW order, Closes(o, order) PROVE FileInv(work') /\ mem' = work'.orders
    <3>1. /\ work'.fills = work.fills /\ work'.events = work.events /\ work'.rows = work.rows
          /\ work'.orders = [work.orders EXCEPT ![o] = order]
      BY <1>2, <2>2 DEF Closes, Put, File
    <3>2. order # NoOrder /\ order.status \notin Working
      BY <2>2 DEF Closes, Terminal, Working, Order, NoOrder
    <3>3. work'.orders[o] = order /\ \A p \in OrderIds \ {o} : work'.orders[p] = work.orders[p]
      BY <1>2, <3>1 DEF File
    <3>4. mem = work.orders
      BY DEF AbreastInv
    <3>5. Extends(work', work)
      BY <2>2, <3>1, <3>2, <3>3, <3>4 DEF Closes, Extends
    <3>6. FileInv(work')
      BY <1>2, <3>5, ExtendsKeeps DEF AbreastInv
    <3> QED
      BY <2>2, <3>1, <3>4, <3>6 DEF Closes, Put
  <2>3. ASSUME NEW n \in Fillable(o), Trades(o, n) PROVE FileInv(work') /\ mem' = work'.orders
    BY <1>1, <2>3, TradeKeeps DEF LedgerInv
  <2> QED
    BY <2>1, <2>2, <2>3, MatchSteps
<1>4. work'.rows = work.rows /\ work'.events = work.events
  BY <1>2, MatchSteps DEF Skips, Closes, Put, Trades, Fills, RecordFill, File
<1>5. \A p \in todo' : p # o /\ p \in todo /\ p \in OrderIds
  BY <1>1 DEF Step, Inv, TypeInv, TypeOK
<1>6. \A p \in todo' : mem'[p] = mem[p]
  BY <1>2, <1>5, MatchSteps DEF Skips, Closes, Put, Trades
<1>7. \A f \in work'.fills : f \in work.fills \/ f.order = o
  <2>1. CASE Skips(o)
    BY <2>1 DEF Skips
  <2>2. ASSUME NEW order, Closes(o, order) PROVE work'.fills = work.fills
    BY <1>2, <2>2 DEF Closes, Put, File
  <2>3. ASSUME NEW n \in Fillable(o), Trades(o, n)
        PROVE  \A f \in work'.fills : f \in work.fills \/ f.order = o
    <3> DEFINE row == FillRow(o, n, ExecPrice(OrderSpec[o].side, Raw(o)))
    <3>1. work'.fills = work.fills \cup {row} /\ row.order = o
      BY <1>1, <2>3, FillWrites DEF Trades
    <3> QED
      BY <3>1
  <2> QED
    BY <2>1, <2>2, <2>3, MatchSteps
<1>8. pc = "feed" => \A f \in work'.fills : f.event = cur.event => f.order \notin todo'
  BY <1>5, <1>7 DEF AbreastInv
<1>9. pc = "submit" => /\ todo' # {} => cur.event \in EventIds
                       /\ \A p \in todo' : mem'[p].active <= cur.time
  BY <1>5, <1>6 DEF AbreastInv
<1> QED
  BY <1>1, <1>3, <1>4, <1>5, <1>8, <1>9 DEF AbreastInv, Step

LEMMA StepAbreast ==
  ASSUME Inv, Inv', EventsInv, AbreastInv, LedgerInv, [Next]_vars, [~CallFails]_vars
  PROVE  AbreastInv'
<1>1. CASE UNCHANGED vars
  BY <1>1 DEF vars, AbreastInv
<1>2. CASE Next /\ ~CallFails
  BY <1>2, SubmitAbreast, CancelAbreast, FeedAbreast, SettleAbreast, MatchAbreast,
     CommitAbreast, RestartAbreast DEF Next
<1> QED
  BY <1>1, <1>2

LEMMA InitAbreast == Init => AbreastInv
<1>1. /\ EmptyFile.fills = {} /\ EmptyFile.orders = [o \in OrderIds |-> NoOrder]
      /\ EmptyFile.rows = [s \in Symbols |-> NoRow]
  BY DEF EmptyFile
<1>2. \A o \in OrderIds : RowsOf(EmptyFile, o) = {}
  BY <1>1 DEF RowsOf
<1>3. SumQty({}) = 0
  BY SumEmpty DEF SumQty, SumFunction
<1>4. FileInv(EmptyFile)
  BY <1>1, <1>2, <1>3 DEF FileInv, Exact, Known, Timely, NoOrder, Working
<1> QED
  BY <1>1, <1>4 DEF Init, AbreastInv, EmptyBook

LEMMA AbreastHolds == Spec /\ NoCallFails => []AbreastInv
<1>1. Inv /\ Inv' /\ EventsInv /\ AbreastInv /\ LedgerInv /\ [Next]_vars /\ [~CallFails]_vars
        => AbreastInv'
  BY StepAbreast
<1> QED
  BY <1>1, InitAbreast, InvHolds, EventsHold, LedgerHolds, PTL DEF Spec, NoCallFails

\* As long as no call fails half-way, memory between calls is what reopening the
\* file would rebuild, and every order has traded exactly its fill rows: memory
\* and file only part where submit_order, feed or settle_delayed_orders raises
\* after the order manager or the market book has changed.
THEOREM MemoryFollows == Spec /\ NoCallFails => []MemoryMatchesFile
<1>1. Inv /\ AbreastInv => MemoryMatchesFile
  BY DEF Inv, TypeInv, Matchable, AbreastInv, FileInv, Exact, RowsOf, MemoryMatchesFile
<1> QED
  BY <1>1, InvHolds, AbreastHolds, PTL

\* As long as no call fails half-way, no order trades before its activation time,
\* reopened files and settles that are stamped before the last event included.
\* Without a delay the wall clock of a submission before the first quote is the
\* exception: such an order is active at once, whatever its time says.
THEOREM ActiveBeforeFill ==
  ASSUME NoEarlyClock
  PROVE  Spec /\ NoCallFails => []NoFillBeforeActive
<1>1. AbreastInv => NoFillBeforeActive
  BY DEF AbreastInv, FileInv, Timely, InTime, NoFillBeforeActive
<1> QED
  BY <1>1, AbreastHolds, PTL

----------------------------------------------------------------------------
(* A market event settles the cancels that are pending *)

LEMMA MatchSettles ==
  ASSUME Inv, AbreastInv, PendingInv, NEW o \in OrderIds, Match(o), ~CallFails, ~LeftOver(o),
         pc = "feed", work'.orders[o].status = "CANCEL_PENDING", mem' = work'.orders
  PROVE  FALSE
<1>1. Step(o) /\ IsNext(o) /\ o \in todo
  BY MatchSteps
<1>2. mem[o] \in Order /\ mem = work.orders /\ mem \in [OrderIds -> Order \cup {NoOrder}]
  BY <1>1, RestIsNat DEF Inv, TypeInv, TypeOK, AbreastInv
<1>3. CASE Skips(o)
  <2>1. mem[o].status = "CANCEL_PENDING"
    BY <1>2, <1>3 DEF Skips
  <2>2. ~AlreadyFilled(o)
    BY <1>1 DEF AbreastInv, AlreadyFilled
  <2>3. Answer(o) = "close" => OrderSpec[o].type = "MARKET"
    BY DEF Answer
  <2> QED
    BY <1>1, <1>3, <2>1, <2>2, <2>3 DEF Skips, LeftOver
<1>4. ASSUME NEW order, Closes(o, order) PROVE FALSE
  BY <1>2, <1>4 DEF Closes, Put, Terminal
<1>5. ASSUME NEW n \in Fillable(o), Trades(o, n) PROVE FALSE
  <2>1. mem'[o] = Filled(o, n)
    BY <1>2, <1>5 DEF Trades
  <2>2. AfterFill(mem[o], n).status = "CANCEL_PENDING" =>
          AfterConfirmCancel(AfterFill(mem[o], n)).status = "CANCELLED"
    BY <1>2 DEF AfterConfirmCancel, AfterFill, MoveTo, Order
  <2>3. Filled(o, n).status # "CANCEL_PENDING"
    BY <2>2 DEF Filled
  <2> QED
    BY <2>1, <2>3
<1> QED
  BY <1>3, <1>4, <1>5, MatchSteps

LEMMA StepPending ==
  ASSUME Inv, AbreastInv, AbreastInv', PendingInv, [Next]_vars, [~CallFails]_vars,
         \A o \in OrderIds : ~LeftOver(o)
  PROVE  PendingInv'
<1>1. ASSUME NEW o \in OrderIds, Submit(o) PROVE PendingInv'
  BY <1>1 DEF Submit, Begin, PendingInv
<1>2. ASSUME NEW o \in OrderIds, NEW confirm \in Confirm, Cancel(o, confirm) PROVE PendingInv'
  BY <1>2 DEF Cancel, PendingInv
<1>3. ASSUME NEW e \in EventIds, NEW t \in 1..MaxTime, NEW snap \in Snapshots, Feed(e, t, snap)
      PROVE  PendingInv'
  <2>1. todo' = WorkingIn(mem') /\ mem' = work'.orders
    BY <1>3 DEF Feed, Begin, AbreastInv
  <2> QED
    BY <2>1 DEF PendingInv, WorkingIn, Working
<1>4. ASSUME NEW e \in SettleIds, Settle(e) PROVE PendingInv'
  BY <1>4 DEF Settle, Begin, PendingInv
<1>5. ASSUME NEW o \in OrderIds, Match(o), ~CallFails PROVE PendingInv'
  <2>1. Step(o) /\ o \in todo /\ work \in File
    BY <1>5, MatchSteps DEF Inv, TypeInv, TypeOK
  <2>2. mem' = work'.orders /\ mem = work.orders
    BY DEF AbreastInv
  <2>3. \A p \in OrderIds \ {o} : mem'[p] = mem[p]
    BY <1>5, <2>1, MatchSteps DEF Skips, Closes, Put, Trades, Inv, TypeInv, TypeOK
  <2>4. pc = "feed" => work'.orders[o].status # "CANCEL_PENDING"
    BY <1>5, <2>2, MatchSettles
  <2> QED
    BY <2>1, <2>2, <2>3, <2>4 DEF Step, PendingInv
<1>6. CASE Commit \/ Restart
  BY <1>6 DEF Commit, Restart, Close, PendingInv
<1>7. CASE UNCHANGED vars
  BY <1>7 DEF vars, PendingInv
<1>8. CASE Next /\ ~CallFails
  BY <1>1, <1>2, <1>3, <1>4, <1>5, <1>6, <1>8 DEF Next
<1> QED
  BY <1>7, <1>8

\* The market event that follows a cancel request settles it, as long as no call
\* fails half-way and no limit order is left over: one that traded in part and
\* can trade no more of its remainder stays pending (paper_broker.py:550 closes
\* only what never traded).
THEOREM CancelsSettled ==
  Spec /\ NoCallFails /\ [](\A o \in OrderIds : ~LeftOver(o)) => EventSettlesCancel
<1>1. Init => PendingInv
  BY DEF Init, PendingInv
<1>2. Inv /\ AbreastInv /\ AbreastInv' /\ PendingInv /\ [Next]_vars /\ [~CallFails]_vars
        /\ (\A o \in OrderIds : ~LeftOver(o)) => PendingInv'
  BY StepPending
<1>3. ASSUME Inv, PendingInv, [Next]_vars, pc = "feed", db' # db,
             NEW o \in OrderIds, db.orders[o].status = "CANCEL_PENDING"
      PROVE  db'.orders[o].status \in Terminal
  <2>1. Commit
    BY <1>3 DEF Next, vars, Submit, Cancel, Feed, Settle, Match, MatchFill, MatchClose,
                MatchWait, Step, Rollback, Restart, Begin
  <2>2. FileAhead
    BY <1>3, StepInv
  <2>3. db' = work /\ todo = {}
    BY <2>1 DEF Commit
  <2>4. db'.orders[o].status # "CANCEL_PENDING"
    BY <1>3, <2>3 DEF PendingInv
  <2> QED
    BY <1>3, <2>2, <2>4 DEF FileAhead, Ahead, Onward, Later, Terminal, NoOrder
<1>4. Inv /\ PendingInv /\ [Next]_vars =>
        [pc = "feed" /\ db' # db =>
           \A o \in OrderIds : db.orders[o].status = "CANCEL_PENDING"
                                 => db'.orders[o].status \in Terminal]_vars
  BY <1>3
<1> QED
  BY <1>1, <1>2, <1>4, InvHolds, AbreastHolds, PTL DEF Spec, NoCallFails, EventSettlesCancel

----------------------------------------------------------------------------
(* What is taken from the depth of a quote *)

\* Quotes are used by the event that brought them: every snapshot quotes every
\* symbol, an event id names one snapshot, and nothing settles.
WholeSnapshots == \A snap \in Snapshots : DOMAIN snap = Symbols
FedAs(Shows) ==
  [][\A e \in EventIds, t \in 1..MaxTime, snap \in Snapshots :
       Feed(e, t, snap) => snap = Shows[e]]_vars
NoSettle == [][\A e \in SettleIds : ~Settle(e)]_vars

\* A quote is the one its event shows, and all quotes are of one event.
Shown(rows, Shows) ==
  \A s \in Symbols :
    /\ rows[s] # NoRow => rows[s].quote = Shows[rows[s].event][s]
    /\ \A r \in Symbols : rows[r].event = rows[s].event

\* What the account of o took at event e from the side of the quote o trades on.
Taken(file, e, o) == {f \in file.fills : f.event = e /\ SameSide(f.order, o)}
Fits(file, Shows) ==
  \A e \in EventIds, o \in OrderIds :
    LET size == Size(Shows[e][OrderSpec[o].symbol], OrderSpec[o].side)
    IN  size = NoSize \/ SumQty(Taken(file, e, o)) <= size

DepthInv(Shows) ==
  /\ Shown(db.rows, Shows) /\ Shown(work.rows, Shows) /\ Shown(book.rows, Shows)
  /\ \A s \in Symbols : book.rows[s].event = book.event
  /\ \A f \in db.fills \cup work.fills : f.quoted = f.event
  /\ Fits(db, Shows) /\ Fits(work, Shows)
  /\ todo # {} => cur.event = book.event

\* A fill takes no more than the depth leaves.
LEMMA FillFits ==
  ASSUME Inv, IsFiniteSet(work.fills), WholeSnapshots,
         NEW Shows \in [EventIds -> Snapshots], DepthInv(Shows),
         NEW o \in todo, NEW n \in Fillable(o), Fills(o, n)
  PROVE  Fits(work', Shows) /\ \A f \in work'.fills : f.quoted = f.event
<1> DEFINE s    == OrderSpec[o].symbol
           side == OrderSpec[o].side
           row  == FillRow(o, n, ExecPrice(side, Raw(o)))
<1>1. /\ o \in OrderIds /\ n \in Nat \ {0} /\ s \in Symbols /\ side \in {"BUY", "SELL"}
      /\ row \notin work.fills /\ work'.fills = work.fills \cup {row}
  BY FillWrites, SpecAssumption
<1>2. /\ row.order = o /\ row.qty = n /\ row.event = cur.event /\ row.quoted = book.rows[s].event
      /\ cur.event = book.event /\ book.rows[s].event = book.event
      /\ Quote(o) = Shows[cur.event][s] /\ cur.event \in EventIds
  <2>1. book.rows[s] # NoRow /\ book.rows[s].event \in EventIds
    BY <1>1, FillAnswer DEF Fills, Answer, Inv
  <2> QED
    BY <1>1, <2>1 DEF FillRow, DepthInv, Shown, Quote
<1> HIDE DEF row
<1>3. work \in File
  BY DEF Inv, TypeInv, TypeOK
<1>4. \A f \in work'.fills : f.quoted = f.event
  BY <1>1, <1>2 DEF DepthInv
<1>5. ASSUME NEW e \in EventIds, NEW p \in OrderIds,
             Size(Shows[e][OrderSpec[p].symbol], OrderSpec[p].side) # NoSize
      PROVE  SumQty(Taken(work', e, p)) <= Size(Shows[e][OrderSpec[p].symbol], OrderSpec[p].side)
  <2> DEFINE size == Size(Shows[e][OrderSpec[p].symbol], OrderSpec[p].side)
  <2>1. SumQty(Taken(work, e, p)) <= size
    BY <1>5 DEF DepthInv, Fits
  <2>2. CASE e # cur.event \/ ~SameSide(o, p)
    <3>1. Taken(work', e, p) = Taken(work, e, p)
      BY <1>1, <1>2, <2>2 DEF Taken
    <3> QED
      BY <2>1, <3>1
  <2>3. CASE e = cur.event /\ SameSide(o, p)
    <3>1. /\ Taken(work', e, p) = Taken(work, e, p) \cup {row}
          /\ Taken(work, e, p) \in SUBSET work.fills
      BY <1>1, <1>2, <2>3 DEF Taken
    <3>2. SumQty(Taken(work', e, p)) = SumQty(Taken(work, e, p)) + n
          /\ SumQty(Taken(work, e, p)) \in Int
      BY <1>1, <1>2, <1>3, <3>1, QtyGrows
    <3>3. Taken(work, e, p) = {f \in work.fills : f.event = cur.event /\ SameSide(f.order, o)}
      BY <2>3 DEF Taken, SameSide
    <3>4. SumQty(Taken(work, e, p)) = Consumed(o)
      BY <3>3 DEF Consumed
    <3>5. size = Size(Quote(o), side)
      BY <1>2, <2>3 DEF SameSide
    <3>6. n + Consumed(o) <= size
      BY <1>5, <3>5 DEF Fillable, WithinDepth
    <3> HIDE DEF size
    <3>7. SumQty(Taken(work', e, p)) <= size
      BY <1>1, <3>2, <3>4, <3>6
    <3> QED
      BY <3>7 DEF size
  <2> QED
    BY <2>2, <2>3
<1> QED
  BY <1>4, <1>5 DEF Fits

LEMMA FeedDepth ==
  ASSUME Inv, WholeSnapshots, NEW Shows \in [EventIds -> Snapshots], DepthInv(Shows),
         NEW e \in EventIds, NEW t \in 1..MaxTime, Feed(e, t, Shows[e])
  PROVE  DepthInv(Shows)'
<1>1. /\ book' = BookWith(e, t, Shows[e]) /\ db' = db /\ db \in File
      /\ work' = Stored([db EXCEPT !.events[e] = t, !.rows = Fed(db.rows, e, Shows[e])], t)
      /\ cur' = [event |-> e, time |-> t]
  BY DEF Feed, Begin, Inv, TypeInv, TypeOK
<1>2. /\ work'.fills = db.fills /\ work'.rows = Fed(db.rows, e, Shows[e])
      /\ book'.rows = Fed(book.rows, e, Shows[e]) /\ book'.event = e /\ cur'.event = e
  BY <1>1 DEF Stored, BookWith, File
<1>3. ASSUME NEW rows PROVE /\ Shown(Fed(rows, e, Shows[e]), Shows)
                            /\ \A s \in Symbols : Fed(rows, e, Shows[e])[s].event = e
  <2> DEFINE new == Fed(rows, e, Shows[e])
  <2>1. Shows[e] \in Snapshots
    OBVIOUS
  <2>2. \A s \in Symbols : new[s].event = e /\ new[s].quote = Shows[e][s]
    BY <2>1 DEF Fed, WholeSnapshots
  <2> HIDE DEF new
  <2>3. Shown(new, Shows)
    BY <2>2 DEF Shown
  <2> QED
    BY <2>2, <2>3 DEF new
<1>4. Fits(work', Shows)
  BY <1>2 DEF DepthInv, Fits, Taken
<1> QED
  BY <1>1, <1>2, <1>3, <1>4 DEF DepthInv

LEMMA RestartDepth ==
  ASSUME Inv, NEW Shows, DepthInv(Shows), Restart
  PROVE  DepthInv(Shows)'
<1>1. PICK s \in Symbols :
        /\ db.rows[s] # NoRow \/ db.rows = EmptyFile.rows
        /\ book' = IF db.rows[s] = NoRow THEN EmptyBook
                   ELSE [event |-> db.rows[s].event,
                         time |-> db.events[db.rows[s].event], rows |-> db.rows]
  BY DEF Restart
<1>2. db' = db /\ work' = db /\ todo' = {}
  BY DEF Restart, Close
<1>3. book'.rows = db.rows /\ \A r \in Symbols : book'.rows[r].event = book'.event
  <2>1. CASE db.rows[s] = NoRow
    BY <1>1, <2>1 DEF EmptyBook, EmptyFile, NoRow
  <2>2. CASE db.rows[s] # NoRow
    BY <1>1, <2>2 DEF DepthInv, Shown
  <2> QED
    BY <2>1, <2>2
<1> QED
  BY <1>2, <1>3 DEF DepthInv

LEMMA MatchDepth ==
  ASSUME Inv, IsFiniteSet(work.fills), WholeSnapshots,
         NEW Shows \in [EventIds -> Snapshots], DepthInv(Shows), NEW o \in OrderIds, Match(o)
  PROVE  DepthInv(Shows)'
<1>1. work \in File
  BY DEF Inv, TypeInv, TypeOK
<1>2. CASE Rollback
  BY <1>2 DEF Rollback, Close, DepthInv
<1>3. CASE ~Rollback
  <2>1. Step(o) /\ o \in todo /\ db' = db /\ book' = book /\ cur' = cur
    BY <1>3, MatchWrites DEF Step
  <2>2. work'.rows = work.rows
    <3>1. \A order : Put(o, order) => work'.rows = work.rows
      BY <1>1 DEF Put, File
    <3>2. \A n, price : work' = RecordFill(o, n, price) => work'.rows = work.rows
      BY <1>1 DEF RecordFill, File
    <3>3. CASE MatchFill(o)
      BY <1>3, <3>2, <3>3 DEF MatchFill
    <3>4. CASE MatchClose(o) \/ MatchWait(o)
      BY <1>3, <3>1, <3>4 DEF MatchClose, MatchWait
    <3> QED
      BY <3>3, <3>4 DEF Match
  <2>3. Fits(work', Shows) /\ \A f \in work'.fills : f.quoted = f.event
    <3>1. CASE SameRows(work', work)
      BY <3>1 DEF SameRows, DepthInv, Fits, Taken
    <3>2. CASE \E n \in Fillable(o) : Fills(o, n)
      BY <2>1, <3>2, FillFits
    <3> QED
      BY <1>3, <3>1, <3>2, MatchWrites
  <2> QED
    BY <2>1, <2>2, <2>3 DEF DepthInv, Step, Fits, Taken, Shown
<1> QED
  BY <1>2, <1>3

LEMMA StepDepth ==
  ASSUME Inv, LedgerInv, WholeSnapshots, NEW Shows \in [EventIds -> Snapshots], DepthInv(Shows),
         [Next]_vars, [\A e \in SettleIds : ~Settle(e)]_vars,
         [\A e \in EventIds, t \in 1..MaxTime, snap \in Snapshots :
            Feed(e, t, snap) => snap = Shows[e]]_vars
  PROVE  DepthInv(Shows)'
<1>0. db \in File
  BY DEF Inv, TypeInv, TypeOK
<1>1. ASSUME NEW o \in OrderIds, Submit(o) PROVE DepthInv(Shows)'
  <2>1. /\ db' = db /\ book' = book /\ work'.fills = db.fills /\ work'.rows = db.rows
        /\ todo' # {} => cur'.event = book.event
    BY <1>0, <1>1 DEF Submit, Begin, File
  <2> QED
    BY <2>1 DEF DepthInv, Fits, Taken
<1>2. ASSUME NEW o \in OrderIds, NEW confirm \in Confirm, Cancel(o, confirm)
      PROVE  DepthInv(Shows)'
  <2>1. /\ db'.fills = db.fills /\ db'.rows = db.rows /\ work' = db' /\ book' = book
        /\ todo' = todo /\ cur' = cur
    BY <1>0, <1>2 DEF Cancel, File
  <2> QED
    BY <2>1 DEF DepthInv, Fits, Taken
<1>3. ASSUME NEW e \in EventIds, NEW t \in 1..MaxTime, NEW snap \in Snapshots, Feed(e, t, snap),
             snap = Shows[e]
      PROVE  DepthInv(Shows)'
  BY <1>3, FeedDepth
<1>4. ASSUME NEW o \in OrderIds, Match(o) PROVE DepthInv(Shows)'
  BY <1>4, MatchDepth DEF LedgerInv
<1>5. CASE Commit
  BY <1>5 DEF Commit, Close, DepthInv
<1>6. CASE Restart
  BY <1>6, RestartDepth
<1>7. CASE UNCHANGED vars
  BY <1>7 DEF vars, DepthInv, Fits, Taken
<1>8. CASE ~UNCHANGED vars
  BY <1>1, <1>2, <1>3, <1>4, <1>5, <1>6, <1>8 DEF Next
<1> QED
  BY <1>7, <1>8

LEMMA InitDepth ==
  ASSUME WholeSnapshots, NEW Shows \in [EventIds -> Snapshots], Init
  PROVE  DepthInv(Shows)
<1>1. db.fills = {} /\ work = db /\ db.rows = [s \in Symbols |-> NoRow] /\ book = EmptyBook /\ todo = {}
  BY DEF Init, EmptyFile
<1>2. SumQty({}) = 0
  BY SumEmpty DEF SumQty, SumFunction
<1>3. ASSUME NEW e \in EventIds, NEW o \in OrderIds
      PROVE  LET size == Size(Shows[e][OrderSpec[o].symbol], OrderSpec[o].side)
             IN  size = NoSize \/ 0 <= size
  <2>1. Shows[e][OrderSpec[o].symbol] \in
          [ask : Nat, bid : Nat, last : Nat,
           askSize : Nat \cup {NoSize}, bidSize : Nat \cup {NoSize}]
    BY MarketAssumption, SpecAssumption DEF WholeSnapshots
  <2> QED
    BY <2>1 DEF Size
<1>4. \A e, o : Taken(db, e, o) = {}
  BY <1>1 DEF Taken
<1>5. Fits(db, Shows)
  BY <1>2, <1>3, <1>4 DEF Fits
<1> QED
  BY <1>1, <1>5 DEF DepthInv, Shown, EmptyBook, NoRow

\* The orders of one account never take more from a side of a quote than the size
\* it showed, across orders, submissions between events, failed calls and
\* restarts, as long as the quotes an event is matched at are its own: the code
\* counts per event what was taken (paper_broker.py:434), so a quote that a later
\* event or a settle finds still standing offers its size again.
THEOREM DepthRespected ==
  ASSUME WholeSnapshots, NEW Shows \in [EventIds -> Snapshots]
  PROVE  Spec /\ NoSettle /\ FedAs(Shows) => []QuoteDepthRespected
<1>1. Init => DepthInv(Shows)
  BY InitDepth
<1>2. Inv /\ LedgerInv /\ DepthInv(Shows) /\ [Next]_vars /\ [\A e \in SettleIds : ~Settle(e)]_vars
        /\ [\A e \in EventIds, t \in 1..MaxTime, snap \in Snapshots :
              Feed(e, t, snap) => snap = Shows[e]]_vars
        => DepthInv(Shows)'
  BY StepDepth
<1>3. ASSUME Inv, DepthInv(Shows) PROVE QuoteDepthRespected
  <2> SUFFICES ASSUME NEW o \in OrderIds, db.rows[OrderSpec[o].symbol] # NoRow
               PROVE  LET row  == db.rows[OrderSpec[o].symbol]
                          size == Size(row.quote, OrderSpec[o].side)
                      IN  size # NoSize =>
                            SumQty({f \in db.fills : f.quoted = row.event /\ SameSide(f.order, o)})
                              <= size
    BY DEF QuoteDepthRespected
  <2> DEFINE row == db.rows[OrderSpec[o].symbol]
  <2>1. OrderSpec[o].symbol \in Symbols
    BY SpecAssumption
  <2>2. row.event \in EventIds /\ row.quote = Shows[row.event][OrderSpec[o].symbol]
    BY <1>3, <2>1 DEF Inv, TypeInv, TypeOK, File, Rows, DepthInv, Shown
  <2>3. {f \in db.fills : f.quoted = row.event /\ SameSide(f.order, o)} = Taken(db, row.event, o)
    BY <1>3 DEF Taken, DepthInv
  <2> QED
    BY <1>3, <2>2, <2>3 DEF DepthInv, Fits
<1> QED
  BY <1>1, <1>2, <1>3, InvHolds, LedgerHolds, PTL DEF Spec, NoSettle, FedAs
====
