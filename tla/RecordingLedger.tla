---- MODULE RecordingLedger ----
(***************************************************************************)
(* The account book of the recording gateway (gateway.py, _RecordingLedger *)
(* behind RecordingOrderGateway): submit queues an accepted order, nothing *)
(* trades until release_fills goes through the queue and fills every order *)
(* it has a price for, in full and at that price.  It keeps everything in  *)
(* memory.                                                                 *)
(*                                                                         *)
(* One order of a release is one step: queue is the copy of the pending    *)
(* list that release_fills walks, waiting the orders it found no price     *)
(* for.  RecordingSession says when a release starts and who calls what.   *)
(***************************************************************************)
EXTENDS Integers, Sequences, FiniteSets, OrderRules

CONSTANTS
  Symbols,
  OrderIds,    \* ids in the order submissions would get them
  OrderSpec,   \* [OrderIds -> [symbol, side, qty, limit]]; limit 0: no limit price
  Snapshots,   \* snapshots: functions from some of the symbols to last prices, 0: none
  InitialCash,
  AllowShort

ASSUME OrdersAssumption ==
  OrderSpec \in [OrderIds -> [symbol : Symbols, side : {"BUY", "SELL"},
                              qty : Nat \ {0}, limit : Nat]]
ASSUME SnapshotsAssumption ==
  \A snap \in Snapshots : DOMAIN snap \subseteq Symbols /\ \A s \in DOMAIN snap : snap[s] \in Nat
ASSUME AccountAssumption == InitialCash \in Int /\ AllowShort \in BOOLEAN

VARIABLES
  orders,   \* _orders: the order of each id that was submitted
  pending,  \* _pending
  queue,    \* the copy of _pending a release still has to walk
  waiting,  \* still_waiting of that release
  fills,    \* _fills, oldest first
  cash,     \* _account.cash
  lots,     \* quantities of _lots
  last      \* _last; 0 is None
ledger == <<orders, pending, queue, waiting, fills, cash, lots, last>>

NoOrder == [status |-> "NONE", filled |-> 0, qty |-> 0]

LedgerInit ==
  /\ orders = [o \in OrderIds |-> NoOrder]
  /\ pending = <<>> /\ queue = <<>> /\ waiting = <<>>
  /\ fills = <<>>
  /\ cash = InitialCash
  /\ lots = [s \in Symbols |-> 0]
  /\ last = [s \in Symbols |-> 0]

\* note_market: a quote without a positive last price leaves the symbol as it is.
NoteMarket(snap) ==
  /\ last' = [s \in Symbols |->
                IF s \in DOMAIN snap /\ snap[s] > 0 THEN snap[s] ELSE last[s]]
  /\ UNCHANGED <<orders, fills, cash, lots>>

RecordSubmit(o) ==
  /\ orders[o] = NoOrder
  /\ orders' = [orders EXCEPT ![o] = [status |-> "ACCEPTED", filled |-> 0, qty |-> OrderSpec[o].qty]]
  /\ pending' = Append(pending, o)
  /\ UNCHANGED <<queue, waiting, fills, cash, lots, last>>

\* A queue without one of its orders.
Without(seq, o) ==
  LET kept[i \in 0..Len(seq)] ==
        IF i = 0 THEN <<>>
        ELSE IF seq[i] = o THEN kept[i - 1] ELSE Append(kept[i - 1], seq[i])
  IN  kept[Len(seq)]

Cancellable(o) == orders[o].status = "ACCEPTED"
\* cancel: only an accepted order changes; another one is returned as it is.
RecordCancel(o) ==
  /\ orders[o] # NoOrder
  /\ IF Cancellable(o)
     THEN /\ orders' = [orders EXCEPT ![o] = MoveTo(@, "CANCELLED")]
          /\ pending' = Without(pending, o)
     ELSE UNCHANGED <<orders, pending>>
  /\ UNCHANGED <<queue, waiting, fills, cash, lots, last>>

----------------------------------------------------------------------------
(* release_fills *)

BeginRelease == queue' = pending /\ pending' = <<>> /\ waiting' = <<>>

\* The last price seen, else the order's limit.
Priced(o) ==
  LET price == last[OrderSpec[o].symbol]
  IN  IF price > 0 THEN price ELSE OrderSpec[o].limit
CanPrice(o) == Priced(o) > 0

Signed(o) == IF OrderSpec[o].side = "BUY" THEN OrderSpec[o].qty ELSE -OrderSpec[o].qty

\* Mutant: the position is not checked.
ShortRejectedNever(o) == FALSE
ShortRejected(o) ==
  /\ OrderSpec[o].side = "SELL" /\ ~AllowShort
  /\ lots[OrderSpec[o].symbol] + Signed(o) < 0

\* Mutant: a position is moved, its cost is not paid.
ApplyFillFree(o) ==
  /\ orders' = [orders EXCEPT ![o] = AfterFill(@, OrderSpec[o].qty)]
  /\ fills' = Append(fills, [order |-> o, price |-> Priced(o)])
  /\ lots' = [lots EXCEPT ![OrderSpec[o].symbol] = @ + Signed(o)]
  /\ UNCHANGED cash
\* The whole order at the one price; cash is not checked and no fee is taken.
ApplyFill(o) ==
  /\ orders' = [orders EXCEPT ![o] = AfterFill(@, OrderSpec[o].qty)]
  /\ fills' = Append(fills, [order |-> o, price |-> Priced(o)])
  /\ lots' = [lots EXCEPT ![OrderSpec[o].symbol] = @ + Signed(o)]
  /\ cash' = cash - Signed(o) * Priced(o)

\* Mutant: an order without a price is dropped from the queue.
KeepWaitingNot(o) == UNCHANGED <<orders, fills, lots, cash, waiting>>
KeepWaiting(o) == waiting' = Append(waiting, o) /\ UNCHANGED <<orders, fills, lots, cash>>

ReleaseNext ==
  LET o == Head(queue)
  IN  /\ queue # <<>> /\ queue' = Tail(queue)
      /\ IF orders[o].status # "ACCEPTED"
         THEN UNCHANGED <<orders, fills, lots, cash, waiting>>
         ELSE IF ~CanPrice(o) THEN KeepWaiting(o)
         ELSE IF ShortRejected(o)
         THEN /\ orders' = [orders EXCEPT ![o] = AfterReject(@)]
              /\ UNCHANGED <<fills, lots, cash, waiting>>
         ELSE ApplyFill(o) /\ UNCHANGED waiting
      /\ UNCHANGED <<pending, last>>

EndRelease ==
  /\ queue = <<>>
  /\ pending' = pending \o waiting /\ waiting' = <<>>
  /\ UNCHANGED <<orders, queue, fills, cash, lots, last>>
====
