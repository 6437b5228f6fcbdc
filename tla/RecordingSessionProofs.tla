---- MODULE RecordingSessionProofs ----
(***************************************************************************)
(* The recording gateway's run, for every set of symbols, orders and       *)
(* snapshots: its types, that fills are told once and in order, that the   *)
(* strategy decides on its account as it is, that nothing is ever sold     *)
(* short without permission, that every accepted order is queued once, and *)
(* that the ledger is its fills added up.                                  *)
(***************************************************************************)
EXTENDS RecordingSession, BookLemmas

\* What the gateway makes of an order.
RecordedOrder(o) ==
  /\ orders[o] \in AnOrder
  /\ orders[o].qty = OrderSpec[o].qty
  /\ orders[o].status \in {"ACCEPTED", "FILLED", "CANCELLED", "REJECTED"}
  /\ orders[o].filled = IF orders[o].status = "FILLED" THEN orders[o].qty ELSE 0

\* An order is in the queue because it was submitted, and the queue is divided
\* between a release and the calls of the strategy.
QueueInv ==
  /\ \A o \in OrderIds : orders[o] # NoOrder => RecordedOrder(o)
  /\ pc # "release" => queue = <<>> /\ waiting = <<>>
  /\ pc = "release" => pending = <<>>

TypeInv == TypeOK /\ QueueInv

----------------------------------------------------------------------------
(* Types *)

LEMMA SpecTyped ==
  ASSUME NEW o \in OrderIds
  PROVE  /\ OrderSpec[o].symbol \in Symbols /\ OrderSpec[o].side \in {"BUY", "SELL"}
         /\ OrderSpec[o].qty \in Nat \ {0} /\ OrderSpec[o].limit \in Nat
         /\ Signed(o) \in Int
  BY OrdersAssumption DEF Signed

LEMMA InitTyped == Init => TypeInv
<1> SUFFICES ASSUME Init PROVE TypeInv
  OBVIOUS
<1>1. fills = <<>> /\ Len(fills) = 0 /\ seen = {} /\ todo = {} /\ told = <<>>
  BY DEF Init, LedgerInit
<1> QED
  BY <1>1, AccountAssumption, EventsAssumption
     DEF Init, LedgerInit, TypeInv, TypeOK, QueueInv, NoOrder, NoPortfolio, Callbacks

\* A queue without one of its orders keeps the others, each once.
LEMMA WithoutKeeps ==
  ASSUME NEW S, NEW q \in Seq(S), NEW x
  PROVE  /\ Without(q, x) \in Seq(S)
         /\ Range(Without(q, x)) = Range(q) \ {x}
         /\ IsInjective(q) => IsInjective(Without(q, x))
<1> DEFINE n == Len(q)
           Step(i, rest) == IF q[i] = x THEN rest ELSE Append(rest, q[i])
           Kept(f) == f = [i \in 0..n |-> IF i = 0 THEN <<>> ELSE Step(i, f[i - 1])]
           f == CHOOSE g : Kept(g)
<1>1. n \in Nat /\ DOMAIN q = 1..n /\ \A i \in 1..n : q[i] \in S
  OBVIOUS
<1>2. \E g : Kept(g)
  <2> DEFINE step == [i \in 1..n |-> [rest \in Seq(S) |-> Step(i, rest)]]
  <2>1. step \in [1..n -> [Seq(S) -> Seq(S)]] /\ <<>> \in Seq(S)
    BY <1>1
  <2>2. \E g \in [0..n -> Seq(S)] : g[0] = <<>> /\ \A i \in 1..n : g[i] = step[i][g[i - 1]]
    <3> DEFINE T == Seq(S)
    <3>1. step \in [1..n -> [T -> T]] /\ <<>> \in T /\ n \in Nat
      BY <1>1, <2>1
    <3>2. \E g \in [0..n -> T] : g[0] = <<>> /\ \A i \in 1..n : g[i] = step[i][g[i - 1]]
      <4> HIDE DEF step, n, T
      <4> QED
        BY <3>1, WalkExists
    <3> QED
      BY <3>2
  <2>3. PICK g \in [0..n -> Seq(S)] : g[0] = <<>> /\ \A i \in 1..n : g[i] = step[i][g[i - 1]]
    BY <2>2
  <2>4. ASSUME NEW i \in 0..n, i # 0 PROVE g[i] = Step(i, g[i - 1])
    <3>1. i \in 1..n /\ i - 1 \in 0..n
      BY <1>1, <2>4
    <3>2. g[i - 1] \in Seq(S)
      BY <3>1
    <3>3. step[i][g[i - 1]] = Step(i, g[i - 1])
      BY <3>1, <3>2
    <3> QED
      BY <2>3, <3>1, <3>3
  <2>5. g = [i \in 0..n |-> g[i]]
    OBVIOUS
  <2> HIDE DEF Step
  <2> QED
    BY <2>3, <2>4, <2>5
<1>3. Kept(f)
  <2> HIDE DEF Kept
  <2> QED
    BY <1>2
<1>4. Without(q, x) = f[n]
  BY DEF Without
<1> HIDE DEF f
<1> DEFINE Good == {i \in 0..n : /\ f[i] \in Seq(S)
                                 /\ \A y : y \in Range(f[i]) <=> y # x /\ \E j \in 1..i : q[j] = y
                                 /\ IsInjective(q) => IsInjective(f[i])}
<1>5. 0 \in Good
  <2>1. f[0] = <<>> /\ <<>> \in Seq(S) /\ DOMAIN <<>> = {}
    BY <1>1, <1>3
  <2>2. 0 \in 0..n /\ Range(<<>>) = {} /\ IsInjective(<<>>) /\ 1..0 = {}
    BY <1>1, <2>1 DEF Range, IsInjective
  <2> QED
    BY <2>1, <2>2
<1>6. ASSUME NEW i \in 0..(n - 1), i \in Good PROVE i + 1 \in Good
  <2>1. f[i + 1] = IF q[i + 1] = x THEN f[i] ELSE Append(f[i], q[i + 1])
    <3>1. i + 1 \in 0..n /\ i + 1 # 0 /\ (i + 1) - 1 = i
      BY <1>1
    <3>2. \A j \in 0..n : j # 0 => f[j] = Step(j, f[j - 1])
      BY <1>3
    <3>3. f[i + 1] = Step(i + 1, f[i])
      <4> HIDE DEF Step
      <4> QED
        BY <3>1, <3>2
    <3> QED
      BY <3>3
  <2>2. \A j \in 1..(i + 1) : j \in 1..i \/ j = i + 1
    BY <1>1
  <2>3. i + 1 \in 1..n /\ i + 1 \in 1..(i + 1) /\ \A j \in 1..i : j \in 1..(i + 1)
    BY <1>1
  <2>4. CASE q[i + 1] = x
    BY <1>1, <1>6, <2>1, <2>2, <2>3, <2>4
  <2>5. CASE q[i + 1] # x
    <3>1. f[i + 1] = Append(f[i], q[i + 1]) /\ f[i] \in Seq(S) /\ q[i + 1] \in S
      BY <1>1, <1>6, <2>1, <2>3, <2>5
    <3> DEFINE r == f[i]
    <3>2. Range(f[i + 1]) = Range(f[i]) \cup {q[i + 1]} /\ f[i + 1] \in Seq(S)
      <4> HIDE DEF r
      <4>1. /\ Append(r, q[i + 1]) \in Seq(S) /\ r \in Seq(S)
            /\ DOMAIN Append(r, q[i + 1]) = 1..(Len(r) + 1) /\ DOMAIN r = 1..Len(r)
            /\ Len(r) \in Nat
            /\ \A j \in 1..Len(r) : Append(r, q[i + 1])[j] = r[j]
            /\ Append(r, q[i + 1])[Len(r) + 1] = q[i + 1]
        BY <3>1 DEF r
      <4>2. \A j \in 1..(Len(r) + 1) : j \in 1..Len(r) \/ j = Len(r) + 1
        BY <4>1
      <4>3. \A j \in 1..Len(r) : j \in 1..(Len(r) + 1)
        BY <4>1
      <4>4. Len(r) + 1 \in 1..(Len(r) + 1)
        BY <4>1
      <4>5. Range(Append(r, q[i + 1])) = Range(r) \cup {q[i + 1]}
        BY <4>1, <4>2, <4>3, <4>4 DEF Range
      <4> QED
        BY <3>1, <4>1, <4>5 DEF r
    <3>3. ASSUME IsInjective(q) PROVE IsInjective(f[i + 1])
      <4>1. \A j \in 1..i : j \in 1..n /\ j # i + 1
        BY <1>1
      <4>2. q[i + 1] \notin Range(f[i])
        <5>1. \A j \in 1..i : q[j] # q[i + 1]
          BY <1>1, <2>3, <3>3, <4>1 DEF IsInjective
        <5> QED
          BY <1>6, <5>1
      <4>3. IsInjective(f[i])
        BY <1>6, <3>3
      <4> QED
        BY <3>1, <4>2, <4>3, AppendOnce
    <3>4. \A y : y \in Range(f[i + 1]) <=> y # x /\ \E j \in 1..(i + 1) : q[j] = y
      BY <1>6, <2>2, <2>3, <2>5, <3>2
    <3>5. i + 1 \in 0..n
      BY <1>1
    <3> QED
      BY <3>2, <3>3, <3>4, <3>5
  <2> QED
    BY <2>4, <2>5
<1>7. n \in Good
  <2> HIDE DEF Good, n
  <2>1. \A i \in 0..n : i \in Good
    BY <1>1, <1>5, <1>6, CountInduction
  <2> QED
    BY <1>1, <2>1
<1>8. \A y : y \in Range(q) <=> \E j \in 1..n : q[j] = y
  BY <1>1 DEF Range
<1>9. Range(f[n]) = Range(q) \ {x}
  BY <1>7, <1>8
<1> QED
  BY <1>4, <1>7, <1>9

LEMMA SubmitTyped ==
  ASSUME TypeInv, NEW o \in OrderIds, Submit(o)
  PROVE  TypeInv'
<1> DEFINE order == [status |-> "ACCEPTED", filled |-> 0, qty |-> OrderSpec[o].qty]
<1>1. order \in AnOrder
  BY SpecTyped DEF AnOrder, Statuses, Working
<1>2. orders' = [orders EXCEPT ![o] = order]
  BY DEF Submit, RecordSubmit
<1>3. pending' \in Seq(OrderIds)
  BY DEF TypeInv, TypeOK, Submit, RecordSubmit
<1>4. \A p \in OrderIds : orders'[p] = IF p = o THEN order ELSE orders[p]
  BY <1>2 DEF TypeInv, TypeOK
<1>5. TypeOK'
  BY <1>1, <1>2, <1>3 DEF TypeInv, TypeOK, Submit, RecordSubmit, NoPortfolio
<1>6. ASSUME NEW p \in OrderIds, orders'[p] # NoOrder PROVE RecordedOrder(p)'
  BY <1>1, <1>4, <1>6 DEF TypeInv, QueueInv, RecordedOrder
<1> QED
  BY <1>5, <1>6 DEF TypeInv, TypeOK, QueueInv, Submit, RecordSubmit, Callbacks

LEMMA LookTyped ==
  ASSUME TypeInv, Look
  PROVE  TypeInv'
<1>1. Portfolio \in [cash : Int, lots : [Symbols -> Int]]
  BY DEF Portfolio, TypeInv, TypeOK
<1> QED
  BY <1>1 DEF TypeInv, TypeOK, QueueInv, Look, ledger, RecordedOrder

LEMMA ProcessTyped ==
  ASSUME TypeInv, NEW snap \in Snapshots, Process(snap)
  PROVE  TypeInv'
<1>1. last' \in [Symbols -> Nat]
  BY SnapshotsAssumption DEF TypeInv, TypeOK, Process, NoteMarket
<1>2. event' \in 0..MaxEvents
  BY EventsAssumption DEF TypeInv, TypeOK, Process
<1> QED
  BY <1>1, <1>2 DEF TypeInv, TypeOK, QueueInv, RecordedOrder, Process, NoteMarket, BeginRelease,
                    SetMarket, NoPortfolio, Callbacks

\* A changed order of the gateway is an order still.
LEMMA MovedOrder ==
  ASSUME NEW r \in AnOrder, NEW st \in Statuses
  PROVE  /\ MoveTo(r, st) \in AnOrder /\ MoveTo(r, st) # NoOrder
         /\ MoveTo(r, st).status = st
         /\ MoveTo(r, st).filled = r.filled /\ MoveTo(r, st).qty = r.qty
  BY DEF AnOrder, MoveTo, NoOrder, Statuses, Working, Terminal

\* A fill of the whole order closes it.
LEMMA FilledOrder ==
  ASSUME TypeInv, NEW o \in OrderIds, orders[o].status = "ACCEPTED"
  PROVE  LET r == AfterFill(orders[o], OrderSpec[o].qty)
         IN  r \in AnOrder /\ r # NoOrder /\ r.status = "FILLED"
               /\ r.filled = r.qty /\ r.qty = OrderSpec[o].qty
<1> DEFINE a == orders[o]
           n == OrderSpec[o].qty
<1>1. a \in AnOrder /\ a.filled = 0 /\ a.qty = n /\ a.status = "ACCEPTED" /\ n \in Nat \ {0}
  BY SpecTyped DEF TypeInv, TypeOK, QueueInv, RecordedOrder, NoOrder
<1> HIDE DEF a, n
<1>2. StatusAfterFill(a, n) = "FILLED" /\ a.filled + n = n
  BY <1>1 DEF StatusAfterFill
<1>3. AfterFill(a, n) = [a EXCEPT !.filled = n, !.status = "FILLED"]
  BY <1>2 DEF AfterFill
<1>4. AfterFill(a, n) = [status |-> "FILLED", filled |-> n, qty |-> n]
  BY <1>1, <1>3 DEF AnOrder
<1>5. "FILLED" \in Statuses
  BY DEF Statuses, Terminal
<1>6. AfterFill(a, n) \in AnOrder /\ AfterFill(a, n) # NoOrder
  BY <1>1, <1>4, <1>5 DEF AnOrder, NoOrder
<1> QED
  BY <1>1, <1>4, <1>6 DEF a, n

LEMMA CancelTyped ==
  ASSUME TypeInv, NEW o \in OrderIds, Cancel(o)
  PROVE  TypeInv'
<1>1. CASE Cancellable(o)
  <2>1. /\ orders' = [orders EXCEPT ![o] = MoveTo(@, "CANCELLED")]
        /\ pending' = Without(pending, o)
    BY <1>1 DEF Cancel, RecordCancel
  <2>2. pending' \in Seq(OrderIds)
    BY <2>1, WithoutKeeps DEF TypeInv, TypeOK
  <2>3. orders[o] \in AnOrder /\ RecordedOrder(o) /\ "CANCELLED" \in Statuses
    BY <1>1 DEF TypeInv, TypeOK, QueueInv, Cancellable, NoOrder, Statuses, Terminal
  <2>4. \A p \in OrderIds :
          orders'[p] = IF p = o THEN MoveTo(orders[o], "CANCELLED") ELSE orders[p]
    BY <2>1 DEF TypeInv, TypeOK
  <2>5. orders' \in [OrderIds -> AnOrder \cup {NoOrder}]
    BY <2>1, <2>3, MovedOrder DEF TypeInv, TypeOK
  <2>6. TypeOK'
    BY <2>2, <2>5 DEF TypeInv, TypeOK, Cancel, RecordCancel, NoPortfolio
  <2>7. ASSUME NEW p \in OrderIds, orders'[p] # NoOrder PROVE RecordedOrder(p)'
    BY <1>1, <2>3, <2>4, <2>7, MovedOrder
       DEF TypeInv, QueueInv, RecordedOrder, Cancellable
  <2> QED
    BY <2>6, <2>7 DEF TypeInv, QueueInv, Cancel, RecordCancel, Callbacks
<1>2. CASE ~ Cancellable(o)
  BY <1>2 DEF Cancel, RecordCancel, TypeInv, TypeOK, QueueInv, RecordedOrder, NoPortfolio, Callbacks
<1> QED
  BY <1>1, <1>2

\* What one order of a release comes to: nothing, waiting, a rejection, a fill.
ReleasedClosed(o) == orders[o].status # "ACCEPTED" /\ UNCHANGED <<orders, fills, lots, cash, waiting>>
ReleasedWaits(o) == orders[o].status = "ACCEPTED" /\ KeepWaiting(o)
ReleasedRejected(o) ==
  /\ orders[o].status = "ACCEPTED" /\ ShortRejected(o)
  /\ orders' = [orders EXCEPT ![o] = AfterReject(@)]
  /\ UNCHANGED <<fills, lots, cash, waiting>>
ReleasedFilled(o) ==
  /\ orders[o].status = "ACCEPTED" /\ CanPrice(o) /\ ~ ShortRejected(o)
  /\ ApplyFill(o) /\ UNCHANGED waiting

LEMMA ReleaseCases ==
  ASSUME TypeInv, ReleaseStep
  PROVE  LET o == Head(queue)
         IN  /\ o \in OrderIds /\ queue # <<>> /\ queue' = Tail(queue)
             /\ pc = "release" /\ UNCHANGED <<pending, last, loop>>
             /\ ReleasedClosed(o) \/ ReleasedWaits(o) \/ ReleasedRejected(o) \/ ReleasedFilled(o)
<1>1. queue # <<>> /\ queue \in Seq(OrderIds)
  BY DEF ReleaseStep, ReleaseNext, TypeInv, TypeOK
<1>2. Head(queue) \in OrderIds
  BY <1>1
<1> QED
  BY <1>1, <1>2 DEF ReleaseStep, ReleaseNext, ReleasedClosed, ReleasedWaits, ReleasedRejected,
                    ReleasedFilled

\* A price that is asked for is a price.
LEMMA PricedTyped ==
  ASSUME TypeInv, NEW o \in OrderIds
  PROVE  Priced(o) \in Nat
  BY SpecTyped DEF TypeInv, TypeOK, Priced

LEMMA ReleaseTyped ==
  ASSUME TypeInv, ReleaseStep
  PROVE  TypeInv'
<1> DEFINE o == Head(queue)
<1>1. /\ o \in OrderIds /\ queue # <<>> /\ queue' = Tail(queue)
      /\ pc = "release" /\ UNCHANGED <<pending, last, loop>>
      /\ ReleasedClosed(o) \/ ReleasedWaits(o) \/ ReleasedRejected(o) \/ ReleasedFilled(o)
  BY ReleaseCases
<1> HIDE DEF o
<1>2. queue' \in Seq(OrderIds)
  BY <1>1 DEF TypeInv, TypeOK
<1>3. orders[o].status = "ACCEPTED" => orders[o] \in AnOrder /\ RecordedOrder(o)
  BY <1>1 DEF TypeInv, TypeOK, QueueInv, NoOrder
<1>4. CASE ReleasedClosed(o)
  BY <1>1, <1>2, <1>4
     DEF ReleasedClosed, TypeInv, TypeOK, QueueInv, RecordedOrder, loop, NoPortfolio
<1>5. CASE ReleasedWaits(o)
  <2>1. waiting' \in Seq(OrderIds)
    BY <1>1, <1>5 DEF ReleasedWaits, KeepWaiting, TypeInv, TypeOK
  <2> QED
    BY <1>1, <1>2, <1>5, <2>1
       DEF ReleasedWaits, KeepWaiting, TypeInv, TypeOK, QueueInv, RecordedOrder, loop, NoPortfolio
<1>6. CASE ReleasedRejected(o)
  <2>1. "REJECTED" \in Statuses
    BY DEF Statuses, Terminal
  <2>2. orders[o] \in AnOrder /\ RecordedOrder(o)
    BY <1>3, <1>6 DEF ReleasedRejected
  <2>3. orders' = [orders EXCEPT ![o] = MoveTo(@, "REJECTED")]
    BY <1>6 DEF ReleasedRejected, AfterReject
  <2>4. orders' \in [OrderIds -> AnOrder \cup {NoOrder}]
    BY <1>1, <2>1, <2>2, <2>3, MovedOrder DEF TypeInv, TypeOK
  <2>5. \A p \in OrderIds :
          orders'[p] = IF p = o THEN MoveTo(orders[o], "REJECTED") ELSE orders[p]
    BY <2>3 DEF TypeInv, TypeOK
  <2>6. ASSUME NEW p \in OrderIds, orders'[p] # NoOrder PROVE RecordedOrder(p)'
    BY <1>6, <2>1, <2>2, <2>5, <2>6, MovedOrder
       DEF TypeInv, QueueInv, RecordedOrder, ReleasedRejected
  <2>7. TypeOK'
    BY <1>1, <1>2, <1>6, <2>4 DEF ReleasedRejected, TypeInv, TypeOK, loop, NoPortfolio
  <2> QED
    BY <1>1, <2>6, <2>7 DEF TypeInv, QueueInv, loop
<1>7. CASE ReleasedFilled(o)
  <2> DEFINE r == AfterFill(orders[o], OrderSpec[o].qty)
  <2>1. orders[o].status = "ACCEPTED" /\ Priced(o) \in Nat \ {0}
    BY <1>1, <1>7, PricedTyped DEF ReleasedFilled, CanPrice
  <2>2. r \in AnOrder /\ r # NoOrder /\ r.status = "FILLED" /\ r.filled = r.qty
        /\ r.qty = OrderSpec[o].qty
    BY <1>1, <2>1, FilledOrder
  <2>3. orders' = [orders EXCEPT ![o] = r]
    BY <1>7 DEF ReleasedFilled, ApplyFill
  <2> HIDE DEF r
  <2>4. orders' \in [OrderIds -> AnOrder \cup {NoOrder}]
    BY <1>1, <2>2, <2>3 DEF TypeInv, TypeOK
  <2>5. \A p \in OrderIds : orders'[p] = IF p = o THEN r ELSE orders[p]
    BY <2>3 DEF TypeInv, TypeOK
  <2>6. ASSUME NEW p \in OrderIds, orders'[p] # NoOrder PROVE RecordedOrder(p)'
    BY <2>2, <2>5, <2>6 DEF TypeInv, QueueInv, RecordedOrder
  <2>7. [order |-> o, price |-> Priced(o)] \in AFill
    BY <1>1, <2>1 DEF AFill
  <2>8. fills' \in Seq(AFill) /\ Len(fills') = Len(fills) + 1 /\ Len(fills) \in Nat
    BY <1>7, <2>7 DEF ReleasedFilled, ApplyFill, TypeInv, TypeOK
  <2>9. 1..Len(fills) \subseteq 1..Len(fills')
    BY <2>8
  <2>10. seen' \subseteq 1..Len(fills') /\ todo' \subseteq 1..Len(fills')
         /\ told' \in Seq(1..Len(fills'))
    BY <1>1, <2>9, SeqMonotonic DEF loop, TypeInv, TypeOK
  <2>11. Signed(o) \in Int /\ Priced(o) \in Int /\ OrderSpec[o].symbol \in Symbols
    BY <1>1, <2>1, SpecTyped
  <2>12. cash' \in Int /\ lots' \in [Symbols -> Int]
    BY <1>7, <2>11 DEF ReleasedFilled, ApplyFill, TypeInv, TypeOK
  <2>13. TypeOK'
    BY <1>1, <1>2, <1>7, <2>4, <2>8, <2>10, <2>12
       DEF ReleasedFilled, TypeInv, TypeOK, loop, NoPortfolio
  <2> QED
    BY <1>1, <2>6, <2>13 DEF TypeInv, QueueInv, loop
<1> QED
  BY <1>1, <1>4, <1>5, <1>6, <1>7

LEMMA ListTyped ==
  ASSUME TypeInv, List
  PROVE  TypeInv'
<1>1. pending' \in Seq(OrderIds)
  BY ConcatProperties DEF TypeInv, TypeOK, List, EndRelease
<1> QED
  BY <1>1 DEF TypeInv, TypeOK, QueueInv, RecordedOrder, List, EndRelease, Fresh, NoPortfolio

\* The smallest number of a set of numbers is one of them.
LEMMA LeastIn ==
  ASSUME NEW T \in SUBSET Nat, T # {}
  PROVE  Min(T) \in T /\ (\A i \in T : Min(T) <= i)
  BY LeastExists DEF Min

LEMMA TellTyped ==
  ASSUME TypeInv, Tell
  PROVE  TypeInv'
<1>1. Min(todo) \in todo
  <2>1. todo \in SUBSET Nat /\ todo # {}
    BY DEF TypeInv, TypeOK, Tell
  <2> QED
    BY <2>1, LeastIn
<1>2. told' \in Seq(1..Len(fills))
  <2> DEFINE S == 1..Len(fills)
  <2>1. told \in Seq(S) /\ Min(todo) \in S /\ told' = Append(told, Min(todo))
    BY <1>1 DEF TypeInv, TypeOK, Tell
  <2> HIDE DEF S
  <2>2. told' \in Seq(S)
    BY <2>1
  <2> QED
    BY <2>2 DEF S
<1> QED
  BY <1>1, <1>2 DEF TypeInv, TypeOK, QueueInv, RecordedOrder, Tell, ledger, NoPortfolio, Callbacks

LEMMA EndNotifyTyped ==
  ASSUME TypeInv, EndNotify
  PROVE  TypeInv'
  BY DEF TypeInv, TypeOK, QueueInv, RecordedOrder, EndNotify, ledger, NoPortfolio, Callbacks

LEMMA ReturnTyped ==
  ASSUME TypeInv, Return
  PROVE  TypeInv'
  BY DEF TypeInv, TypeOK, QueueInv, RecordedOrder, Return, ledger, BeginRelease, NoPortfolio, Callbacks

LEMMA FinishTyped ==
  ASSUME TypeInv, Finish
  PROVE  TypeInv'
  BY DEF TypeInv, TypeOK, QueueInv, RecordedOrder, Finish, ledger, NoPortfolio, Callbacks

LEMMA StepTyped == TypeInv /\ [Next]_vars => TypeInv'
<1> SUFFICES ASSUME TypeInv, [Next]_vars PROVE TypeInv'
  OBVIOUS
<1>1. CASE UNCHANGED vars
  BY <1>1 DEF vars, ledger, loop, TypeInv, TypeOK, QueueInv, RecordedOrder, NoPortfolio
<1> QED
  BY <1>1, SubmitTyped, CancelTyped, LookTyped, ProcessTyped, ReleaseTyped, ListTyped, TellTyped,
     EndNotifyTyped, ReturnTyped, FinishTyped DEF Next

\* The types hold in every state, whatever the strategy calls and the gateway
\* answers: TypeOK says in particular that no fill is ever booked without a
\* price.
THEOREM TypeCorrect == Spec => []TypeOK
<1>1. TypeInv => TypeOK
  BY DEF TypeInv
<1> QED
  BY InitTyped, StepTyped, <1>1, PTL DEF Spec

----------------------------------------------------------------------------
(* Telling the fills *)

\* Fills are told in the order they were booked: seen is what was told, and a
\* notification that has listed the fills still has exactly the rest to tell.
ToldInv ==
  /\ told = [i \in 1..Len(told) |-> i] /\ seen = 1..Len(told)
  /\ Len(told) <= Len(fills)
  /\ pc \in {"tell", "on_fill"} => todo = (Len(told) + 1)..Len(fills)
  /\ pc \notin {"release", "tell", "on_fill"} => Len(told) = Len(fills)

LEMMA InitTold == Init => ToldInv
<1> SUFFICES ASSUME Init PROVE ToldInv
  OBVIOUS
<1>1. Len(<<>>) = 0 /\ <<>> = [i \in 1..0 |-> i] /\ 1..0 = {}
  OBVIOUS
<1> QED
  BY <1>1 DEF Init, LedgerInit, ToldInv

LEMMA TellTold ==
  ASSUME TypeInv, ToldInv, Tell
  PROVE  ToldInv'
<1> DEFINE n == Len(told)
<1>1. n \in Nat /\ Len(fills) \in Nat
  BY DEF TypeInv, TypeOK
<1>2. todo = (n + 1)..Len(fills) /\ todo # {}
  BY DEF ToldInv, Tell
<1>3. Min(todo) = n + 1 /\ n + 1 <= Len(fills)
  <2>1. todo \in SUBSET Nat /\ n + 1 <= Len(fills)
    BY <1>1, <1>2
  <2>2. n + 1 \in todo /\ \A i \in todo : n + 1 <= i
    BY <1>1, <1>2, <2>1
  <2>3. Min(todo) \in todo /\ Min(todo) <= n + 1
    BY <1>2, <2>1, <2>2, LeastIn
  <2>4. n + 1 <= Min(todo) /\ Min(todo) \in Nat
    BY <2>1, <2>2, <2>3
  <2> QED
    BY <1>1, <2>1, <2>3, <2>4
<1>4. told' = Append(told, n + 1) /\ seen' = seen \cup {n + 1} /\ todo' = todo \ {n + 1}
  BY <1>3 DEF Tell
<1>5. Len(told') = n + 1 /\ told' \in Seq(Nat)
  <2>1. told \in Seq(Nat)
    <3>1. 1..Len(fills) \subseteq Nat /\ told \in Seq(1..Len(fills))
      BY <1>1 DEF TypeInv, TypeOK
    <3> QED
      BY <3>1, SeqMonotonic
  <2> QED
    BY <1>1, <1>4, <2>1
<1>6. told' = [i \in 1..(n + 1) |-> i]
  <2>1. told \in Seq(Nat) /\ told = [i \in 1..n |-> i]
    <3>1. 1..Len(fills) \subseteq Nat /\ told \in Seq(1..Len(fills))
      BY <1>1 DEF TypeInv, TypeOK
    <3> QED
      BY <3>1, SeqMonotonic DEF ToldInv
  <2>2. DOMAIN told' = 1..(n + 1) /\ \A i \in 1..(n + 1) : told'[i] = IF i = n + 1 THEN n + 1 ELSE told[i]
    BY <1>1, <1>4, <2>1
  <2>3. \A i \in 1..(n + 1) : i # n + 1 => told[i] = i
    <3>1. \A i \in 1..(n + 1) : i # n + 1 => i \in 1..n
      BY <1>1
    <3>2. \A i \in 1..n : told[i] = i
      BY <2>1
    <3> HIDE DEF n
    <3> QED
      BY <3>1, <3>2
  <2>4. told' = [i \in 1..(n + 1) |-> told'[i]]
    BY <1>5, <2>2
  <2> QED
    BY <2>2, <2>3, <2>4
<1>7. seen' = 1..(n + 1)
  BY <1>1, <1>4 DEF ToldInv
<1>8. todo' = ((n + 1) + 1)..Len(fills)
  BY <1>1, <1>2, <1>4
<1>9. fills' = fills /\ pc' = "on_fill"
  BY DEF Tell, ledger
<1> QED
  BY <1>3, <1>5, <1>6, <1>7, <1>8, <1>9 DEF ToldInv

LEMMA StepTold == TypeInv /\ ToldInv /\ [Next]_vars => ToldInv'
<1> SUFFICES ASSUME TypeInv, ToldInv, [Next]_vars PROVE ToldInv'
  OBVIOUS
<1>1. Len(told) \in Nat /\ Len(fills) \in Nat
  BY DEF TypeInv, TypeOK
<1>2. ASSUME NEW o \in OrderIds, Submit(o) \/ Cancel(o) PROVE ToldInv'
  BY <1>2 DEF Submit, RecordSubmit, Cancel, RecordCancel, ToldInv, Callbacks
<1>3. CASE Look
  BY <1>3 DEF Look, ledger, ToldInv
<1>4. ASSUME NEW snap \in Snapshots, Process(snap) PROVE ToldInv'
  BY <1>4 DEF Process, NoteMarket, ToldInv
<1>5. CASE ReleaseStep
  <2>1. Len(fills) <= Len(fills')
    <3> DEFINE o == Head(queue)
    <3>1. ReleasedClosed(o) \/ ReleasedWaits(o) \/ ReleasedRejected(o) \/ ReleasedFilled(o)
      BY <1>5, ReleaseCases
    <3>2. fills' = fills \/ \E f : fills' = Append(fills, f)
      BY <3>1 DEF ReleasedClosed, ReleasedWaits, ReleasedRejected, ReleasedFilled, KeepWaiting, ApplyFill
    <3> QED
      BY <1>1, <3>2 DEF TypeInv, TypeOK
  <2>2. Len(fills') \in Nat
    BY <1>5, ReleaseTyped DEF TypeInv, TypeOK
  <2>3. pc = "release" /\ UNCHANGED loop
    BY <1>5 DEF ReleaseStep
  <2>4. UNCHANGED <<pc, told, seen, todo>>
    BY <2>3 DEF loop
  <2> QED
    BY <1>1, <2>1, <2>2, <2>3, <2>4 DEF ToldInv
<1>6. CASE List
  <2>1. (1..Len(fills)) \ (1..Len(told)) = (Len(told) + 1)..Len(fills)
    BY <1>1
  <2> QED
    BY <1>6, <2>1 DEF List, EndRelease, Fresh, ToldInv
<1>7. CASE Tell
  BY <1>7, TellTold
<1>8. CASE EndNotify
  <2>1. Len(told) = Len(fills)
    <3>1. (Len(told) + 1)..Len(fills) = {} /\ Len(told) <= Len(fills)
      BY <1>8 DEF EndNotify, ToldInv
    <3>2. Len(fills) \notin (Len(told) + 1)..Len(fills)
      BY <3>1
    <3> QED
      BY <1>1, <3>1, <3>2
  <2> QED
    BY <1>8, <2>1 DEF EndNotify, ledger, ToldInv
<1>9. CASE Return
  <2>1. CASE pc = "on_start"
    BY <1>9, <2>1 DEF Return, ledger, ToldInv
  <2>2. CASE pc = "on_market_data"
    BY <1>1, <1>9, <2>2 DEF Return, ToldInv
  <2>3. CASE pc = "on_fill"
    BY <1>9, <2>3 DEF Return, ledger, ToldInv
  <2>4. CASE pc = "on_stop"
    BY <1>9, <2>4 DEF Return, ledger, ToldInv
  <2> QED
    BY <1>9, <2>1, <2>2, <2>3, <2>4 DEF Return
<1>10. CASE Finish
  BY <1>10 DEF Finish, ledger, ToldInv
<1>11. CASE UNCHANGED vars
  BY <1>11 DEF vars, ledger, loop, ToldInv
<1> QED
  BY <1>2, <1>3, <1>4, <1>5, <1>6, <1>7, <1>8, <1>9, <1>10, <1>11 DEF Next

\* Every fill is told once and in the order of the book, and a strategy that
\* decides, or waits for the next snapshot, has been told every one.
THEOREM ToldInOrderHolds == Spec => []ToldInOrder
<1>1. TypeInv /\ ToldInv => ToldInOrder
  BY DEF ToldInv, ToldInOrder
<1> QED
  BY InitTyped, StepTyped, InitTold, StepTold, <1>1, PTL DEF Spec

----------------------------------------------------------------------------
(* What the strategy reads, and what it may owe *)

\* In the round before the strategy decides, nothing is cached until the release
\* is over; what is cached after it is the account as the release left it.
FreshInv ==
  /\ pc = "release" /\ round = "before" => cache = NoPortfolio
  /\ pc = "tell" /\ round = "before" => cache \in {NoPortfolio, Portfolio}
  /\ FreshWhenDeciding

LEMMA StepFresh == FreshInv /\ [Next]_vars => FreshInv'
<1> SUFFICES ASSUME FreshInv, [Next]_vars PROVE FreshInv'
  OBVIOUS
<1> USE DEF FreshInv, FreshWhenDeciding, NoPortfolio, Portfolio
<1>1. ASSUME NEW o \in OrderIds, Submit(o) \/ Cancel(o) PROVE FreshInv'
  BY <1>1 DEF Submit, RecordSubmit, Cancel, RecordCancel, Callbacks
<1>2. CASE Look
  BY <1>2 DEF Look, ledger, Callbacks
<1>3. ASSUME NEW snap \in Snapshots, Process(snap) PROVE FreshInv'
  BY <1>3 DEF Process, SetMarket
<1>4. CASE ReleaseStep
  BY <1>4 DEF ReleaseStep, loop
<1>5. CASE List
  BY <1>5 DEF List, EndRelease
<1>6. CASE Tell
  BY <1>6 DEF Tell, ledger
<1>7. CASE EndNotify
  BY <1>7 DEF EndNotify, ledger
<1>8. CASE Return
  BY <1>8 DEF Return, ledger
<1>9. CASE Finish
  BY <1>9 DEF Finish, ledger
<1>10. CASE UNCHANGED vars
  BY <1>10 DEF vars, ledger, loop
<1> QED
  BY <1>1, <1>2, <1>3, <1>4, <1>5, <1>6, <1>7, <1>8, <1>9, <1>10 DEF Next

\* The portfolio a strategy reads when it decides on a snapshot, or on a fill told
\* before the snapshot is shown to it, is the account's and not one cached before
\* the release (strategy.py: set_market, portfolio).  Nothing is claimed of on_fill
\* after on_market_data, nor of on_stop.
THEOREM FreshWhenDecidingHolds == Spec => []FreshWhenDeciding
<1>1. Init => FreshInv
  BY DEF Init, FreshInv, FreshWhenDeciding
<1>2. FreshInv => FreshWhenDeciding
  BY DEF FreshInv
<1> QED
  BY <1>1, <1>2, StepFresh, PTL DEF Spec

LEMMA StepNeverShort == TypeInv /\ NeverShort /\ [Next]_vars => NeverShort'
<1> SUFFICES ASSUME TypeInv, NeverShort, [Next]_vars PROVE NeverShort'
  OBVIOUS
<1>1. CASE ReleaseStep
  <2> DEFINE o == Head(queue)
  <2>1. /\ o \in OrderIds
        /\ ReleasedClosed(o) \/ ReleasedWaits(o) \/ ReleasedRejected(o) \/ ReleasedFilled(o)
    BY <1>1, ReleaseCases
  <2> HIDE DEF o
  <2>2. CASE ReleasedFilled(o)
    <3>1. /\ lots' = [lots EXCEPT ![OrderSpec[o].symbol] = @ + Signed(o)]
          /\ lots \in [Symbols -> Int]
      BY <2>2 DEF ReleasedFilled, ApplyFill, TypeInv, TypeOK
    <3>2. ~ AllowShort /\ lots[OrderSpec[o].symbol] >= 0
            => lots[OrderSpec[o].symbol] + Signed(o) >= 0
      BY <2>1, <2>2, <3>1, SpecTyped DEF ReleasedFilled, ShortRejected, Signed
    <3> QED
      BY <2>1, <3>1, <3>2, SpecTyped DEF NeverShort
  <2>3. CASE ~ ReleasedFilled(o)
    BY <2>1, <2>3 DEF ReleasedClosed, ReleasedWaits, ReleasedRejected, KeepWaiting, NeverShort
  <2> QED
    BY <2>2, <2>3
<1>2. CASE ~ ReleaseStep
  <2>1. lots' = lots
    BY <1>2 DEF Next, vars, ledger, Submit, RecordSubmit, Cancel, RecordCancel, Look, Process, NoteMarket,
                List, EndRelease, Tell, EndNotify, Return, Finish
  <2> QED
    BY <2>1 DEF NeverShort
<1> QED
  BY <1>1, <1>2

\* Without permission no position is ever short, whatever is submitted before a
\* release and in whatever order the release meets it.
THEOREM NeverShortHolds == Spec => []NeverShort
<1>1. Init => NeverShort
  BY DEF Init, LedgerInit, NeverShort
<1> QED
  BY <1>1, InitTyped, StepTyped, StepNeverShort, PTL DEF Spec

----------------------------------------------------------------------------
(* The queue *)

Accepted == {o \in OrderIds : orders[o].status = "ACCEPTED"}

\* The accepted orders are divided among the three sequences, each order once.
QueuedInv ==
  /\ IsInjective(pending) /\ IsInjective(waiting) /\ IsInjective(queue)
  /\ Range(waiting) \cap Range(queue) = {}
  /\ Range(pending) \cup Range(waiting) \cup Range(queue) = Accepted

\* An empty sequence holds nothing.
LEMMA NothingQueued == Range(<<>>) = {} /\ IsInjective(<<>>)
<1>1. DOMAIN <<>> = {}
  OBVIOUS
<1> QED
  BY <1>1 DEF Range, IsInjective

LEMMA SubmitQueued ==
  ASSUME TypeInv, QueuedInv, NEW o \in OrderIds, Submit(o)
  PROVE  QueuedInv'
<1> DEFINE r == [status |-> "ACCEPTED", filled |-> 0, qty |-> OrderSpec[o].qty]
<1>1. /\ orders' = [orders EXCEPT ![o] = r] /\ pending' = Append(pending, o)
      /\ UNCHANGED <<queue, waiting>>
      /\ orders[o].status = "NONE"
  BY DEF Submit, RecordSubmit, NoOrder
<1>2. o \notin Accepted /\ Accepted' = Accepted \cup {o}
  <2>1. \A p \in OrderIds : orders'[p] = IF p = o THEN r ELSE orders[p]
    BY <1>1 DEF TypeInv, TypeOK
  <2>2. r.status = "ACCEPTED"
    OBVIOUS
  <2> HIDE DEF r
  <2> QED
    BY <1>1, <2>1, <2>2 DEF Accepted
<1>3. o \notin Range(pending)
  BY <1>2 DEF QueuedInv
<1>4. IsInjective(pending') /\ Range(pending') = Range(pending) \cup {o}
  BY <1>1, <1>3, AppendOnce DEF TypeInv, TypeOK, QueuedInv
<1> QED
  BY <1>1, <1>2, <1>4 DEF QueuedInv

LEMMA CancelQueued ==
  ASSUME TypeInv, QueuedInv, NEW o \in OrderIds, Cancel(o)
  PROVE  QueuedInv'
<1>1. CASE Cancellable(o)
  <2>1. /\ orders' = [orders EXCEPT ![o] = MoveTo(@, "CANCELLED")]
        /\ pending' = Without(pending, o) /\ UNCHANGED <<queue, waiting>>
        /\ pc # "release"
    BY <1>1 DEF Cancel, RecordCancel, Callbacks
  <2>2. queue = <<>> /\ waiting = <<>>
    BY <2>1 DEF TypeInv, QueueInv
  <2>3. IsInjective(pending') /\ Range(pending') = Range(pending) \ {o}
    BY <2>1, WithoutKeeps DEF TypeInv, TypeOK, QueuedInv
  <2>4. Accepted' = Accepted \ {o}
    <3>1. orders[o] \in AnOrder /\ "CANCELLED" \in Statuses
      BY <1>1 DEF TypeInv, TypeOK, Cancellable, NoOrder, Statuses, Terminal
    <3>2. MoveTo(orders[o], "CANCELLED").status = "CANCELLED"
      BY <3>1, MovedOrder
    <3>3. \A p \in OrderIds :
            orders'[p] = IF p = o THEN MoveTo(orders[o], "CANCELLED") ELSE orders[p]
      BY <2>1 DEF TypeInv, TypeOK
    <3> QED
      BY <3>2, <3>3 DEF Accepted
  <2> QED
    BY <2>1, <2>2, <2>3, <2>4, NothingQueued DEF QueuedInv
<1>2. CASE ~ Cancellable(o)
  BY <1>2 DEF Cancel, RecordCancel, QueuedInv, Accepted
<1> QED
  BY <1>1, <1>2

LEMMA ReleaseQueued ==
  ASSUME TypeInv, QueuedInv, ReleaseStep
  PROVE  QueuedInv'
<1> DEFINE o == Head(queue)
<1>1. /\ o \in OrderIds /\ queue # <<>> /\ queue' = Tail(queue)
      /\ pc = "release" /\ pending = <<>> /\ UNCHANGED pending
      /\ ReleasedClosed(o) \/ ReleasedWaits(o) \/ ReleasedRejected(o) \/ ReleasedFilled(o)
  BY ReleaseCases DEF TypeInv, QueueInv
<1>2. /\ IsInjective(queue') /\ o \in Range(queue)
      /\ Range(queue') = Range(queue) \ {o}
  BY <1>1, TailOnce DEF TypeInv, TypeOK, QueuedInv
<1>3. orders[o].status = "ACCEPTED" /\ o \notin Range(waiting)
  BY <1>1, <1>2 DEF QueuedInv, Accepted
<1> HIDE DEF o
<1>4. Range(pending) = {} /\ Range(pending') = {} /\ IsInjective(pending')
  BY <1>1, NothingQueued
<1>5. CASE ReleasedWaits(o)
  <2>1. waiting' = Append(waiting, o) /\ orders' = orders
    BY <1>5 DEF ReleasedWaits, KeepWaiting
  <2>2. IsInjective(waiting') /\ Range(waiting') = Range(waiting) \cup {o}
    BY <1>1, <1>3, <2>1, AppendOnce DEF TypeInv, TypeOK, QueuedInv
  <2>3. Accepted' = Accepted
    BY <2>1 DEF Accepted
  <2> QED
    BY <1>2, <1>4, <2>2, <2>3 DEF QueuedInv
<1>6. CASE ReleasedRejected(o) \/ ReleasedFilled(o)
  <2>1. waiting' = waiting /\ \E r : orders' = [orders EXCEPT ![o] = r] /\ r.status # "ACCEPTED"
    <3>1. orders[o] \in AnOrder /\ "REJECTED" \in Statuses
      BY <1>1, <1>3 DEF TypeInv, TypeOK, NoOrder, Statuses, Terminal
    <3>2. MoveTo(orders[o], "REJECTED").status = "REJECTED"
      BY <3>1, MovedOrder
    <3>3. AfterFill(orders[o], OrderSpec[o].qty).status = "FILLED"
      BY <1>1, <1>3, FilledOrder
    <3> QED
      BY <1>6, <3>2, <3>3 DEF ReleasedRejected, AfterReject, ReleasedFilled, ApplyFill
  <2>2. Accepted' = Accepted \ {o}
    <3>1. PICK r : orders' = [orders EXCEPT ![o] = r] /\ r.status # "ACCEPTED"
      BY <2>1
    <3>2. \A p \in OrderIds : orders'[p] = IF p = o THEN r ELSE orders[p]
      BY <3>1 DEF TypeInv, TypeOK
    <3> QED
      BY <3>1, <3>2 DEF Accepted
  <2> QED
    BY <1>2, <1>3, <1>4, <2>1, <2>2 DEF QueuedInv
<1> QED
  BY <1>1, <1>3, <1>5, <1>6 DEF ReleasedClosed

LEMMA StepQueued == TypeInv /\ QueuedInv /\ [Next]_vars => QueuedInv'
<1> SUFFICES ASSUME TypeInv, QueuedInv, [Next]_vars PROVE QueuedInv'
  OBVIOUS
<1>1. ASSUME NEW snap \in Snapshots, Process(snap) PROVE QueuedInv'
  BY <1>1, NothingQueued DEF Process, NoteMarket, BeginRelease, TypeInv, QueueInv, QueuedInv, Accepted
<1>2. CASE List
  <2>1. /\ pending = <<>> /\ queue = <<>> /\ pending' = pending \o waiting
        /\ waiting' = <<>> /\ UNCHANGED <<orders, queue>>
    BY <1>2 DEF List, EndRelease, TypeInv, QueueInv
  <2>2. pending' = waiting
    BY <2>1, ConcatEmptySeq DEF TypeInv, TypeOK
  <2> QED
    BY <2>1, <2>2, NothingQueued DEF QueuedInv, Accepted
<1>3. CASE Return
  <2>1. CASE pc = "on_market_data"
    BY <1>3, <2>1, NothingQueued DEF Return, BeginRelease, TypeInv, QueueInv, QueuedInv, Accepted
  <2>2. CASE pc # "on_market_data"
    BY <1>3, <2>2 DEF Return, ledger, QueuedInv, Accepted
  <2> QED
    BY <2>1, <2>2
<1>4. CASE Look \/ Tell \/ EndNotify \/ Finish \/ UNCHANGED vars
  BY <1>4 DEF Look, Tell, EndNotify, Finish, vars, ledger, QueuedInv, Accepted
<1> QED
  BY <1>1, <1>2, <1>3, <1>4, SubmitQueued, CancelQueued, ReleaseQueued DEF Next

LEMMA InitQueued == Init => QueuedInv
<1> SUFFICES ASSUME Init PROVE QueuedInv
  OBVIOUS
<1>1. Accepted = {}
  BY DEF Init, LedgerInit, Accepted, NoOrder
<1> QED
  BY <1>1, NothingQueued DEF Init, LedgerInit, QueuedInv

\* The three sequences end to end hold every accepted order once.
LEMMA QueuedOnce == TypeInv /\ QueuedInv => AcceptedQueuedOnce
<1> SUFFICES ASSUME TypeInv, QueuedInv PROVE AcceptedQueuedOnce
  OBVIOUS
<1> DEFINE first == pending \o waiting
           all == first \o queue
<1>1. pending \in Seq(OrderIds) /\ waiting \in Seq(OrderIds) /\ queue \in Seq(OrderIds)
  BY DEF TypeInv, TypeOK
<1>2. Range(pending) \cap (Range(waiting) \cup Range(queue)) = {}
  BY NothingQueued DEF TypeInv, QueueInv
<1>3. first \in Seq(OrderIds) /\ IsInjective(first) /\ Range(first) = Range(pending) \cup Range(waiting)
  BY <1>1, <1>2, JoinOnce DEF QueuedInv
<1>4. Range(first) \cap Range(queue) = {}
  BY <1>2, <1>3 DEF QueuedInv
<1>5. all \in Seq(OrderIds) /\ IsInjective(all) /\ Range(all) = Accepted
  <2> HIDE DEF first
  <2>1. all \in Seq(OrderIds) /\ IsInjective(all) /\ Range(all) = Range(first) \cup Range(queue)
    BY <1>1, <1>3, <1>4, JoinOnce DEF QueuedInv
  <2> QED
    BY <1>3, <2>1 DEF QueuedInv
<1>6. all = pending \o waiting \o queue
  OBVIOUS
<1>7. Cardinality(Range(all)) = Len(all)
  <2> HIDE DEF all
  <2> QED
    BY <1>5, OnceLength
<1> QED
  BY <1>5, <1>6, <1>7 DEF AcceptedQueuedOnce, Accepted, Range

\* An accepted order is queued, once: no release, however it is interrupted by
\* its own steps, and no submission or cancellation between two of them, forgets
\* one or queues one twice.
THEOREM AcceptedQueuedOnceHolds == Spec => []AcceptedQueuedOnce
  BY InitTyped, StepTyped, InitQueued, StepQueued, QueuedOnce, PTL DEF Spec

----------------------------------------------------------------------------
(* The account *)

FillsOf(o) == {i \in 1..Len(fills) : fills[i].order = o}

\* What the books hold before the fill of an order that was accepted, and after.
LEMMA FillBooked ==
  ASSUME TypeInv, LedgerTellsFills, NEW o \in OrderIds,
         TypeInv', ReleasedFilled(o)
  PROVE  LedgerTellsFills'
<1> DEFINE n == Len(fills)
           fill == [order |-> o, price |-> Priced(o)]
           sym == OrderSpec[o].symbol
<1>1. /\ orders' = [orders EXCEPT ![o] = AfterFill(@, OrderSpec[o].qty)]
      /\ fills' = Append(fills, fill)
      /\ lots' = [lots EXCEPT ![sym] = @ + Signed(o)]
      /\ cash' = cash - Signed(o) * Priced(o)
      /\ orders[o].status = "ACCEPTED"
  BY DEF ReleasedFilled, ApplyFill
<1>2. /\ n \in Nat /\ fills \in Seq(AFill) /\ fills' \in Seq(AFill) /\ n + 1 = Len(fills')
      /\ Signed(o) \in Int /\ Priced(o) \in Int /\ sym \in Symbols
      /\ cash \in Int /\ lots \in [Symbols -> Int] /\ orders \in [OrderIds -> AnOrder \cup {NoOrder}]
  <2>1. /\ n \in Nat /\ fills \in Seq(AFill) /\ fills' \in Seq(AFill)
        /\ cash \in Int /\ lots \in [Symbols -> Int] /\ orders \in [OrderIds -> AnOrder \cup {NoOrder}]
    BY DEF TypeInv, TypeOK
  <2>2. n + 1 = Len(fills')
    <3> HIDE DEF fill
    <3> QED
      BY <1>1, <2>1
  <2> QED
    BY <2>1, <2>2, PricedTyped, SpecTyped
<1>3. fills'[n + 1] = fill /\ \A i \in 1..n : fills'[i] = fills[i]
  <2> HIDE DEF fill
  <2> QED
    BY <1>1, <1>2
<1>4. fill.order = o /\ fill.price = Priced(o)
  OBVIOUS
<1>5. \A i \in 1..n : fills[i].order \in OrderIds /\ fills[i].price \in Nat
  <2>1. \A i \in 1..n : fills[i] \in AFill
    BY <1>2
  <2> QED
    BY <2>1 DEF AFill
<1>6. n + 1 \notin 1..n /\ 1..(n + 1) = (1..n) \cup {n + 1} /\ IsFiniteSet(1..n)
  BY <1>2, OneMore
<1>7. /\ \A i \in 1..n : Traded[i] \in Int /\ Traded'[i] = Traded[i]
      /\ Traded'[n + 1] = Signed(o)
  <2>1. \A i \in 1..n : Signed(fills[i].order) \in Int
    BY <1>5, SpecTyped
  <2>2. Traded = [i \in 1..n |-> Signed(fills[i].order)]
        /\ Traded' = [i \in 1..(n + 1) |-> Signed(fills'[i].order)]
    BY <1>2 DEF Traded, Signed
  <2> HIDE DEF n, fill
  <2> QED
    BY <1>3, <1>4, <1>6, <2>1, <2>2
<1>8. /\ \A i \in 1..n : Paid[i] \in Int /\ Paid'[i] = Paid[i]
      /\ Paid'[n + 1] = Signed(o) * Priced(o) /\ Signed(o) * Priced(o) \in Int
      /\ DOMAIN Paid = 1..n /\ DOMAIN Paid' = 1..(n + 1)
  <2>1. \A i \in 1..n : Signed(fills[i].order) \in Int
    BY <1>5, SpecTyped
  <2>2. \A a \in Int : \A b \in Nat : a * b \in Int
    OBVIOUS
  <2>3. \A i \in 1..n : Signed(fills[i].order) * fills[i].price \in Int
    BY <1>5, <2>1, <2>2
  <2>4. Paid = [i \in 1..n |-> Signed(fills[i].order) * fills[i].price]
        /\ Paid' = [i \in 1..(n + 1) |-> Signed(fills'[i].order) * fills'[i].price]
    BY <1>2 DEF Paid, Signed
  <2>5. Signed(o) * Priced(o) \in Int
    BY <1>2
  <2> HIDE DEF n, fill
  <2> QED
    BY <1>3, <1>4, <1>6, <2>3, <2>4, <2>5
<1>9. cash' = InitialCash - SumFunction(Paid)'
  <2>1. SumFunctionOnSet(Paid', 1..(n + 1)) = SumFunctionOnSet(Paid, 1..n) + Signed(o) * Priced(o)
    <3> DEFINE f == Paid
               g == Paid'
               S == 1..n
               x == n + 1
    <3>1. /\ IsFiniteSet(S) /\ x \notin S /\ (\A y \in S : f[y] \in Int /\ g[y] = f[y]) /\ g[x] \in Int
          /\ g[x] = Signed(o) * Priced(o)
      BY <1>6, <1>8
    <3>2. SumFunctionOnSet(g, S \cup {x}) = SumFunctionOnSet(f, S) + g[x]
      <4> HIDE DEF f, g, S, x
      <4> QED
        BY <3>1, SumGrows
    <3> QED
      BY <1>6, <3>1, <3>2
  <2>2. SumFunctionOnSet(Paid, 1..n) \in Int
    BY <1>6, <1>8, SumInt
  <2>3. cash = InitialCash - SumFunctionOnSet(Paid, 1..n)
    BY <1>8 DEF LedgerTellsFills, SumFunction
  <2>4. SumFunction(Paid)' = SumFunctionOnSet(Paid', 1..(n + 1))
    BY <1>8 DEF SumFunction
  <2> QED
    BY <1>1, <1>8, <2>1, <2>2, <2>3, <2>4, AccountAssumption
<1>10. ASSUME NEW s \in Symbols PROVE lots'[s] = SumFunctionOnSet(Traded, FillsAt(s))'
  <2>1. FillsAt(s)' = IF s = sym THEN FillsAt(s) \cup {n + 1} ELSE FillsAt(s)
    <3>1. FillsAt(s) = {i \in 1..n : OrderSpec[fills[i].order].symbol = s}
          /\ FillsAt(s)' = {i \in 1..(n + 1) : OrderSpec[fills'[i].order].symbol = s}
      BY <1>2 DEF FillsAt
    <3> HIDE DEF n, fill
    <3> QED
      BY <1>3, <1>4, <1>6, <3>1
  <2> DEFINE f == Traded
             g == Traded'
             S == FillsAt(s)
             x == n + 1
  <2>2. S \subseteq 1..n /\ IsFiniteSet(S)
    BY <1>6, FS_Subset DEF FillsAt
  <2>3. /\ IsFiniteSet(S) /\ x \notin S /\ (\A y \in S : f[y] \in Int /\ g[y] = f[y]) /\ g[x] \in Int
        /\ g[x] = Signed(o)
    BY <1>2, <1>6, <1>7, <2>2
  <2>4. SumFunctionOnSet(g, S \cup {x}) = SumFunctionOnSet(f, S) + Signed(o)
        /\ SumFunctionOnSet(g, S) = SumFunctionOnSet(f, S)
    <3> HIDE DEF f, g, S, x
    <3>1. SumFunctionOnSet(g, S) = SumFunctionOnSet(f, S)
      BY <2>3, SumSame
    <3>2. SumFunctionOnSet(g, S \cup {x}) = SumFunctionOnSet(f, S) + g[x]
      BY <2>3, SumGrows
    <3> QED
      BY <2>3, <3>1, <3>2
  <2>5. lots[s] = SumFunctionOnSet(f, S)
    BY DEF LedgerTellsFills
  <2>6. lots'[s] = IF s = sym THEN lots[s] + Signed(o) ELSE lots[s]
    BY <1>1, <1>2
  <2>7. SumFunctionOnSet(Traded, FillsAt(s))' = SumFunctionOnSet(g, FillsAt(s)')
    OBVIOUS
  <2> HIDE DEF f, g, S, x, sym
  <2> QED
    BY <2>1, <2>4, <2>5, <2>6, <2>7 DEF S, x
<1>11. ASSUME NEW p \in OrderIds
       PROVE  Cardinality(FillsOf(p)') = IF orders'[p].status = "FILLED" THEN 1 ELSE 0
  <2>1. FillsOf(p)' = IF p = o THEN FillsOf(p) \cup {n + 1} ELSE FillsOf(p)
    <3>1. FillsOf(p) = {i \in 1..n : fills[i].order = p}
          /\ FillsOf(p)' = {i \in 1..(n + 1) : fills'[i].order = p}
      BY <1>2 DEF FillsOf
    <3> HIDE DEF n, fill
    <3> QED
      BY <1>3, <1>4, <1>6, <3>1
  <2>2. Cardinality(FillsOf(p)) = IF orders[p].status = "FILLED" THEN 1 ELSE 0
    BY DEF LedgerTellsFills, FillsOf
  <2>3. IsFiniteSet(FillsOf(p)) /\ n + 1 \notin FillsOf(p)
    BY <1>6, FS_Subset DEF FillsOf
  <2>4. CASE p = o
    <3>1. orders'[p].status = "FILLED"
      BY <1>1, <1>2, <2>4, FilledOrder
    <3>2. Cardinality(FillsOf(p)) = 0
      BY <1>1, <2>2, <2>4
    <3>3. Cardinality(FillsOf(p) \cup {n + 1}) = Cardinality(FillsOf(p)) + 1
      BY <2>3, FS_AddElement
    <3> QED
      BY <2>1, <2>4, <3>1, <3>2, <3>3
  <2>5. CASE p # o
    BY <1>1, <1>2, <2>1, <2>2, <2>5
  <2> QED
    BY <2>4, <2>5
<1> QED
  BY <1>9, <1>10, <1>11 DEF LedgerTellsFills, FillsOf

\* A step that fills nothing changes neither the account nor which orders are
\* filled.
LEMMA NothingFilled ==
  ASSUME TypeInv, [Next]_vars, ~ (ReleaseStep /\ ReleasedFilled(Head(queue)))
  PROVE  /\ UNCHANGED <<fills, cash, lots>>
         /\ \A o \in OrderIds : orders'[o].status = "FILLED" <=> orders[o].status = "FILLED"
<1>1. CASE ReleaseStep
  <2> DEFINE o == Head(queue)
  <2>1. o \in OrderIds /\ (ReleasedClosed(o) \/ ReleasedWaits(o) \/ ReleasedRejected(o))
    BY <1>1, ReleaseCases
  <2> HIDE DEF o
  <2>2. CASE ReleasedRejected(o)
    <3>1. orders[o] \in AnOrder /\ "REJECTED" \in Statuses
      BY <2>1, <2>2 DEF ReleasedRejected, TypeInv, TypeOK, NoOrder, Statuses, Terminal
    <3>2. MoveTo(orders[o], "REJECTED").status = "REJECTED"
      BY <3>1, MovedOrder
    <3>3. \A p \in OrderIds : orders'[p] = IF p = o THEN MoveTo(orders[o], "REJECTED") ELSE orders[p]
      BY <2>2 DEF ReleasedRejected, AfterReject, TypeInv, TypeOK
    <3> QED
      BY <2>2, <3>2, <3>3 DEF ReleasedRejected
  <2> QED
    BY <2>1, <2>2 DEF ReleasedClosed, ReleasedWaits, KeepWaiting
<1>2. ASSUME NEW o \in OrderIds, Submit(o)
      PROVE  /\ UNCHANGED <<fills, cash, lots>>
             /\ \A p \in OrderIds : orders'[p].status = "FILLED" <=> orders[p].status = "FILLED"
  <2> DEFINE r == [status |-> "ACCEPTED", filled |-> 0, qty |-> OrderSpec[o].qty]
  <2>1. orders' = [orders EXCEPT ![o] = r] /\ orders[o].status = "NONE" /\ UNCHANGED <<fills, cash, lots>>
    BY <1>2 DEF Submit, RecordSubmit, NoOrder
  <2>2. \A p \in OrderIds : orders'[p] = IF p = o THEN r ELSE orders[p]
    BY <2>1 DEF TypeInv, TypeOK
  <2>3. r.status = "ACCEPTED"
    OBVIOUS
  <2> HIDE DEF r
  <2> QED
    BY <2>1, <2>2, <2>3
<1>3. ASSUME NEW o \in OrderIds, Cancel(o)
      PROVE  /\ UNCHANGED <<fills, cash, lots>>
             /\ \A p \in OrderIds : orders'[p].status = "FILLED" <=> orders[p].status = "FILLED"
  <2>1. CASE Cancellable(o)
    <3>1. orders[o] \in AnOrder /\ "CANCELLED" \in Statuses
      BY <2>1 DEF TypeInv, TypeOK, Cancellable, NoOrder, Statuses, Terminal
    <3>2. MoveTo(orders[o], "CANCELLED").status = "CANCELLED"
      BY <3>1, MovedOrder
    <3>3. \A p \in OrderIds :
            orders'[p] = IF p = o THEN MoveTo(orders[o], "CANCELLED") ELSE orders[p]
      BY <1>3, <2>1 DEF Cancel, RecordCancel, TypeInv, TypeOK
    <3> QED
      BY <1>3, <2>1, <3>2, <3>3 DEF Cancel, RecordCancel, Cancellable
  <2>2. CASE ~ Cancellable(o)
    BY <1>3, <2>2 DEF Cancel, RecordCancel
  <2> QED
    BY <2>1, <2>2
<1>4. CASE ~ ReleaseStep /\ ~ \E o \in OrderIds : Submit(o) \/ Cancel(o)
  BY <1>4 DEF Next, vars, ledger, Look, Process, NoteMarket, List, EndRelease, Tell, EndNotify,
              Return, Finish
<1> QED
  BY <1>1, <1>2, <1>3, <1>4

LEMMA StepLedger == TypeInv /\ LedgerTellsFills /\ [Next]_vars => LedgerTellsFills'
<1> SUFFICES ASSUME TypeInv, LedgerTellsFills, [Next]_vars PROVE LedgerTellsFills'
  OBVIOUS
<1>1. TypeInv'
  BY StepTyped
<1>2. CASE ReleaseStep /\ ReleasedFilled(Head(queue))
  BY <1>1, <1>2, ReleaseCases, FillBooked
<1>3. CASE ~ (ReleaseStep /\ ReleasedFilled(Head(queue)))
  BY <1>3, NothingFilled DEF LedgerTellsFills, Paid, Traded, FillsAt, Signed
<1> QED
  BY <1>2, <1>3

LEMMA InitBooked == Init => LedgerTellsFills
<1> SUFFICES ASSUME Init PROVE LedgerTellsFills
  OBVIOUS
<1>1. fills = <<>> /\ Len(fills) = 0 /\ 1..0 = {}
  BY DEF Init, LedgerInit
<1>2. DOMAIN Paid = {} /\ \A s \in Symbols : FillsAt(s) = {}
  BY <1>1 DEF Paid, FillsAt
<1>3. SumFunction(Paid) = 0 /\ \A s \in Symbols : SumFunctionOnSet(Traded, FillsAt(s)) = 0
  BY <1>2, SumEmpty DEF SumFunction
<1>4. \A o \in OrderIds : FillsOf(o) = {} /\ orders[o].status = "NONE"
  BY <1>1 DEF FillsOf, Init, LedgerInit, NoOrder
<1>5. Cardinality({}) = 0
  BY FS_EmptySet
<1>6. cash = InitialCash - 0 /\ \A s \in Symbols : lots[s] = 0
  BY AccountAssumption DEF Init, LedgerInit
<1> QED
  BY <1>3, <1>4, <1>5, <1>6 DEF LedgerTellsFills, FillsOf

\* Cash and positions are the fills added up, however many there are, and an
\* order that is filled has one fill, any other none.
THEOREM LedgerTellsFillsHolds == Spec => []LedgerTellsFills
  BY InitTyped, StepTyped, InitBooked, StepLedger, PTL DEF Spec
====
