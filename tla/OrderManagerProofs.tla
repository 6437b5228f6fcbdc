---- MODULE OrderManagerProofs ----
(***************************************************************************)
(* The order manager's invariants and its refinement of OrderLifecycle,    *)
(* for every set of orders, client keys and quantities.                    *)
(***************************************************************************)
EXTENDS OrderManager, BookLemmas

\* The quantities a record can hold make it differ from an unused one.
LEMMA OrderIsKnown == \A o \in Order : o # NoOrder
  BY DEF Order, NoOrder, Statuses, Working, Terminal

\* A fill leaves the quantity alone and adds up below it.
LEMMA FillTyped ==
  ASSUME NEW o \in Order, NEW n \in 1..MaxQty, CanFill(o, n)
  PROVE  AfterFill(o, n) \in Order
<1>1. o.filled + n \in 0..MaxQty
  BY MaxQtyAssumption DEF Order, CanFill
<1>2. StatusAfterFill(o, n) \in Statuses
  BY DEF StatusAfterFill, Statuses, Working, Terminal
<1> QED
  BY <1>1, <1>2 DEF Order, AfterFill

LEMMA MoveTyped ==
  ASSUME NEW o \in Order, NEW s \in Statuses
  PROVE  /\ MoveTo(o, s) \in Order
         /\ MoveTo(o, s).status = s
         /\ MoveTo(o, s).filled = o.filled
         /\ MoveTo(o, s).qty = o.qty
  BY DEF Order, MoveTo

LEMMA CancelRequestTyped ==
  ASSUME NEW o \in Order
  PROVE  AfterRequestCancel(o) \in {o, MoveTo(o, "CANCELLED"), MoveTo(o, "CANCEL_PENDING")}
  BY DEF Order, AfterRequestCancel, Statuses, Working, Terminal

\* Type correctness of the registry.
THEOREM TypeCorrect == Spec => []TypeOK
<1>1. Init => TypeOK
  BY DEF Init, TypeOK
<1>2. TypeOK /\ [Next]_vars => TypeOK'
  <2> SUFFICES ASSUME TypeOK, [Next]_vars PROVE TypeOK'
    OBVIOUS
  <2> USE DEF TypeOK
  <2>0. ASSUME NEW i \in OrderIds, Known(i) PROVE orders[i] \in Order
    BY <2>0 DEF Known
  <2>u. ASSUME NEW i \in OrderIds, NEW o \in Order,
               NEW kind \in {"REJECTED", "ACCEPTED", "FILL", "CANCEL_REQUESTED",
                             "CANCELLED", "EXPIRED"},
               NEW n \in 0..MaxQty, Update(i, o, Event(kind, n))
        PROVE  TypeOK'
    <3>1. orders' \in [OrderIds -> Order \cup {NoOrder}]
      BY <2>u DEF Update
    <3>2. Event(kind, n) \in LogEvent
      BY DEF Event, LogEvent
    <3>3. log' \in [OrderIds -> Seq(LogEvent)]
      BY <2>u, <3>2 DEF Update
    <3> QED
      BY <2>u, <3>1, <3>3 DEF Update
  <2>1. ASSUME NEW k \in ClientKeys, NEW i \in OrderIds, NEW q \in 1..MaxQty, Create(k, i, q)
        PROVE TypeOK'
    <3>1. [status |-> "CREATED", filled |-> 0, qty |-> q] \in Order
      BY MaxQtyAssumption DEF Order, Statuses
    <3>2. Event("CREATED", 0) \in LogEvent
      BY MaxQtyAssumption DEF Event, LogEvent
    <3>3. <<Event("CREATED", 0)>> \in Seq(LogEvent)
      BY <3>2
    <3>4. log' \in [OrderIds -> Seq(LogEvent)]
      BY <2>1, <3>3 DEF Create
    <3> QED
      BY <2>1, <3>1, <3>4 DEF Create
  <2>2. ASSUME NEW i \in OrderIds, Reject(i) PROVE TypeOK'
    BY <2>2, <2>0, <2>u, MoveTyped, MaxQtyAssumption
    DEF Reject, AfterReject, Statuses, Terminal
  <2>3. ASSUME NEW i \in OrderIds, Accept(i) PROVE TypeOK'
    BY <2>3, <2>0, <2>u, MoveTyped, MaxQtyAssumption
    DEF Accept, AfterAccept, Statuses, Working
  <2>4. ASSUME NEW i \in OrderIds, RequestCancel(i) PROVE TypeOK'
    BY <2>4, <2>0, <2>u, MoveTyped, CancelRequestTyped, MaxQtyAssumption
    DEF RequestCancel, Statuses, Working, Terminal
  <2>5. ASSUME NEW i \in OrderIds, ConfirmCancel(i) PROVE TypeOK'
    BY <2>5, <2>0, <2>u, MoveTyped, MaxQtyAssumption
    DEF ConfirmCancel, AfterConfirmCancel, Statuses, Terminal
  <2>6. ASSUME NEW i \in OrderIds, Expire(i) PROVE TypeOK'
    BY <2>6, <2>0, <2>u, MoveTyped, MaxQtyAssumption
    DEF Expire, AfterExpire, Statuses, Terminal
  <2>7. ASSUME NEW i \in OrderIds, NEW n \in 1..MaxQty, ApplyFill(i, n) PROVE TypeOK'
    BY <2>7, <2>0, <2>u, FillTyped, MaxQtyAssumption DEF ApplyFill
  <2>8. ASSUME NEW i \in OrderIds, NEW rejected \in BOOLEAN, CloseUnfilled(i, rejected)
        PROVE TypeOK'
    <3>1. orders[i] \in Order
      BY <2>8, <2>0 DEF CloseUnfilled
    <3>2. \/ AfterClose(orders[i], rejected) = MoveTo(orders[i], "REJECTED")
          \/ AfterClose(orders[i], rejected) = MoveTo(orders[i], "CANCELLED")
      BY DEF AfterClose, AfterReject, AfterConfirmCancel
    <3>3. /\ AfterClose(orders[i], rejected) \in Order
          /\ AfterClose(orders[i], rejected).status \in {"REJECTED", "CANCELLED"}
      BY <3>1, <3>2, MoveTyped DEF Statuses, Terminal
    <3> QED
      BY <2>8, <3>3, <2>u, MaxQtyAssumption DEF CloseUnfilled
  <2>9. CASE UNCHANGED vars
    BY <2>9 DEF vars
  <2> QED
    BY <2>1, <2>2, <2>3, <2>4, <2>5, <2>6, <2>7, <2>8, <2>9 DEF Next
<1> QED
  BY <1>1, <1>2, PTL DEF Spec

----------------------------------------------------------------------------
\* An order of the registry is a record in the sense of the order rules.
LEMMA OrderIsRecord == \A o \in Order : Record(o)
  BY MaxQtyAssumption DEF Order, Record

\* The abstract step for one order, in this module's terms.
LEMMA ForwardMeans ==
  ASSUME NEW a, NEW b
  PROVE  Lifecycle!Forward(a, b) <=>
           /\ b # NoOrder
           /\ b.status \in Statuses
           /\ IF a = NoOrder THEN Consistent(b) ELSE Onward(a, b)
  BY DEF Lifecycle!Forward, Lifecycle!Onward, Lifecycle!Consistent, Lifecycle!Later,
         Lifecycle!Statuses, Lifecycle!Working, Lifecycle!Terminal,
         Onward, Consistent, Later, Statuses, Working, Terminal

\* Every step of the registry keeps the promise of every order.
LEMMA StepForward ==
  ASSUME TypeOK, OrdersConsistent, [Next]_vars
  PROVE  \A i \in OrderIds : orders'[i] = orders[i] \/ Lifecycle!Forward(orders[i], orders'[i])
<1>0. ASSUME NEW i \in OrderIds, Known(i)
      PROVE  /\ orders[i] \in Order /\ Record(orders[i]) /\ Consistent(orders[i])
             /\ orders[i] # NoOrder
  BY <1>0, OrderIsRecord DEF TypeOK, OrdersConsistent, Known
<1>u. ASSUME NEW i \in OrderIds, Known(i), NEW o, NEW e, Update(i, o, e),
             o \in Order, Onward(orders[i], o)
      PROVE  \A j \in OrderIds : orders'[j] = orders[j]
                                   \/ Lifecycle!Forward(orders[j], orders'[j])
  <2>1. Lifecycle!Forward(orders[i], o)
    BY <1>u, <1>0, ForwardMeans, OrderIsKnown DEF Order
  <2> QED
    BY <1>u, <2>1 DEF Update, TypeOK
<1>m. ASSUME NEW i \in OrderIds, Known(i), NEW e,
             NEW s \in {"ACCEPTED", "REJECTED", "CANCEL_PENDING", "CANCELLED", "EXPIRED"},
             CanMove(orders[i].status, s), Update(i, MoveTo(orders[i], s), e)
      PROVE  \A j \in OrderIds : orders'[j] = orders[j]
                                   \/ Lifecycle!Forward(orders[j], orders'[j])
  <2>1. s \in Statuses
    BY DEF Statuses, Working, Terminal
  <2> QED
    BY <1>m, <1>0, <1>u, <2>1, MoveTyped, MoveOnward
<1>1. ASSUME NEW k \in ClientKeys, NEW i \in OrderIds, NEW q \in 1..MaxQty, Create(k, i, q)
      PROVE  \A j \in OrderIds : orders'[j] = orders[j]
                                   \/ Lifecycle!Forward(orders[j], orders'[j])
  <2> DEFINE o == [status |-> "CREATED", filled |-> 0, qty |-> q]
  <2>1. o # NoOrder /\ o.status \in Statuses /\ Consistent(o)
    BY MaxQtyAssumption DEF NoOrder, Statuses, Consistent
  <2>2. orders[i] = NoOrder /\ orders' = [orders EXCEPT ![i] = o]
    BY <1>1 DEF Create, Known
  <2>3. Lifecycle!Forward(orders[i], o)
    BY <2>1, <2>2, ForwardMeans
  <2> QED
    BY <2>2, <2>3 DEF TypeOK
<1>2. ASSUME NEW i \in OrderIds, Reject(i)
      PROVE  \A j \in OrderIds : orders'[j] = orders[j]
                                   \/ Lifecycle!Forward(orders[j], orders'[j])
  BY <1>2, <1>m DEF Reject, CanReject, AfterReject
<1>3. ASSUME NEW i \in OrderIds, Accept(i)
      PROVE  \A j \in OrderIds : orders'[j] = orders[j]
                                   \/ Lifecycle!Forward(orders[j], orders'[j])
  BY <1>3, <1>m DEF Accept, CanAccept, AfterAccept
<1>4. ASSUME NEW i \in OrderIds, RequestCancel(i)
      PROVE  \A j \in OrderIds : orders'[j] = orders[j]
                                   \/ Lifecycle!Forward(orders[j], orders'[j])
  <2>1. PICK s \in {"CANCELLED", "CANCEL_PENDING"} :
          /\ AfterRequestCancel(orders[i]) = MoveTo(orders[i], s)
          /\ CanMove(orders[i].status, s)
    BY <1>4, <1>0 DEF RequestCancel, AfterRequestCancel, Order, Statuses, Working, Terminal,
                      CanMove, Allowed
  <2> QED
    BY <1>4, <1>m, <2>1 DEF RequestCancel
<1>5. ASSUME NEW i \in OrderIds, ConfirmCancel(i)
      PROVE  \A j \in OrderIds : orders'[j] = orders[j]
                                   \/ Lifecycle!Forward(orders[j], orders'[j])
  BY <1>5, <1>m DEF ConfirmCancel, CanConfirmCancel, AfterConfirmCancel
<1>6. ASSUME NEW i \in OrderIds, Expire(i)
      PROVE  \A j \in OrderIds : orders'[j] = orders[j]
                                   \/ Lifecycle!Forward(orders[j], orders'[j])
  BY <1>6, <1>m DEF Expire, CanExpire, AfterExpire
<1>7. ASSUME NEW i \in OrderIds, NEW n \in 1..MaxQty, ApplyFill(i, n)
      PROVE  \A j \in OrderIds : orders'[j] = orders[j]
                                   \/ Lifecycle!Forward(orders[j], orders'[j])
  <2>1. n \in Nat \ {0}
    BY MaxQtyAssumption
  <2>2. /\ AfterFill(orders[i], n) \in Order
        /\ Onward(orders[i], AfterFill(orders[i], n))
    BY <1>7, <1>0, <2>1, FillTyped, FillOnward DEF ApplyFill
  <2> QED
    BY <1>7, <1>u, <2>2 DEF ApplyFill
<1>8. ASSUME NEW i \in OrderIds, NEW rejected \in BOOLEAN, CloseUnfilled(i, rejected)
      PROVE  \A j \in OrderIds : orders'[j] = orders[j]
                                   \/ Lifecycle!Forward(orders[j], orders'[j])
  <2>1. PICK s \in {"REJECTED", "CANCELLED"} :
          /\ AfterClose(orders[i], rejected) = MoveTo(orders[i], s)
          /\ orders[i].status = s \/ CanMove(orders[i].status, s)
    BY <1>8 DEF CloseUnfilled, CanClose, CanReject, CanConfirmCancel, AfterClose,
                AfterReject, AfterConfirmCancel
  <2>2. orders[i].status # s
    BY <1>8, <1>0, <2>1 DEF CloseUnfilled, MoveTo, Order
  <2> QED
    BY <1>8, <1>m, <2>1, <2>2 DEF CloseUnfilled
<1>9. CASE UNCHANGED vars
  BY <1>9 DEF vars
<1> QED
  BY <1>1, <1>2, <1>3, <1>4, <1>5, <1>6, <1>7, <1>8, <1>9 DEF Next

\* The status and the filled quantity of every order agree in every reachable
\* state: what the tests of single transitions cannot show.
THEOREM Consistency == Spec => []OrdersConsistent
<1>1. Init => OrdersConsistent
  BY DEF Init, OrdersConsistent, Known
<1>2. TypeOK /\ OrdersConsistent /\ [Next]_vars => OrdersConsistent'
  <2> SUFFICES ASSUME TypeOK, OrdersConsistent, [Next]_vars, NEW i \in OrderIds, Known(i)'
               PROVE  Consistent(orders[i])'
    BY DEF OrdersConsistent
  <2>1. orders'[i] = orders[i] \/ Lifecycle!Forward(orders[i], orders'[i])
    BY StepForward
  <2>2. CASE orders'[i] = orders[i]
    BY <2>2 DEF OrdersConsistent, Known, Consistent
  <2>3. CASE Lifecycle!Forward(orders[i], orders'[i])
    BY <2>3, ForwardMeans DEF Onward, Consistent
  <2> QED
    BY <2>1, <2>2, <2>3
<1> QED
  BY <1>1, <1>2, TypeCorrect, PTL DEF Spec

\* The registry implements the promised order lifecycle.
THEOREM ImplementsLifecycle == Spec => LifecycleSpec
<1>1. Init => Lifecycle!Init
  BY DEF Init, Lifecycle!Init
<1>2. TypeOK /\ OrdersConsistent /\ [Next]_vars => [Lifecycle!Next]_orders
  BY StepForward DEF Lifecycle!Next
<1> QED
  BY <1>1, <1>2, TypeCorrect, Consistency, PTL DEF Spec, LifecycleSpec, Lifecycle!Spec

\* A client key names one order for ever, no two keys share one, and no order
\* is without a key.
THEOREM KeysNameOrders == Spec => []ClientKeysInjective
<1>1. Init => ClientKeysInjective
  BY DEF Init, ClientKeysInjective, Known
<1>2. TypeOK /\ OrdersConsistent /\ ClientKeysInjective /\ [Next]_vars => ClientKeysInjective'
  <2> SUFFICES ASSUME TypeOK, OrdersConsistent, ClientKeysInjective, [Next]_vars
               PROVE  ClientKeysInjective'
    OBVIOUS
  <2>0. \A i \in OrderIds : orders[i] # NoOrder => orders'[i] # NoOrder
    BY StepForward, ForwardMeans
  <2>1. ASSUME NEW k \in ClientKeys, NEW i \in OrderIds, NEW q \in 1..MaxQty, Create(k, i, q)
        PROVE  ClientKeysInjective'
    <3>1. /\ orders' = [orders EXCEPT ![i] = [status |-> "CREATED", filled |-> 0, qty |-> q]]
          /\ byClient' = [byClient EXCEPT ![k] = i]
          /\ byClient[k] = NoId /\ orders[i] = NoOrder /\ i # NoId
      BY <2>1, IdsAssumption DEF Create, FreshKey, Known, NoId
    <3>2. \A j \in OrderIds : orders'[j] # NoOrder <=> orders[j] # NoOrder \/ j = i
      BY <3>1, MaxQtyAssumption DEF TypeOK, NoOrder
    <3>3. \A j \in ClientKeys : byClient[j] # i
      BY <3>1 DEF ClientKeysInjective, Known
    <3>4. \A j \in ClientKeys : byClient'[j] = IF j = k THEN i ELSE byClient[j]
      BY <3>1 DEF TypeOK
    <3>5. \A j \in ClientKeys : byClient'[j] # NoId => orders'[byClient'[j]] # NoOrder
      <4> SUFFICES ASSUME NEW j \in ClientKeys, byClient'[j] # NoId
                   PROVE  orders'[byClient'[j]] # NoOrder
        OBVIOUS
      <4>1. byClient'[j] \in OrderIds
        BY <3>4 DEF TypeOK
      <4> QED
        BY <3>2, <3>4, <4>1 DEF ClientKeysInjective, Known
    <3>6. \A j, l \in ClientKeys : byClient'[j] = byClient'[l] /\ byClient'[j] # NoId => j = l
      BY <3>3, <3>4 DEF ClientKeysInjective
    <3>7. \A j \in OrderIds : orders'[j] # NoOrder => \E l \in ClientKeys : byClient'[l] = j
      <4> SUFFICES ASSUME NEW j \in OrderIds, j # i, orders[j] # NoOrder
                   PROVE  \E l \in ClientKeys : byClient'[l] = j
        BY <3>2, <3>4
      <4>1. PICK l \in ClientKeys : byClient[l] = j
        BY DEF ClientKeysInjective, Known
      <4>2. l # k
        BY <3>1, <4>1, IdsAssumption DEF NoId
      <4> QED
        BY <3>4, <4>1, <4>2
    <3> QED
      BY <3>5, <3>6, <3>7 DEF ClientKeysInjective, Known
  <2>2. ASSUME NEW i \in OrderIds, Known(i), NEW o, NEW e, Update(i, o, e)
        PROVE  ClientKeysInjective'
    <3>1. \A j \in OrderIds : orders'[j] # NoOrder <=> orders[j] # NoOrder
      BY <2>0, <2>2 DEF Update, Known, TypeOK
    <3>2. byClient' = byClient
      BY <2>2 DEF Update
    <3>3. \A k \in ClientKeys : byClient[k] # NoId => orders'[byClient[k]] # NoOrder
      BY <3>1 DEF ClientKeysInjective, TypeOK, Known
    <3> QED
      BY <3>1, <3>2, <3>3 DEF ClientKeysInjective, Known
  <2>3. CASE UNCHANGED vars
    BY <2>3 DEF vars, ClientKeysInjective, Known
  <2> QED
    BY <2>1, <2>2, <2>3
    DEF Next, Reject, Accept, RequestCancel, ConfirmCancel, Expire, ApplyFill, CloseUnfilled
<1> QED
  BY <1>1, <1>2, TypeCorrect, Consistency, PTL DEF Spec

\* No method appends to the log of a closed order: the journal of an order ends
\* with the event that closed it.
THEOREM ClosedLogs == Spec => ClosedLogIsFinal
<1>1. TypeOK /\ [Next]_vars
        => [\A i \in OrderIds : orders[i].status \in Terminal => log'[i] = log[i]]_vars
  <2> SUFFICES ASSUME TypeOK, Next, NEW j \in OrderIds, orders[j].status \in Terminal
               PROVE  log'[j] = log[j]
    OBVIOUS
  <2>u. ASSUME NEW i \in OrderIds, i # j, NEW o, NEW e, Update(i, o, e)
        PROVE  log'[j] = log[j]
    BY <2>u DEF Update, TypeOK
  <2>1. /\ \A s \in {"ACCEPTED", "REJECTED", "EXPIRED"} : ~CanMove(orders[j].status, s)
        /\ CanConfirmCancel(orders[j]) => orders[j].status = "CANCELLED"
        /\ AfterRequestCancel(orders[j]) = orders[j]
        /\ \A n \in 1..MaxQty : ~CanFill(orders[j], n)
    BY DEF CanMove, Allowed, CanConfirmCancel, AfterRequestCancel, CanFill, Terminal, Working
  <2>2. orders[j] \in Order
    BY DEF TypeOK, NoOrder, Terminal
  <2>3. orders[j].status = "CANCELLED" => AfterConfirmCancel(orders[j]) = orders[j]
    BY <2>2 DEF AfterConfirmCancel, MoveTo, Order
  <2>4. ASSUME NEW k \in ClientKeys, NEW i \in OrderIds, NEW q \in 1..MaxQty, Create(k, i, q)
        PROVE  log'[j] = log[j]
    BY <2>4, <2>2, OrderIsKnown DEF Create, Known, TypeOK
  <2>5. ASSUME NEW i \in OrderIds,
               \/ Reject(i) \/ Accept(i) \/ RequestCancel(i) \/ ConfirmCancel(i) \/ Expire(i)
               \/ \E n \in 1..MaxQty : ApplyFill(i, n)
        PROVE  log'[j] = log[j]
    <3>1. i # j
      BY <2>5, <2>1 DEF Reject, Accept, RequestCancel, ConfirmCancel, Expire, ApplyFill,
                        CanReject, CanAccept
    <3> QED
      BY <2>5, <2>u, <3>1 DEF Reject, Accept, RequestCancel, ConfirmCancel, Expire, ApplyFill
  <2>6. ASSUME NEW i \in OrderIds, NEW rejected \in BOOLEAN, CloseUnfilled(i, rejected)
        PROVE  log'[j] = log[j]
    <3>1. i # j
      BY <2>6, <2>1, <2>3 DEF CloseUnfilled, CanClose, AfterClose, CanReject
    <3> QED
      BY <2>6, <2>u, <3>1 DEF CloseUnfilled
  <2> QED
    BY <2>4, <2>5, <2>6 DEF Next
<1> QED
  BY <1>1, TypeCorrect, PTL DEF Spec, ClosedLogIsFinal

----------------------------------------------------------------------------
(* What an event log tells *)

Story == [status : {"NONE", "PARTIALLY_FILLED", "CANCEL_PENDING", "CREATED", "REJECTED",
                    "ACCEPTED", "CANCELLED", "EXPIRED"},
          filled : Nat]

LEMMA RetoldTyped ==
  ASSUME NEW s \in Story, NEW e \in LogEvent
  PROVE  Retold(s, e) \in Story
<1>1. e.qty \in Nat /\ e.kind \in {"CREATED", "REJECTED", "ACCEPTED", "FILL", "CANCEL_REQUESTED",
                                  "CANCELLED", "EXPIRED"}
  BY MaxQtyAssumption DEF LogEvent
<1>2. CASE e.kind = "FILL"
  <2>1. s.filled + e.qty \in Nat
    BY <1>1 DEF Story
  <2> QED
    BY <1>2, <2>1 DEF Retold, Story
<1>3. CASE e.kind # "FILL"
  BY <1>1, <1>3 DEF Retold, Story
<1> QED
  BY <1>2, <1>3

\* g tells the story of the log q, event by event.
Tells(g, q) == g = [n \in 0..Len(q) |-> IF n = 0 THEN Untold ELSE Retold(g[n - 1], q[n])]

\* Every log has a story, and only one.
LEMMA StoryExists ==
  ASSUME NEW q \in Seq(LogEvent)
  PROVE  \E g : Tells(g, q)
<1> DEFINE step == [n \in 1..Len(q) |-> [s \in Story |-> Retold(s, q[n])]]
<1>1. Len(q) \in Nat /\ \A n \in 1..Len(q) : q[n] \in LogEvent
  OBVIOUS
<1>2. Untold \in Story
  BY DEF Untold, Story
<1>3. step \in [1..Len(q) -> [Story -> Story]]
  BY <1>1, RetoldTyped
<1>4. PICK g \in [0..Len(q) -> Story] :
        g[0] = Untold /\ \A n \in 1..Len(q) : g[n] = step[n][g[n - 1]]
  <2> DEFINE k == Len(q)
  <2>1. step \in [1..k -> [Story -> Story]] /\ k \in Nat
    BY <1>1, <1>3
  <2> HIDE DEF step, k
  <2>2. \E g \in [0..k -> Story] : g[0] = Untold /\ \A i \in 1..k : g[i] = step[i][g[i - 1]]
    BY <1>2, <2>1, WalkExists
  <2> QED
    BY <2>2 DEF k
<1>5. ASSUME NEW n \in 0..Len(q)
      PROVE  g[n] = IF n = 0 THEN Untold ELSE Retold(g[n - 1], q[n])
  <2>1. CASE n = 0
    BY <1>4, <2>1
  <2>2. CASE n # 0
    <3>1. n \in 1..Len(q) /\ n - 1 \in 0..Len(q)
      BY <1>1, <2>2
    <3>2. g[n - 1] \in Story
      BY <1>4, <3>1
    <3> QED
      BY <1>4, <2>2, <3>1, <3>2
  <2> QED
    BY <2>1, <2>2
<1>6. Tells(g, q)
  BY <1>4, <1>5 DEF Tells
<1> QED
  BY <1>6

LEMMA StoryUnique ==
  ASSUME NEW q \in Seq(LogEvent), NEW g, NEW h, Tells(g, q), Tells(h, q)
  PROVE  g = h
<1> DEFINE Good == {n \in 0..Len(q) : g[n] = h[n]}
<1>1. Len(q) \in Nat
  OBVIOUS
<1>2. 0 \in Good
  BY <1>1 DEF Tells
<1>3. ASSUME NEW n \in 0..(Len(q) - 1), n \in Good PROVE n + 1 \in Good
  <2>1. n + 1 \in 0..Len(q) /\ n + 1 # 0 /\ (n + 1) - 1 = n
    BY <1>1
  <2>2. g[n + 1] = Retold(g[n], q[n + 1]) /\ h[n + 1] = Retold(h[n], q[n + 1])
    BY <2>1 DEF Tells
  <2> QED
    BY <1>3, <2>1, <2>2
<1>4. \A n \in 0..Len(q) : n \in Good
  <2> HIDE DEF Good
  <2> QED
    BY <1>1, <1>2, <1>3, CountInduction
<1>5. \A n \in 0..Len(q) : g[n] = h[n]
  BY <1>4
<1>6. /\ g = [n \in 0..Len(q) |-> g[n]]
      /\ h = [n \in 0..Len(q) |-> h[n]]
  BY DEF Tells
<1> QED
  BY <1>5, <1>6

LEMMA ReplayTells ==
  ASSUME NEW q \in Seq(LogEvent), NEW g, Tells(g, q)
  PROVE  Replay(q) = g[Len(q)]
<1> DEFINE h == CHOOSE f : Tells(f, q)
<1>1. Replay(q) = h[Len(q)]
  BY DEF Replay, Tells
<1>2. Tells(h, q)
  BY StoryExists
<1> HIDE DEF h
<1>3. h = g
  BY <1>2, StoryUnique
<1> QED
  BY <1>1, <1>3

\* One more event is told after the others.
LEMMA ReplayAppend ==
  ASSUME NEW q \in Seq(LogEvent), NEW e \in LogEvent
  PROVE  Replay(Append(q, e)) = Retold(Replay(q), e)
<1> DEFINE r == Append(q, e)
           k == Len(q)
<1>1. /\ r \in Seq(LogEvent) /\ Len(r) = k + 1 /\ k \in Nat /\ r[k + 1] = e
      /\ \A n \in 1..k : r[n] = q[n]
  OBVIOUS
<1> HIDE DEF r, k
<1>2. PICK g : Tells(g, r)
  BY <1>1, StoryExists
<1> DEFINE h == [n \in 0..k |-> g[n]]
<1>3. \A n \in 0..(k + 1) : g[n] = IF n = 0 THEN Untold ELSE Retold(g[n - 1], r[n])
  BY <1>1, <1>2 DEF Tells
<1>4. ASSUME NEW n \in 0..k
      PROVE  h[n] = IF n = 0 THEN Untold ELSE Retold(h[n - 1], q[n])
  <2>1. n \in 0..(k + 1)
    BY <1>1
  <2>2. CASE n = 0
    BY <1>3, <2>1, <2>2
  <2>3. CASE n # 0
    <3>1. n \in 1..k /\ n - 1 \in 0..k
      BY <1>1, <2>3
    <3>2. h[n - 1] = g[n - 1] /\ h[n] = g[n] /\ r[n] = q[n]
      BY <1>1, <3>1
    <3>3. g[n] = Retold(g[n - 1], r[n])
      BY <1>3, <2>1, <2>3
    <3> HIDE DEF h
    <3> QED
      BY <2>3, <3>2, <3>3
  <2> QED
    BY <2>2, <2>3
<1>5. h = [n \in 0..k |-> IF n = 0 THEN Untold ELSE Retold(h[n - 1], q[n])]
  <2>1. DOMAIN h = 0..k /\ h = [n \in 0..k |-> h[n]]
    OBVIOUS
  <2> HIDE DEF h
  <2> QED
    BY <1>4, <2>1
<1>6. Tells(h, q)
  <2> HIDE DEF h
  <2> QED
    BY <1>5 DEF Tells, k
<1>7. Replay(q) = g[k]
  <2>1. Replay(q) = h[k]
    <3> HIDE DEF h
    <3> QED
      BY <1>6, ReplayTells DEF k
  <2> QED
    BY <1>1, <2>1
<1>8. Replay(r) = g[k + 1]
  BY <1>1, <1>2, ReplayTells
<1>9. g[k + 1] = Retold(g[k], e)
  <2>1. k + 1 \in 0..(k + 1) /\ k + 1 # 0 /\ (k + 1) - 1 = k
    BY <1>1
  <2> QED
    BY <1>1, <1>3, <2>1
<1> QED
  BY <1>7, <1>8, <1>9 DEF r

\* Replaying a log gives a status and a quantity; an empty log tells nothing.
LEMMA ReplayTyped ==
  ASSUME NEW q \in Seq(LogEvent)
  PROVE  Replay(q) \in Story
<1> DEFINE Good == {n \in 0..Len(q) : \A g : Tells(g, q) => g[n] \in Story}
<1>1. Len(q) \in Nat /\ \A n \in 1..Len(q) : q[n] \in LogEvent
  OBVIOUS
<1>2. 0 \in Good
  BY <1>1 DEF Tells, Untold, Story
<1>3. ASSUME NEW n \in 0..(Len(q) - 1), n \in Good PROVE n + 1 \in Good
  <2>1. n + 1 \in 1..Len(q) /\ n + 1 \in 0..Len(q) /\ n + 1 # 0 /\ (n + 1) - 1 = n
    BY <1>1
  <2> SUFFICES ASSUME NEW g, Tells(g, q) PROVE g[n + 1] \in Story
    BY <2>1
  <2>2. g[n + 1] = Retold(g[n], q[n + 1])
    BY <2>1 DEF Tells
  <2>3. g[n] \in Story
    BY <1>3
  <2> QED
    BY <1>1, <2>1, <2>2, <2>3, RetoldTyped
<1>4. \A n \in 0..Len(q) : n \in Good
  <2> HIDE DEF Good
  <2> QED
    BY <1>1, <1>2, <1>3, CountInduction
<1>5. PICK g : Tells(g, q)
  BY StoryExists
<1>6. Replay(q) = g[Len(q)]
  BY <1>5, ReplayTells
<1> QED
  BY <1>1, <1>4, <1>5, <1>6

LEMMA ReplayNothing == Replay(<<>>) = Untold
<1>1. <<>> \in Seq(LogEvent) /\ Len(<<>>) = 0
  OBVIOUS
<1>2. PICK g : Tells(g, <<>>)
  BY <1>1, StoryExists
<1>3. g[0] = Untold
  BY <1>1, <1>2 DEF Tells
<1> QED
  BY <1>1, <1>2, <1>3, ReplayTells

\* What a log tells of an order.
Told(o, q) ==
  LET s == Replay(q)
  IN  /\ s.filled = o.filled
      /\ o.status = IF s.filled = o.qty THEN "FILLED" ELSE s.status

\* A method that only changes the status of an open order tells it.
LEMMA MoveTold ==
  ASSUME NEW o \in Order, Consistent(o), o.status \notin Terminal,
         NEW q \in Seq(LogEvent), Told(o, q), NEW s,
         NEW kind, \/ s \in {"REJECTED", "ACCEPTED", "CANCELLED", "EXPIRED"} /\ kind = s
                   \/ s = "CANCEL_PENDING" /\ kind = "CANCEL_REQUESTED"
  PROVE  Told(MoveTo(o, s), Append(q, Event(kind, 0)))
<1> DEFINE e == Event(kind, 0)
<1>1. e \in LogEvent /\ e.kind = kind
  BY MaxQtyAssumption DEF Event, LogEvent
<1>2. s \in Statuses
  BY DEF Statuses, Working, Terminal
<1>3. o.filled # o.qty
  BY DEF Consistent, Terminal
<1>4. Replay(q) \in Story
  BY ReplayTyped
<1>5. Retold(Replay(q), e) = [Replay(q) EXCEPT !.status = s]
  BY <1>1 DEF Retold
<1>6. Replay(Append(q, e)) = Retold(Replay(q), e)
  BY <1>1, ReplayAppend
<1>7. /\ Retold(Replay(q), e).status = s
      /\ Retold(Replay(q), e).filled = Replay(q).filled
  BY <1>4, <1>5 DEF Story
<1> HIDE DEF e
<1>8. Told(MoveTo(o, s), Append(q, e))
  BY <1>2, <1>3, <1>6, <1>7, MoveTyped DEF Told
<1> QED
  BY <1>8 DEF e

\* A fill tells the quantity it adds, and keeps a requested cancel pending.
LEMMA FillTold ==
  ASSUME NEW o \in Order, Consistent(o), NEW n \in 1..MaxQty, CanFill(o, n),
         NEW q \in Seq(LogEvent), Told(o, q)
  PROVE  Told(AfterFill(o, n), Append(q, Event("FILL", n)))
<1> DEFINE e == Event("FILL", n)
<1>1. e \in LogEvent /\ e.kind = "FILL" /\ e.qty = n
  BY MaxQtyAssumption DEF Event, LogEvent
<1>2. o.filled # o.qty /\ o.filled + n <= o.qty /\ o.filled \in Nat /\ o.qty \in Nat /\ n \in Nat
  BY MaxQtyAssumption DEF Consistent, CanFill, Working, Order
<1>3. Replay(Append(q, e)) = Retold(Replay(q), e)
  BY <1>1, ReplayAppend
<1>4. /\ Retold(Replay(q), e).filled = Replay(q).filled + n
      /\ Retold(Replay(q), e).status = IF Replay(q).status = "CANCEL_PENDING"
                                         THEN "CANCEL_PENDING" ELSE "PARTIALLY_FILLED"
  BY <1>1 DEF Retold
<1>5. Replay(q).filled = o.filled /\ o.status = Replay(q).status
  BY <1>2 DEF Told
<1>6. /\ AfterFill(o, n).filled = o.filled + n
      /\ AfterFill(o, n).qty = o.qty
      /\ AfterFill(o, n).status = StatusAfterFill(o, n)
  BY DEF AfterFill, Order
<1>7. /\ o.filled + n = o.qty => StatusAfterFill(o, n) = "FILLED"
      /\ o.filled + n # o.qty =>
           StatusAfterFill(o, n) = IF o.status = "CANCEL_PENDING"
                                     THEN "CANCEL_PENDING" ELSE "PARTIALLY_FILLED"
  BY <1>2 DEF StatusAfterFill
<1> HIDE DEF e
<1>8. Told(AfterFill(o, n), Append(q, e))
  BY <1>3, <1>4, <1>5, <1>6, <1>7 DEF Told
<1> QED
  BY <1>8 DEF e

\* Replaying the recorded events of an order rebuilds its status and its filled
\* quantity in every reachable state, whatever methods were called on it: no
\* method changes an order without appending the event that says so.
THEOREM LogTellsOrderHolds == Spec => []LogTellsOrder
<1> DEFINE AllTold == \A i \in OrderIds : Known(i) => Told(orders[i], log[i])
<1>0. LogTellsOrder <=> AllTold
  BY DEF LogTellsOrder, Told
<1>1. Init => AllTold
  BY DEF Init, Known
<1>2. TypeOK /\ OrdersConsistent /\ AllTold /\ [Next]_vars => AllTold'
  <2> SUFFICES ASSUME TypeOK, OrdersConsistent, AllTold, [Next]_vars
               PROVE  AllTold'
    OBVIOUS
  <2>0. ASSUME NEW i \in OrderIds, Known(i)
        PROVE  /\ orders[i] \in Order /\ Consistent(orders[i])
               /\ log[i] \in Seq(LogEvent) /\ Told(orders[i], log[i])
    BY <2>0 DEF TypeOK, OrdersConsistent, Known
  <2>u. ASSUME NEW i \in OrderIds, NEW o, NEW e, Update(i, o, e),
               Told(o, Append(log[i], e))
        PROVE  AllTold'
    <3>1. orders'[i] = o /\ log'[i] = Append(log[i], e)
      BY <2>u DEF Update, TypeOK
    <3>2. \A j \in OrderIds \ {i} : orders'[j] = orders[j] /\ log'[j] = log[j]
      BY <2>u DEF Update, TypeOK
    <3> QED
      BY <2>u, <3>1, <3>2 DEF Known
  <2>m. ASSUME NEW i \in OrderIds, Known(i), NEW s, NEW kind,
               orders[i].status \notin Terminal,
               \/ s \in {"REJECTED", "ACCEPTED", "CANCELLED", "EXPIRED"} /\ kind = s
               \/ s = "CANCEL_PENDING" /\ kind = "CANCEL_REQUESTED",
               Update(i, MoveTo(orders[i], s), Event(kind, 0))
        PROVE  AllTold'
    <3> HIDE DEF AllTold
    <3>1. Told(MoveTo(orders[i], s), Append(log[i], Event(kind, 0)))
      BY <2>0, <2>m, MoveTold
    <3> QED
      BY <2>m, <2>u, <3>1
  <2>c. ASSUME NEW i \in OrderIds, NEW s, CanMove(orders[i].status, s)
        PROVE  orders[i].status \in Statuses => orders[i].status \notin Terminal
    BY <2>c DEF CanMove, Allowed, Terminal, Working, Statuses
  <2>s. ASSUME NEW i \in OrderIds, Known(i) PROVE orders[i].status \in Statuses
    BY <2>s, <2>0 DEF Order
  <2>1. ASSUME NEW k \in ClientKeys, NEW i \in OrderIds, NEW q \in 1..MaxQty, Create(k, i, q)
        PROVE AllTold'
    <3> DEFINE e == Event("CREATED", 0)
               o == [status |-> "CREATED", filled |-> 0, qty |-> q]
    <3>1. e \in LogEvent /\ e.kind = "CREATED"
      BY MaxQtyAssumption DEF Event, LogEvent
    <3>2. Replay(<<e>>) = [Untold EXCEPT !.status = "CREATED"]
      <4>1. Append(<<>>, e) = <<e>> /\ <<>> \in Seq(LogEvent)
        OBVIOUS
      <4>2. Replay(Append(<<>>, e)) = Retold(Replay(<<>>), e)
        BY <3>1, <4>1, ReplayAppend
      <4> QED
        BY <3>1, <4>1, <4>2, ReplayNothing DEF Retold
    <3>3. Replay(<<e>>).status = "CREATED" /\ Replay(<<e>>).filled = 0
      BY <3>2 DEF Untold
    <3>4. orders'[i] = o /\ log'[i] = <<e>>
      BY <2>1 DEF Create, TypeOK
    <3>5. \A j \in OrderIds \ {i} : orders'[j] = orders[j] /\ log'[j] = log[j]
      BY <2>1 DEF Create, TypeOK
    <3>6. Told(o, <<e>>)
      BY <3>3, MaxQtyAssumption DEF Told
    <3> HIDE DEF e, o
    <3> QED
      BY <3>4, <3>5, <3>6 DEF Known
  <2> HIDE DEF AllTold
  <2>2. ASSUME NEW i \in OrderIds, Reject(i) PROVE AllTold'
    BY <2>2, <2>m, <2>c, <2>s DEF Reject, CanReject, AfterReject
  <2>3. ASSUME NEW i \in OrderIds, Accept(i) PROVE AllTold'
    BY <2>3, <2>m, <2>c, <2>s DEF Accept, CanAccept, AfterAccept
  <2>4. ASSUME NEW i \in OrderIds, RequestCancel(i) PROVE AllTold'
    <3> DEFINE o == AfterRequestCancel(orders[i])
    <3>1. orders[i] \in Order /\ Known(i) /\ o # orders[i]
      BY <2>0, <2>4 DEF RequestCancel
    <3>2. orders[i].status \notin Terminal
      BY <3>1 DEF AfterRequestCancel
    <3>3. \/ o = MoveTo(orders[i], "CANCELLED")
          \/ o = MoveTo(orders[i], "CANCEL_PENDING")
      BY <3>1, CancelRequestTyped
    <3>4. CASE o = MoveTo(orders[i], "CANCELLED")
      <4>1. Update(i, MoveTo(orders[i], "CANCELLED"), Event("CANCELLED", 0))
        BY <2>4, <3>1, <3>4, MoveTyped DEF RequestCancel, Statuses, Terminal
      <4> QED
        BY <3>1, <3>2, <4>1, <2>m
    <3>5. CASE o = MoveTo(orders[i], "CANCEL_PENDING")
      <4>1. o.status = "CANCEL_PENDING"
        BY <3>1, <3>5, MoveTyped DEF Statuses, Working
      <4>2. Update(i, MoveTo(orders[i], "CANCEL_PENDING"), Event("CANCEL_REQUESTED", 0))
        BY <2>4, <3>5, <4>1 DEF RequestCancel
      <4> QED
        BY <3>1, <3>2, <4>2, <2>m
    <3> QED
      BY <3>3, <3>4, <3>5
  <2>5. ASSUME NEW i \in OrderIds, ConfirmCancel(i) PROVE AllTold'
    BY <2>5, <2>m, <2>c, <2>s DEF ConfirmCancel, CanConfirmCancel, AfterConfirmCancel
  <2>6. ASSUME NEW i \in OrderIds, Expire(i) PROVE AllTold'
    BY <2>6, <2>m DEF Expire, AfterExpire
  <2>7. ASSUME NEW i \in OrderIds, NEW n \in 1..MaxQty, ApplyFill(i, n) PROVE AllTold'
    BY <2>7, <2>0, <2>u, FillTold DEF ApplyFill
  <2>8. ASSUME NEW i \in OrderIds, NEW rejected \in BOOLEAN, CloseUnfilled(i, rejected)
        PROVE AllTold'
    <3>1. PICK s \in {"REJECTED", "CANCELLED"} :
            /\ AfterClose(orders[i], rejected) = MoveTo(orders[i], s)
            /\ orders[i].status = s \/ CanMove(orders[i].status, s)
      BY <2>8 DEF CloseUnfilled, CanClose, CanReject, CanConfirmCancel, AfterClose,
                  AfterReject, AfterConfirmCancel
    <3>2. orders[i] \in Order /\ Known(i)
      BY <2>0, <2>8 DEF CloseUnfilled
    <3>3. orders[i].status # s
      BY <2>8, <3>1, <3>2 DEF CloseUnfilled, MoveTo, Order
    <3>4. MoveTo(orders[i], s).status = s
      BY <3>2, MoveTyped DEF Statuses, Terminal
    <3>5. Update(i, MoveTo(orders[i], s), Event(s, 0))
      BY <2>8, <3>1, <3>4 DEF CloseUnfilled
    <3> QED
      BY <3>1, <3>2, <3>3, <3>5, <2>m, <2>c, <2>s
  <2>9. CASE UNCHANGED vars
    BY <2>9 DEF vars, Known, AllTold
  <2> QED
    BY <2>1, <2>2, <2>3, <2>4, <2>5, <2>6, <2>7, <2>8, <2>9 DEF Next
<1> HIDE DEF AllTold
<1> QED
  BY <1>0, <1>1, <1>2, TypeCorrect, Consistency, PTL DEF Spec
====
