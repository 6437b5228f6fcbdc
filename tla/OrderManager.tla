---- MODULE OrderManager ----
(***************************************************************************)
(* simulation/order_manager.py: the in-memory registry that owns client-id *)
(* idempotency, every status transition and the order event log.  Any      *)
(* public method may be called with any order at any time; a call whose    *)
(* guard fails raises DomainError and changes nothing.                     *)
(***************************************************************************)
EXTENDS OrderRules, Sequences, FiniteSets

CONSTANTS OrderIds,   \* identifiers uuid4 may return
          ClientKeys, \* (account_id, client_order_id) pairs
          MaxQty      \* bound on an order's quantity
ASSUME MaxQtyAssumption == MaxQty \in Nat \ {0}
ASSUME IdsAssumption == 0 \notin OrderIds

VARIABLES orders,    \* _orders: [OrderIds -> order record or NoOrder]
          byClient,  \* _by_client: [ClientKeys -> order id or NoId]
          log        \* _events of each order, in the order recorded
vars == <<orders, byClient, log>>

NoOrder == [status |-> "NONE", filled |-> 0, qty |-> 0]
NoId    == 0

Known(i) == orders[i] # NoOrder
Event(kind, n) == [kind |-> kind, qty |-> n]

Init == /\ orders   = [i \in OrderIds |-> NoOrder]
        /\ byClient = [k \in ClientKeys |-> NoId]
        /\ log      = [i \in OrderIds |-> <<>>]

\* Mutant: the change is not recorded.
UpdateUnlogged(i, o, event) ==
  orders' = [orders EXCEPT ![i] = o] /\ UNCHANGED <<byClient, log>>
\* The order becomes o; a change is recorded, a call that found nothing to do
\* is not.
Update(i, o, event) ==
  /\ orders' = [orders EXCEPT ![i] = o]
  /\ log'    = [log EXCEPT ![i] = Append(@, event)]
  /\ UNCHANGED byClient

\* Mutant: the client key is not looked up.
AnyKey(k) == TRUE
\* create(): a client key that is known returns the order it names.
FreshKey(k) == byClient[k] = NoId

Create(k, i, q) ==
  /\ FreshKey(k)
  /\ ~Known(i)
  /\ orders'   = [orders EXCEPT ![i] = [status |-> "CREATED", filled |-> 0, qty |-> q]]
  /\ byClient' = [byClient EXCEPT ![k] = i]
  /\ log'      = [log EXCEPT ![i] = <<Event("CREATED", 0)>>]

Reject(i) ==
  /\ Known(i) /\ CanReject(orders[i])
  /\ Update(i, AfterReject(orders[i]), Event("REJECTED", 0))

Accept(i) ==
  /\ Known(i) /\ orders[i].status # "ACCEPTED" /\ CanAccept(orders[i])
  /\ Update(i, AfterAccept(orders[i]), Event("ACCEPTED", 0))

RequestCancel(i) ==
  /\ Known(i) /\ AfterRequestCancel(orders[i]) # orders[i]
  /\ LET o == AfterRequestCancel(orders[i])
     IN  Update(i, o, Event(IF o.status = "CANCELLED" THEN "CANCELLED"
                        ELSE "CANCEL_REQUESTED", 0))

\* Mutant: a cancelled order is cancelled, and recorded, again.
ConfirmCancelAgain(i) ==
  /\ Known(i) /\ CanConfirmCancel(orders[i])
  /\ Update(i, AfterConfirmCancel(orders[i]), Event("CANCELLED", 0))
ConfirmCancel(i) ==
  /\ Known(i) /\ orders[i].status # "CANCELLED" /\ CanConfirmCancel(orders[i])
  /\ Update(i, AfterConfirmCancel(orders[i]), Event("CANCELLED", 0))

Expire(i) ==
  /\ Known(i) /\ orders[i].status \notin Terminal /\ CanExpire(orders[i])
  /\ Update(i, AfterExpire(orders[i]), Event("EXPIRED", 0))

ApplyFill(i, n) ==
  /\ Known(i) /\ CanFill(orders[i], n)
  /\ Update(i, AfterFill(orders[i], n), Event("FILL", n))

CloseUnfilled(i, rejected) ==
  /\ Known(i) /\ CanClose(orders[i], rejected)
  /\ AfterClose(orders[i], rejected) # orders[i]
  /\ LET o == AfterClose(orders[i], rejected) IN Update(i, o, Event(o.status, 0))

Next ==
  \/ \E k \in ClientKeys, i \in OrderIds, q \in 1..MaxQty : Create(k, i, q)
  \/ \E i \in OrderIds :
       \/ Reject(i) \/ Accept(i) \/ RequestCancel(i) \/ ConfirmCancel(i) \/ Expire(i)
       \/ \E n \in 1..MaxQty : ApplyFill(i, n)
       \/ \E rejected \in BOOLEAN : CloseUnfilled(i, rejected)

Spec == Init /\ [][Next]_vars

----------------------------------------------------------------------------
Order == [status : Statuses, filled : 0..MaxQty, qty : 1..MaxQty]

LogEvent == [kind : {"CREATED", "REJECTED", "ACCEPTED", "FILL", "CANCEL_REQUESTED",
                     "CANCELLED", "EXPIRED"},
             qty : 0..MaxQty]

TypeOK ==
  /\ orders   \in [OrderIds -> Order \cup {NoOrder}]
  /\ byClient \in [ClientKeys -> OrderIds \cup {NoId}]
  /\ log      \in [OrderIds -> Seq(LogEvent)]

\* The status and the filled quantity of every order agree with each other: an
\* order is FILLED exactly when its whole quantity traded, and one that traded
\* is never left CREATED, ACCEPTED or REJECTED (the transition table is what
\* keeps reject() away from an order with fills).
OrdersConsistent == \A i \in OrderIds : Known(i) => Consistent(orders[i])

\* A client key names one order for ever and no two keys share one: what makes
\* a resent submission safe.
ClientKeysInjective ==
  /\ \A k \in ClientKeys : byClient[k] # NoId => Known(byClient[k])
  /\ \A j, k \in ClientKeys : byClient[j] = byClient[k] /\ byClient[j] # NoId => j = k
  /\ \A i \in OrderIds : Known(i) => \E k \in ClientKeys : byClient[k] = i

\* Replaying an event log rebuilds the order: the status and the filled
\* quantity that the log alone implies.
Retold(s, e) ==
  CASE e.kind = "FILL" ->
         [status |-> IF s.status = "CANCEL_PENDING" THEN s.status ELSE "PARTIALLY_FILLED",
          filled |-> s.filled + e.qty]
    [] e.kind = "CANCEL_REQUESTED" -> [s EXCEPT !.status = "CANCEL_PENDING"]
    [] OTHER -> [s EXCEPT !.status = e.kind]
Untold == [status |-> "NONE", filled |-> 0]
Replay(events) ==
  LET seen[n \in 0..Len(events)] ==
        IF n = 0 THEN Untold ELSE Retold(seen[n - 1], events[n])
  IN  seen[Len(events)]

\* The event log tells the whole story of an order: replayed, it gives the
\* filled quantity, and the status up to the fill that completes the order.
LogTellsOrder ==
  \A i \in OrderIds : Known(i) =>
    LET s == Replay(log[i])
    IN  /\ s.filled = orders[i].filled
        /\ orders[i].status = IF s.filled = orders[i].qty THEN "FILLED" ELSE s.status

\* A closed order's log is closed too: no method appends to it again.
ClosedLogIsFinal ==
  [][\A i \in OrderIds : orders[i].status \in Terminal => log'[i] = log[i]]_vars

\* The registry implements the promised order lifecycle.
Lifecycle == INSTANCE OrderLifecycle WITH Ids <- OrderIds
LifecycleSpec == Lifecycle!Spec
====
