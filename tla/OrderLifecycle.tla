---- MODULE OrderLifecycle ----
(***************************************************************************)
(* What a paper broker promises of each order (ADR 0001, decision 1, and   *)
(* the status list of the simulator guide), with nothing said of how: an   *)
(* order appears once, moves forward through the lifecycle, never trades   *)
(* more than its quantity, and a closed order stays exactly as it closed.  *)
(* One step may take any number of orders any distance, as one market      *)
(* event does.  OrderManager and PaperBroker are shown to implement it.    *)
(***************************************************************************)
EXTENDS OrderRules

CONSTANTS Ids,     \* order ids
          NoOrder  \* the value of an id that was never used
VARIABLE orders    \* [Ids -> NoOrder or a record with status, filled, qty]

\* The promise for one order: a is what it was, b what it becomes.
Forward(a, b) ==
  /\ b # NoOrder
  /\ b.status \in Statuses
  /\ IF a = NoOrder THEN Consistent(b) ELSE Onward(a, b)

Init == orders = [i \in Ids |-> NoOrder]

Next == \A i \in Ids : orders'[i] = orders[i] \/ Forward(orders[i], orders'[i])

Spec == Init /\ [][Next]_orders
====
