---- MODULE OrderRules ----
(***************************************************************************)
(* The status machine of one paper order, as pure operators on an order    *)
(* record with the fields status, filled and qty.  OrderManager            *)
(* (simulation/order_manager.py) is the only code that applies them; each  *)
(* method that can raise DomainError is a pair here: CanX says the call    *)
(* returns, AfterX is the order it leaves behind.                          *)
(***************************************************************************)
EXTENDS Naturals

Working  == {"ACCEPTED", "PARTIALLY_FILLED", "CANCEL_PENDING"}
Terminal == {"FILLED", "CANCELLED", "REJECTED", "EXPIRED"}
Statuses == {"CREATED"} \cup Working \cup Terminal

\* The edges of the transition table.
Allowed ==
  [CREATED          |-> {"REJECTED", "ACCEPTED", "CANCELLED"},
   ACCEPTED         |-> {"PARTIALLY_FILLED", "FILLED", "CANCEL_PENDING",
                         "EXPIRED", "REJECTED", "CANCELLED"},
   PARTIALLY_FILLED |-> {"PARTIALLY_FILLED", "FILLED", "CANCEL_PENDING",
                         "EXPIRED", "CANCELLED"},
   CANCEL_PENDING   |-> {"PARTIALLY_FILLED", "FILLED", "CANCELLED"},
   FILLED           |-> {},
   CANCELLED        |-> {},
   REJECTED         |-> {},
   EXPIRED          |-> {}]

CanMove(from, to) ==
  \/ to \in Allowed[from]
  \/ from = to /\ from \in Working

MoveTo(o, s) == [o EXCEPT !.status = s]

CanReject(o)   == CanMove(o.status, "REJECTED")
AfterReject(o) == MoveTo(o, "REJECTED")

CanAccept(o)   == CanMove(o.status, "ACCEPTED")
AfterAccept(o) == MoveTo(o, "ACCEPTED")

CanExpire(o)   == o.status \in Terminal \/ CanMove(o.status, "EXPIRED")
AfterExpire(o) == IF o.status \in Terminal THEN o ELSE MoveTo(o, "EXPIRED")

\* Never raises: a closed or already pending order is returned as it is, and
\* an order that was never accepted has nothing at the venue to wait for.
AfterRequestCancel(o) ==
  IF o.status \in Terminal \cup {"CANCEL_PENDING"} THEN o
  ELSE MoveTo(o, IF o.status = "CREATED" THEN "CANCELLED" ELSE "CANCEL_PENDING")

CanConfirmCancel(o) ==
  \/ o.status = "CANCELLED"
  \/ /\ o.status \in {"CANCEL_PENDING", "ACCEPTED", "PARTIALLY_FILLED", "CREATED"}
     /\ CanMove(o.status, "CANCELLED")
AfterConfirmCancel(o) == MoveTo(o, "CANCELLED")

\* Mutant: a late fill reopens an order whose cancel was requested.
StatusAfterFillReopens(o, n) ==
  IF o.filled + n >= o.qty THEN "FILLED" ELSE "PARTIALLY_FILLED"
\* Mutant: an order filled to the last unit is still open.
StatusAfterFillOffByOne(o, n) ==
  IF o.filled + n > o.qty THEN "FILLED"
  ELSE IF o.status = "CANCEL_PENDING" THEN "CANCEL_PENDING" ELSE "PARTIALLY_FILLED"
StatusAfterFill(o, n) ==
  IF o.filled + n >= o.qty THEN "FILLED"
  ELSE IF o.status = "CANCEL_PENDING" THEN "CANCEL_PENDING" ELSE "PARTIALLY_FILLED"

CanFill(o, n) ==
  /\ o.status \in Working
  /\ o.filled + n <= o.qty
  /\ CanMove(o.status, StatusAfterFill(o, n))
AfterFill(o, n) ==
  [o EXCEPT !.filled = o.filled + n, !.status = StatusAfterFill(o, n)]

\* close_unfilled: an order that traded is cancelled, an untouched one is
\* rejected when the matching engine gave a reason.
CanClose(o, rejected) ==
  IF o.filled = 0 /\ rejected THEN CanReject(o) ELSE CanConfirmCancel(o)
AfterClose(o, rejected) ==
  IF o.filled = 0 /\ rejected THEN AfterReject(o) ELSE AfterConfirmCancel(o)

----------------------------------------------------------------------------
(* What the rules promise, used to state properties. *)

\* What every order record satisfies, whatever calls produced it.
Consistent(o) ==
  /\ o.filled <= o.qty
  /\ o.status = "FILLED" <=> o.filled = o.qty
  /\ o.status \in {"CREATED", "ACCEPTED", "REJECTED"} => o.filled = 0
  /\ o.status = "PARTIALLY_FILLED" => o.filled > 0

\* Statuses an order in the given status may later be in.  A requested cancel
\* is never taken back, and only an order that never traded may be rejected.
Later ==
  [CREATED          |-> Statuses,
   ACCEPTED         |-> Statuses \ {"CREATED"},
   PARTIALLY_FILLED |-> Statuses \ {"CREATED", "ACCEPTED", "REJECTED"},
   CANCEL_PENDING   |-> {"CANCEL_PENDING", "FILLED", "CANCELLED"},
   FILLED           |-> {"FILLED"},
   CANCELLED        |-> {"CANCELLED"},
   REJECTED         |-> {"REJECTED"},
   EXPIRED          |-> {"EXPIRED"}]

\* What an order may become: a is what it was, b what it is later.
Onward(a, b) ==
  /\ Consistent(b)
  /\ b.qty = a.qty
  /\ b.filled >= a.filled
  /\ b.status \in Later[a.status]
  /\ a.status \in Terminal => b.filled = a.filled
====
