---- MODULE MCOrderManager ----
(* Two orders, three client keys (one may be left unused), quantities to 3. *)
EXTENDS OrderManager
MCOrderIds   == 1..2
MCClientKeys == {"a:x", "a:y", "b:x"}
MCMaxQty     == 3
====
