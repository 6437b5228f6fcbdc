------------------------------ MODULE MCLiveRun ------------------------------
(* A small instance of LiveRun: days of five seconds with a session of       *)
(* three, two of them trading days, trades before, inside and after them.    *)
EXTENDS LiveRun

Funds     == DOMAIN [a |-> 0, b |-> 0]
OpenDays  == {0, 1}
Before    == {[a |-> {1, 3}, b |-> {3, 6}], [a |-> {2, 4}, b |-> {1}], [a |-> {}, b |-> {4, 6}]}
Seconds   == {8}
Plain     == [stale |-> FALSE, book |-> {}]
StaleBook == [stale |-> TRUE, book |-> {"bid", "ask"}]
Quoted    == {Plain, StaleBook}
Setups    == {[session |-> TRUE, back |-> 1, stop |-> 8], [session |-> FALSE, back |-> 0, stop |-> 8],
              [session |-> FALSE, back |-> 1, stop |-> 10]}
=============================================================================
