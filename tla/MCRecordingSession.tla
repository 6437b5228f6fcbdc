---- MODULE MCRecordingSession ----
(* Instances of RecordingSession for the runs. *)
EXTENDS RecordingSession, TLC

O(symbol, side, qty, limit) == [symbol |-> symbol, side |-> side, qty |-> qty, limit |-> limit]

TwoSymbols == {"x", "y"}
\* a buy and two sells of the symbol, which holds enough for one of them, and a
\* buy of one that has no price at first: it has a limit price to fall back on
FourOrders == 1..4
FourSpec == 1 :> O("x", "BUY", 2, 0) @@ 2 :> O("x", "SELL", 2, 0)
            @@ 3 :> O("x", "SELL", 1, 0) @@ 4 :> O("y", "BUY", 1, 2)
Prices == {[s \in {"x"} |-> 1], [s \in {"x", "y"} |-> IF s = "x" THEN 2 ELSE 0],
           [s \in {"y"} |-> 3]}
====
