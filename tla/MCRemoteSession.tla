---- MODULE MCRemoteSession ----
(* Instances of RemoteSession for the runs. *)
EXTENDS RemoteSession, TLC

Q(ask, bid, askSize, bidSize) ==
  [ask |-> ask, bid |-> bid, last |-> 0, askSize |-> askSize, bidSize |-> bidSize]
O(side, type, qty, limit) ==
  [symbol |-> "x", side |-> side, type |-> type, qty |-> qty, limit |-> limit]

OneSymbol == {"x"}
\* a buy that two events fill only in part, with a client id, and a market sell
\* without one; slippage can overdraw the account
TwoIntents == {"buy", "sell"}
TwoSpec    == "buy" :> O("BUY", "LIMIT", 3, 3) @@ "sell" :> O("SELL", "MARKET", 1, 0)
BuyKeyed   == {"buy"}
Quotes     == {[s \in {"x"} |-> Q(3, 2, 1, 1)], [s \in {"x"} |-> Q(4, 3, 2, NoSize)]}
====
