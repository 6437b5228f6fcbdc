---- MODULE MCPaperBroker ----
(* Instances of PaperBroker for the runs. *)
EXTENDS PaperBroker, TLC

Q(ask, bid, askSize, bidSize) ==
  [ask |-> ask, bid |-> bid, last |-> 0, askSize |-> askSize, bidSize |-> bidSize]
O(side, type, qty, limit) ==
  [account |-> 1, symbol |-> "x", side |-> side, type |-> type, qty |-> qty,
   limit |-> limit, short |-> FALSE]
One(q) == [s \in {"x"} |-> q]

OneSymbol  == {"x"}
OneAccount == {1}

\* two buys and a sell share one book, one depth and one purse; slippage and fee
\* rounding can make a fill unpayable, a sell finds nothing to sell, cancels may
\* be pending when that happens
FaultOrders == 1..3
FaultSpec   == 1 :> O("BUY", "LIMIT", 3, 3) @@ 2 :> O("BUY", "MARKET", 3, 0)
               @@ 3 :> O("SELL", "LIMIT", 1, 1)
FaultQuotes == {One(Q(3, 2, 2, 1)), One(Q(4, 1, NoSize, NoSize))}

\* books: two accounts and two symbols, a snapshot may leave a symbol out; orders
\* wait for activation or for settle, and account 2 may go short
Short(o) == [o EXCEPT !.short = TRUE]
In(a, s, o) == [o EXCEPT !.account = a, !.symbol = s]
TwoAccounts == {1, 2}
TwoSymbols  == {"x", "y"}
BookOrders  == 1..2
BookSpec    == 1 :> In(1, "x", O("BUY", "LIMIT", 2, 3)) @@ 2 :> In(2, "y", Short(O("SELL", "LIMIT", 2, 1)))
BookSnaps   == {[s \in {"x"} |-> Q(3, 2, 1, 1)], [s \in {"x", "y"} |-> Q(2, 1, NoSize, 1)],
                [s \in {"y"} |-> Q(2, 1, 1, 1)]}
====
