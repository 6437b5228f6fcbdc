--------------------------- MODULE MCStrategyDesk ---------------------------
(* Instances of StrategyDesk for the runs. *)
EXTENDS StrategyDesk

Quoted(last, nav, premium) == [last |-> last, nav |-> nav, premium |-> premium]
WholeTicks == [noop |-> FALSE, quantum |-> 2, tick |-> 2, min |-> 2, offset |-> 0]

Run(name, lag, short, policy) == [name |-> name, lag |-> lag, short |-> short, policy |-> policy]

\* every strategy at once; the pair strategies also without permission to go
\* short, behind a latency, and behind a policy that makes limit orders
AllSetups ==
  {Run(n, 0, TRUE, NoOp) : n \in {"pair_zscore", "bubble_rank"}}
  \cup {Run(n, 0, FALSE, NoOp) : n \in {"bubble_rank", "streak", "price_momentum", "bubble_sign", "ma_band"}}
  \cup {Run("pair_zscore", 0, TRUE, WholeTicks),
        Run("pair_zscore", 1, TRUE, NoOp),
        Run("bubble_rank", 2, TRUE, NoOp), Run("bubble_sign", 2, FALSE, NoOp),
        Run("streak", 0, FALSE, WholeTicks)}

\* two funds; prices and premiums move, a premium is worked out from the NAV, a
\* price is missing, a fund is not quoted
MixedSnaps ==
  {[s \in {1, 2} |-> IF s = 1 THEN Quoted(2, 0, 1) ELSE Quoted(4, 0, 0)],
   [s \in {1, 2} |-> IF s = 1 THEN Quoted(4, 0, 0) ELSE Quoted(2, 1, Missing)],
   [s \in {1, 2} |-> IF s = 1 THEN Quoted(3, 0, -1) ELSE Quoted(0, 0, 1)],
   [s \in {2} |-> Quoted(1, 0, -1)]}

ShortSetups == {Run("pair_zscore", 0, TRUE, NoOp)}
ShortSnaps ==
  {[s \in {1, 2} |-> IF s = 1 THEN Quoted(2, 0, 1) ELSE Quoted(3, 0, 0)],
   [s \in {1, 2} |-> Quoted(2, 0, 0)],
   [s \in {1, 2} |-> IF s = 1 THEN Quoted(1, 0, 0) ELSE Quoted(3, 0, 2)]}

TwoSymbols == {1, 2}
=============================================================================
