---- MODULE MCBarArchive ----
(* Small instances of BarArchive. Symbol 2 is a daily series of the          *)
(* collectors. Day 2 is closed and known to be. A minute-bar request spans   *)
(* two days, so that four days need two of them.                             *)
EXTENDS BarArchive

OneSymbol   == {1}
TwoSymbols  == {1, 2}
DailySeries == {2}
Holdings    == {-1}
TwoThenOne  == [s \in Symbols |-> IF s \in Contracts THEN 1 ELSE 2]
OpenDays    == {1, 3}
ClosedDay   == {2}
Requests    == {<<Symbols, NumDays, TRUE>>, <<{1}, 1, FALSE>>, <<{1}, 1, TRUE>>}
=============================================================================
