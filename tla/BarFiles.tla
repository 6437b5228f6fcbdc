------------------------------ MODULE BarFiles ------------------------------
(* What the two archives of the repository are made of: rows keyed by bar    *)
(* time, sequences of rows as a file holds them, and the platform that       *)
(* serves the bars. A day is a number and a bar is a slot of a day; what a   *)
(* bar says is reduced to whether its day was over when it was served. A bar *)
(* served earlier may still be being formed, and counts as different from    *)
(* the one served afterwards; bars are sparse, and nothing in a row tells    *)
(* whether its day was to get more of them.                                  *)
EXTENDS Integers, Sequences, FiniteSets, SequencesExt, Selection

CONSTANTS
  Symbols,      \* what is archived, numbered in the order sorted() gives
  NumDays,      \* bound: the calendar is 1 .. NumDays
  TradingDays,  \* the days the exchange is open
  Slots,        \* bound: Slots[s] bars of symbol s on one day
  MaxBars       \* bound: bars of all symbols and days together

VARIABLES
  today,        \* the date in Tehran
  published     \* published[s][d]: how many bars of day d the platform has

platformVars == <<today, published>>

Days == 1 .. NumDays
Row  == [day : 0 .. NumDays, slot : Nat, over : BOOLEAN]

ASSUME BarAssumption == /\ Symbols \subseteq Nat /\ IsFiniteSet(Symbols)
                        /\ NumDays \in Nat \ {0} /\ Slots \in [Symbols -> Nat]
                        /\ TradingDays \subseteq Days /\ MaxBars \in Nat

\* a mutant of Key: the date of bar_at without its time
KeyOfDay(row) == row.day

Key(row)      == <<row.day, row.slot>>
KeysOf(rows)  == {Key(rows[i]) : i \in DOMAIN rows}
DaysOf(rows)  == {rows[i].day : i \in DOMAIN rows}
InOrder(r, q) == r.day < q.day \/ (r.day = q.day /\ r.slot < q.slot)
LeastOf(S)    == CHOOSE x \in S : \A y \in S : x <= y
GreatestOf(S) == CHOOSE x \in S : \A y \in S : x >= y

\* rows with distinct keys, in the order of their keys
Sorted(S) == [i \in 1 .. Cardinality(S) |->
                CHOOSE r \in S : Cardinality({q \in S : InOrder(q, r)}) = i - 1]

\* _normalized: a stable sort by bar time in which the last row of a key wins
Normalized(rows) ==
  Sorted({rows[GreatestOf({i \in DOMAIN rows : Key(rows[i]) = k})] : k \in KeysOf(rows)})

\* the answer of the bars endpoint for one symbol and an inclusive range: a day
\* that is not over is served as it stands
Served(s, from, to) ==
  LET bar(d, n) == [day |-> d, slot |-> n, over |-> d < today]
      have == {k \in ((from .. to) \cap Days) \X (1 .. Slots[s]) : k[2] <= published[s][k[1]]}
  IN Sorted({bar(k[1], k[2]) : k \in have})

\* iter_date_chunks: the end of the chunk that starts at a day, when a request
\* may span a number of days beyond its first
ChunkEnd(from, to, span) == IF from + span < to THEN from + span ELSE to

PlatformInit ==
  /\ today = 1
  /\ published = [s \in Symbols |-> [d \in Days |-> 0]]

BarCount ==
  LET upTo[n \in 0 .. NumDays] ==
        IF n = 0 THEN 0
        ELSE upTo[n - 1] + FoldSet(LAMBDA s, c : c + published[s][n], 0, Symbols)
  IN upTo[NumDays]

Publish(s) ==
  /\ today \in TradingDays /\ published[s][today] < Slots[s] /\ BarCount < MaxBars
  /\ published' = [published EXCEPT ![s][today] = @ + 1]
  /\ UNCHANGED today

Midnight ==
  /\ today < NumDays
  /\ today' = today + 1
  /\ UNCHANGED published

PlatformNext == Midnight \/ \E s \in Symbols : Publish(s)
=============================================================================
