---- MODULE RemoteSessionProofs ----
(***************************************************************************)
(* Proofs about remote paper trading, for any set of orders, intents and   *)
(* quotes.  First the venue's account: every operation of RemoteVenue      *)
(* takes a sound account to a sound one, whose orders and fills are a      *)
(* later stage of the same orders and fills.  Then the session: what the   *)
(* client mirrors, what an answer on its way says and what the venue has   *)
(* are stages of each order's one life, in this order.                     *)
(***************************************************************************)
EXTENDS RemoteSession, BookLemmas

AnOrder == [status : Statuses, filled : Nat, qty : Nat \ {0}, intent : Intents]
AQuote  == [ask : Nat, bid : Nat, last : Nat,
            askSize : Nat \cup {NoSize}, bidSize : Nat \cup {NoSize}]
Account == [orders   : [OrderIds -> AnOrder \cup {NoOrder}],
            byClient : [Keyed -> OrderIds \cup {0}],
            fills    : Seq(AFill),
            cash     : Int,
            position : [Symbols -> Int]]

\* One stage of an order's life and a later one.
Ahead(a, b) ==
  \/ a = b
  \/ /\ b # NoOrder
     /\ \/ a = NoOrder
        \/ Onward(a, b) /\ b.intent = a.intent

\* What holds of the account whoever calls: orders are consistent and numbered
\* without gaps, a client id names the only order with its intent, and the
\* fills are those of orders and add up to the cash and the traded quantities.
Sound(v) ==
  /\ v \in Account
  /\ Used(v) = 1..Cardinality(Used(v))
  /\ \A o \in Used(v) : Consistent(v.orders[o])
  /\ \A o \in Used(v) : v.orders[o].intent \in Keyed => v.byClient[v.orders[o].intent] = o
  /\ \A i \in Keyed : v.byClient[i] # 0 => v.byClient[i] \in Used(v)
  /\ \A f \in DOMAIN v.fills : v.fills[f].order \in Used(v)
  /\ Balanced(v)

\* An order that traded had a quote, and quotes stay.
Quoted(v) == \A o \in Used(v) : v.orders[o].filled > 0 => Quote(v, o) # NoQuote
\* Between two calls no order is created or waits for its cancel.
Settled(v) == \A o \in Used(v) : v.orders[o].status \notin {"CREATED", "CANCEL_PENDING"}

\* The account w is a later stage of v.
Grown(v, w) ==
  /\ \A o \in OrderIds : Ahead(v.orders[o], w.orders[o])
  /\ Len(v.fills) <= Len(w.fills)
  /\ \A f \in 1..Len(v.fills) : w.fills[f] = v.fills[f]

QuotesTyped == quotes \in [Symbols -> AQuote \cup {NoQuote}]

----------------------------------------------------------------------------
(* Order records *)

LEMMA OrderIsRecord == \A o \in AnOrder : Record(o) /\ o # NoOrder
<1> SUFFICES ASSUME NEW o \in AnOrder PROVE Record(o) /\ o # NoOrder
  OBVIOUS
<1>1. /\ o.status \in Statuses /\ o.filled \in Nat /\ o.qty \in Nat
      /\ DOMAIN o = {"status", "filled", "qty", "intent"}
      /\ o = [x \in DOMAIN o |-> o[x]]
  BY DEF AnOrder
<1>2. NoOrder.status \notin Statuses
  BY DEF NoOrder, Statuses, Working, Terminal
<1> QED
  BY <1>1, <1>2 DEF Record

LEMMA NothingFilled == NoOrder.filled = 0
  BY DEF NoOrder

LEMMA MoveTyped ==
  ASSUME NEW o \in AnOrder, NEW s \in Statuses
  PROVE  MoveTo(o, s) \in AnOrder /\ MoveTo(o, s).intent = o.intent
  BY DEF AnOrder, MoveTo

LEMMA FillTyped ==
  ASSUME NEW o \in AnOrder, NEW n \in Nat
  PROVE  /\ AfterFill(o, n) \in AnOrder /\ AfterFill(o, n).intent = o.intent
         /\ AfterFill(o, n).filled = o.filled + n
<1>1. StatusAfterFill(o, n) \in Statuses
  BY DEF StatusAfterFill, Statuses, Working, Terminal
<1>2. o.filled + n \in Nat
  BY DEF AnOrder
<1> QED
  BY <1>1, <1>2 DEF AnOrder, AfterFill

LEMMA AheadTransitive ==
  ASSUME NEW a \in AnOrder \cup {NoOrder}, NEW b \in AnOrder \cup {NoOrder},
         NEW c \in AnOrder \cup {NoOrder}, Ahead(a, b), Ahead(b, c)
  PROVE  Ahead(a, c)
<1>1. CASE a = b \/ b = c \/ a = NoOrder
  BY <1>1 DEF Ahead
<1>2. CASE a # b /\ b # c /\ a # NoOrder
  <2>1. /\ Onward(a, b) /\ Onward(b, c) /\ c # NoOrder
        /\ a \in AnOrder /\ b \in AnOrder /\ c \in AnOrder
        /\ b.intent = a.intent /\ c.intent = b.intent
    BY <1>2, OrderIsRecord DEF Ahead
  <2>2. Onward(a, c)
    BY <2>1, OnwardTransitive, OrderIsRecord
  <2> QED
    BY <2>1, <2>2 DEF Ahead
<1> QED
  BY <1>1, <1>2

\* Two stages that agree on status and quantity have nothing between them.
LEMMA NothingBetween ==
  ASSUME NEW a \in AnOrder, NEW b \in AnOrder \cup {NoOrder}, NEW c \in AnOrder \cup {NoOrder},
         Ahead(a, b), Ahead(b, c), a.status = c.status, a.filled = c.filled
  PROVE  b = c
<1> SUFFICES ASSUME b # c PROVE FALSE
  OBVIOUS
<1>1. a # NoOrder
  BY OrderIsRecord
<1>2. CASE a = b
  <2>1. Onward(b, c) /\ c.intent = b.intent /\ c \in AnOrder /\ b \in AnOrder
    BY <1>1, <1>2, OrderIsRecord DEF Ahead
  <2> QED
    BY <1>2, <2>1 DEF Onward, AnOrder
<1>3. CASE a # b
  <2>1. /\ Onward(a, b) /\ Onward(b, c) /\ b.intent = a.intent /\ c.intent = b.intent
        /\ b \in AnOrder /\ c \in AnOrder
    BY <1>1, <1>3 DEF Ahead
  <2>2. b.filled = c.filled /\ b.qty = c.qty
    BY <2>1 DEF Onward, AnOrder
  <2>3. b.status \in Later[a.status] /\ a.status \in Later[b.status] /\ a.status \in Statuses
    BY <2>1 DEF Onward, AnOrder
  <2>4. b.status = a.status
    BY <2>3 DEF Later, Statuses, Working, Terminal
  <2> QED
    BY <2>1, <2>2, <2>4 DEF AnOrder
<1> QED
  BY <1>2, <1>3

\* A status change along an edge of the table.
LEMMA MoveAhead ==
  ASSUME NEW o \in AnOrder, Consistent(o),
         NEW s \in {"ACCEPTED", "REJECTED", "CANCEL_PENDING", "CANCELLED", "EXPIRED"},
         CanMove(o.status, s)
  PROVE  /\ MoveTo(o, s) \in AnOrder /\ Consistent(MoveTo(o, s))
         /\ MoveTo(o, s).filled = o.filled /\ MoveTo(o, s).status = s
         /\ MoveTo(o, s).intent = o.intent /\ Ahead(o, MoveTo(o, s))
<1>1. s \in Statuses
  BY DEF Statuses, Working, Terminal
<1>2. Onward(o, MoveTo(o, s))
  BY MoveOnward, OrderIsRecord
<1>3. MoveTo(o, s).filled = o.filled /\ MoveTo(o, s).status = s
  BY <1>1, MoveKeeps, OrderIsRecord
<1> QED
  BY <1>1, <1>2, <1>3, MoveTyped, OrderIsRecord DEF Ahead, Onward

\* A quantity that is left can be traded, whichever working status the order has.
LEMMA FillAhead ==
  ASSUME NEW o \in AnOrder, Consistent(o), o.status \in Working,
         NEW n \in Nat \ {0}, o.filled + n <= o.qty
  PROVE  /\ AfterFill(o, n) \in AnOrder /\ Consistent(AfterFill(o, n))
         /\ Ahead(o, AfterFill(o, n)) /\ AfterFill(o, n).intent = o.intent
         /\ AfterFill(o, n).filled = o.filled + n
<1>1. CanFill(o, n)
  BY DEF CanFill, CanMove, StatusAfterFill, Allowed, Working
<1>2. Onward(o, AfterFill(o, n))
  BY <1>1, FillOnward, OrderIsRecord
<1> QED
  BY <1>2, FillTyped, OrderIsRecord DEF Ahead, Onward

\* Numbers of a fill.
LEMMA RoundTyped ==
  ASSUME NEW a \in Int, NEW b \in Nat \ {0}
  PROVE  RoundHalfEven(a, b) \in Int
  BY DEF RoundHalfEven

LEMMA FeeTyped ==
  ASSUME NEW n \in Nat, NEW price \in Int
  PROVE  FeeFor(n, price) \in Int /\ n * price \in Int
<1>1. n * price * FeeNum \in Int /\ n * price \in Int
  BY FeeAssumption
<1>2. FeeDen * MoneyQuantum \in Nat \ {0}
  BY FeeAssumption
<1>3. RoundHalfEven(n * price * FeeNum, FeeDen * MoneyQuantum) \in Int
  BY <1>1, <1>2, RoundTyped
<1> QED
  BY <1>1, <1>3, FeeAssumption DEF FeeFor

----------------------------------------------------------------------------
(* The account *)

LEMMA UsedFacts ==
  ASSUME NEW v \in Account
  PROVE  /\ Used(v) \subseteq OrderIds /\ IsFiniteSet(Used(v))
         /\ \A o \in OrderIds : o \in Used(v) <=> v.orders[o] \in AnOrder
         /\ \A o \in OrderIds \ Used(v) : v.orders[o] = NoOrder
<1>1. Used(v) \subseteq OrderIds /\ \A o \in OrderIds \ Used(v) : v.orders[o] = NoOrder
  BY DEF Used
<1>2. IsFiniteSet(Used(v))
  BY <1>1, IntentsAssumption, FS_Subset
<1>3. \A o \in OrderIds : v.orders[o] \in AnOrder \cup {NoOrder}
  BY DEF Account
<1> QED
  BY <1>1, <1>2, <1>3, OrderIsRecord DEF Used

LEMMA WantedTyped ==
  ASSUME NEW v \in Account, NEW o \in Used(v)
  PROVE  /\ v.orders[o] \in AnOrder
         /\ Wanted(v, o).symbol \in Symbols
         /\ Wanted(v, o).side \in {"BUY", "SELL"}
<1>1. v.orders[o] \in AnOrder
  BY UsedFacts
<1>2. v.orders[o].intent \in Intents
  BY <1>1 DEF AnOrder
<1> QED
  BY <1>1, <1>2, IntentsAssumption DEF Wanted

LEMMA FillFacts ==
  ASSUME NEW v \in Account
  PROVE  /\ DOMAIN v.fills = 1..Len(v.fills) /\ Len(v.fills) \in Nat
         /\ IsFiniteSet(DOMAIN v.fills)
         /\ \A f \in DOMAIN v.fills : v.fills[f] \in AFill
<1>1. v.fills \in Seq(AFill)
  BY DEF Account
<1>2. DOMAIN v.fills = 1..Len(v.fills) /\ Len(v.fills) \in Nat
  BY <1>1
<1>3. \A f \in DOMAIN v.fills : v.fills[f] \in AFill
  BY <1>1, <1>2
<1> QED
  BY <1>2, <1>3, OneMore

\* What a fill cost is a number.
LEMMA PaidTyped ==
  ASSUME NEW v \in Account, NEW f \in DOMAIN v.fills
  PROVE  Paid(v, f) \in Int
<1> DEFINE fill == v.fills[f]
<1>1. fill \in AFill
  BY FillFacts
<1>2. fill.qty \in Nat /\ fill.price \in Int /\ fill.fee \in Int
  BY <1>1 DEF AFill
<1>3. fill.qty * fill.price \in Int
  BY <1>2
<1> QED
  BY <1>2, <1>3 DEF Paid

\* Books with the same fills and cash, whose orders traded as much.
LEMMA SameBooks ==
  ASSUME NEW v \in Account, NEW w \in Account, Balanced(v),
         w.fills = v.fills, w.cash = v.cash,
         \A o \in OrderIds : w.orders[o].filled = v.orders[o].filled,
         \A f \in DOMAIN v.fills : w.orders[v.fills[f].order].intent = v.orders[v.fills[f].order].intent
  PROVE  Balanced(w)
<1>1. \A f \in DOMAIN v.fills : Paid(w, f) = Paid(v, f)
  BY DEF Paid, Wanted
<1>2. [f \in DOMAIN w.fills |-> Paid(w, f)] = [f \in DOMAIN v.fills |-> Paid(v, f)]
  BY <1>1
<1>3. Quantities(w) = Quantities(v)
  BY DEF Quantities
<1>4. \A o \in OrderIds : FillsOf(w, o) = FillsOf(v, o)
  BY DEF FillsOf
<1> QED
  BY <1>2, <1>3, <1>4 DEF Balanced

\* One order replaced, or a new one recorded with its client id.
Revised(v, w, o, r) == w = [v EXCEPT !.orders[o] = r]
Placed(v, w, i, o, order) ==
  /\ order = [status |-> "ACCEPTED", filled |-> 0, qty |-> OrderSpec[i].qty, intent |-> i]
  /\ w = [v EXCEPT !.orders[o] = order,
                   !.byClient = IF i \in Keyed THEN [v.byClient EXCEPT ![i] = o] ELSE v.byClient]

\* A status changes: nothing is traded.
LEMMA StatusSound ==
  ASSUME NEW v, Sound(v), Quoted(v), NEW o \in Used(v), NEW r \in AnOrder, Consistent(r),
         r.intent = v.orders[o].intent, r.filled = v.orders[o].filled,
         NEW w, Revised(v, w, o, r)
  PROVE  /\ Sound(w) /\ Quoted(w) /\ Used(w) = Used(v)
         /\ w.orders[o] = r /\ \A p \in OrderIds : p # o => w.orders[p] = v.orders[p]
         /\ w.byClient = v.byClient /\ w.fills = v.fills /\ w.cash = v.cash
<1>1. v \in Account /\ o \in OrderIds
  BY UsedFacts DEF Sound
<1>2. /\ w \in Account /\ w.orders[o] = r
      /\ \A p \in OrderIds : p # o => w.orders[p] = v.orders[p]
      /\ w.byClient = v.byClient /\ w.fills = v.fills /\ w.cash = v.cash
  BY <1>1 DEF Account, Revised
<1>3. Used(w) = Used(v)
  BY <1>1, <1>2, UsedFacts, OrderIsRecord DEF Used
<1>4. \A p \in OrderIds : /\ w.orders[p].filled = v.orders[p].filled
                          /\ w.orders[p].intent = v.orders[p].intent
  BY <1>2
<1>5. Balanced(w)
  <2>1. \A f \in DOMAIN v.fills : v.fills[f].order \in OrderIds
    BY <1>1, FillFacts DEF AFill
  <2>2. \A f \in DOMAIN v.fills :
          w.orders[v.fills[f].order].intent = v.orders[v.fills[f].order].intent
    BY <1>4, <2>1
  <2>3. Balanced(v)
    BY DEF Sound
  <2>4. \A p \in OrderIds : w.orders[p].filled = v.orders[p].filled
    BY <1>4
  <2>5. w \in Account /\ w.fills = v.fills /\ w.cash = v.cash
    BY <1>2
  <2> QED
    BY <1>1, <2>2, <2>3, <2>4, <2>5, SameBooks
<1>6. \A p \in Used(w) : Consistent(w.orders[p])
  BY <1>1, <1>2, <1>3, UsedFacts DEF Sound
<1>7. Sound(w)
  BY <1>1, <1>2, <1>3, <1>4, <1>5, <1>6, UsedFacts DEF Sound
<1>8. Quoted(w)
  BY <1>1, <1>3, <1>4, UsedFacts DEF Quoted, Quote, Wanted
<1> QED
  BY <1>2, <1>3, <1>7, <1>8

\* A new order: it has the next id, and is the first with its client id.
LEMMA PlaceSound ==
  ASSUME NEW v, Sound(v), Quoted(v), NEW i \in Intents, ~Known(v, i), NextId(v) \in OrderIds,
         NEW order, NEW o, o = NextId(v), NEW w, Placed(v, w, i, o, order)
  PROVE  /\ Sound(w) /\ Quoted(w) /\ Used(w) = Used(v) \cup {o} /\ o \notin Used(v)
         /\ order \in AnOrder /\ Consistent(order)
         /\ w.orders[o] = order /\ \A p \in OrderIds : p # o => w.orders[p] = v.orders[p]
         /\ w.fills = v.fills
<1> DEFINE n == Cardinality(Used(v))
<1>1. v \in Account /\ o \in OrderIds /\ n \in Nat /\ o = n + 1
  BY UsedFacts, FS_CardinalityType DEF Sound, NextId
<1>2. order \in AnOrder /\ Consistent(order)
  <2>1. OrderSpec[i].qty \in Nat \ {0}
    BY IntentsAssumption
  <2>2. Consistent(order)
    BY <2>1 DEF Consistent, Placed
  <2> QED
    BY <2>1, <2>2 DEF AnOrder, Statuses, Working, Placed
<1>3. o \notin Used(v)
  BY <1>1 DEF Sound
<1>4. /\ w \in Account /\ w.orders[o] = order
      /\ \A p \in OrderIds : p # o => w.orders[p] = v.orders[p]
      /\ w.fills = v.fills /\ w.cash = v.cash
      /\ \A j \in Keyed : w.byClient[j] = IF j = i THEN o ELSE v.byClient[j]
      /\ order.intent = i /\ order.filled = 0
  BY <1>1, <1>2 DEF Account, Placed
<1>5. Used(w) = Used(v) \cup {o}
  BY <1>1, <1>2, <1>4, OrderIsRecord DEF Used
<1>6. Used(w) = 1..Cardinality(Used(w))
  <2>1. Used(w) = 1..(n + 1)
    BY <1>1, <1>5, OneMore DEF Sound
  <2>2. Cardinality(Used(w)) = n + 1
    BY <1>1, <1>3, <1>5, UsedFacts, FS_AddElement
  <2> QED
    BY <2>1, <2>2
<1>7. Balanced(w)
  <2>1. v.orders[o] = NoOrder
    BY <1>1, <1>3, UsedFacts
  <2>2. w.orders[o].filled = v.orders[o].filled
    <3>1. order.filled = 0 /\ NoOrder.filled = 0
      BY <1>4 DEF NoOrder
    <3> QED
      BY <1>4, <2>1, <3>1
  <2>3. \A p \in OrderIds : w.orders[p].filled = v.orders[p].filled
    BY <1>4, <2>2
  <2>4. \A f \in DOMAIN v.fills : v.fills[f].order \in OrderIds /\ v.fills[f].order # o
    BY <1>1, <1>3, FillFacts DEF AFill, Sound
  <2>5. \A f \in DOMAIN v.fills :
          w.orders[v.fills[f].order].intent = v.orders[v.fills[f].order].intent
    BY <1>4, <2>4
  <2>6. Balanced(v)
    BY DEF Sound
  <2> QED
    BY <1>1, <1>4, <2>3, <2>5, <2>6, SameBooks
<1>8. \A p \in Used(w) : p = o \/ (p \in Used(v) /\ p # o /\ p \in OrderIds)
  BY <1>3, <1>5 DEF Used
<1>9. \A p \in Used(w) : w.orders[p].intent \in Keyed => w.byClient[w.orders[p].intent] = p
  <2> SUFFICES ASSUME NEW p \in Used(w), w.orders[p].intent \in Keyed
               PROVE  w.byClient[w.orders[p].intent] = p
    OBVIOUS
  <2>1. CASE p = o
    <3>1. w.orders[p].intent = i
      BY <1>4, <2>1
    <3> QED
      BY <1>4, <2>1, <3>1
  <2>2. CASE p # o
    <3>1. p \in Used(v) /\ p \in OrderIds /\ w.orders[p] = v.orders[p]
      BY <1>4, <1>8, <2>2
    <3>2. v.byClient[v.orders[p].intent] = p
      BY <3>1 DEF Sound
    <3>3. p # 0
      BY <3>1, <1>1 DEF Sound
    <3>4. w.orders[p].intent # i
      BY <3>1, <3>2, <3>3 DEF Known
    <3> QED
      BY <1>4, <3>1, <3>2, <3>4
  <2> QED
    BY <2>1, <2>2
<1>10. \A j \in Keyed : w.byClient[j] # 0 => w.byClient[j] \in Used(w)
  BY <1>4, <1>5 DEF Sound
<1>11. \A p \in Used(w) : Consistent(w.orders[p])
  BY <1>2, <1>4, <1>8 DEF Sound
<1>12. \A f \in DOMAIN w.fills : w.fills[f].order \in Used(w)
  BY <1>4, <1>5 DEF Sound
<1>13. Sound(w)
  BY <1>4, <1>6, <1>7, <1>9, <1>10, <1>11, <1>12 DEF Sound
<1>14. Quoted(w)
  BY <1>4, <1>8 DEF Quoted, Quote, Wanted
<1> QED
  BY <1>2, <1>3, <1>4, <1>5, <1>13, <1>14

\* A fill is committed: the order and the books grow by the same fill.
LEMMA CommitSound ==
  ASSUME NEW v, Sound(v), Quoted(v), QuotesTyped, NEW o \in Used(v),
         v.orders[o].status \in Working, Raw(v, o) > 0,
         NEW n \in Nat \ {0}, v.orders[o].filled + n <= v.orders[o].qty,
         NEW w, w = CommitFill(v, o, n)
  PROVE  /\ Sound(w) /\ Quoted(w) /\ Used(w) = Used(v)
         /\ w.orders[o] = AfterFill(v.orders[o], n)
         /\ \A p \in OrderIds : p # o => w.orders[p] = v.orders[p]
         /\ w.byClient = v.byClient
         /\ Len(v.fills) <= Len(w.fills)
         /\ \A f \in 1..Len(v.fills) : w.fills[f] = v.fills[f]
<1> DEFINE side  == Wanted(v, o).side
           s     == Wanted(v, o).symbol
           price == ExecPrice(side, Raw(v, o))
           fill  == [order |-> o, qty |-> n, price |-> price, fee |-> FeeFor(n, price)]
           r     == AfterFill(v.orders[o], n)
           new   == Len(v.fills) + 1
<1>1. /\ v \in Account /\ o \in OrderIds /\ v.orders[o] \in AnOrder /\ Consistent(v.orders[o])
      /\ s \in Symbols /\ side \in {"BUY", "SELL"}
  BY UsedFacts, WantedTyped DEF Sound
<1>2. Quote(v, o) \in AQuote /\ Quote(v, o) # NoQuote /\ Raw(v, o) \in Nat
  <2>1. Quote(v, o) \in AQuote \cup {NoQuote}
    BY <1>1 DEF QuotesTyped, Quote
  <2>2. ASSUME Quote(v, o) = NoQuote PROVE Raw(v, o) = -1
    BY <2>2 DEF Raw, Touch, NoQuote
  <2>3. Quote(v, o) # NoQuote
    BY <2>2
  <2>4. Quote(v, o) \in AQuote
    BY <2>1, <2>3
  <2>5. Raw(v, o) \in Nat
    BY <2>4 DEF Raw, Touch, AQuote
  <2> QED
    BY <2>3, <2>4, <2>5
<1>3. price \in Int
  BY <1>2, SlipAssumption DEF ExecPrice
<1>4. FeeFor(n, price) \in Int /\ n * price \in Int
  <2> HIDE DEF price
  <2> QED
    BY <1>3, FeeTyped
<1>5. fill \in AFill
  BY <1>1, <1>3, <1>4 DEF AFill
<1>6. /\ r \in AnOrder /\ Consistent(r) /\ r.intent = v.orders[o].intent
      /\ r.filled = v.orders[o].filled + n
  BY <1>1, FillAhead
<1> HIDE DEF r, fill

<1>7. w = [v EXCEPT !.orders[o] = r, !.fills = Append(v.fills, fill),
                    !.cash = CashAfter(side, v.cash, n, price),
                    !.position[s] = PositionAfter(side, v.position[s], n)]
  BY <1>1 DEF CommitFill, Account, r, fill
<1>8. /\ Append(v.fills, fill) \in Seq(AFill)
      /\ Len(Append(v.fills, fill)) = new
      /\ \A f \in 1..Len(v.fills) : Append(v.fills, fill)[f] = v.fills[f]
      /\ Append(v.fills, fill)[new] = fill
  <2>1. v.fills \in Seq(AFill)
    BY <1>1 DEF Account
  <2> QED
    BY <1>5, <2>1
<1>9. /\ v.cash \in Int /\ CashAfter(side, v.cash, n, price) \in Int
      /\ PositionAfter(side, v.position[s], n) \in Int
  BY <1>1, <1>4 DEF Account, CashAfter, PositionAfter
<1> HIDE DEF price, side, s
<1>10. /\ w \in Account /\ w.orders = [v.orders EXCEPT ![o] = r]
       /\ w.fills = Append(v.fills, fill)
       /\ w.cash = CashAfter(side, v.cash, n, price) /\ w.byClient = v.byClient
  <2> DEFINE cash     == CashAfter(side, v.cash, n, price)
             position == [v.position EXCEPT ![s] = PositionAfter(side, v.position[s], n)]
             orders   == [v.orders EXCEPT ![o] = r]
             fills    == Append(v.fills, fill)
  <2>1. w = [orders |-> orders, byClient |-> v.byClient, fills |-> fills,
             cash |-> cash, position |-> position]
    BY <1>1, <1>7 DEF Account
  <2>2. orders \in [OrderIds -> AnOrder \cup {NoOrder}]
    BY <1>1, <1>6 DEF Account
  <2>3. position \in [Symbols -> Int]
    BY <1>1, <1>9 DEF Account
  <2>4. fills \in Seq(AFill) /\ cash \in Int /\ v.byClient \in [Keyed -> OrderIds \cup {0}]
    BY <1>1, <1>8, <1>9 DEF Account
  <2> HIDE DEF orders, position, fills, cash
  <2>5. w \in Account
    BY <2>1, <2>2, <2>3, <2>4 DEF Account
  <2> QED
    BY <2>1, <2>5 DEF orders, fills, cash
<1>11. w.orders[o] = r /\ \A p \in OrderIds : p # o => w.orders[p] = v.orders[p]
  BY <1>1, <1>10 DEF Account
<1>12. /\ DOMAIN v.fills = 1..Len(v.fills) /\ Len(v.fills) \in Nat
       /\ DOMAIN w.fills = (DOMAIN v.fills) \cup {new} /\ new \notin DOMAIN v.fills
       /\ IsFiniteSet(DOMAIN v.fills)
       /\ \A f \in DOMAIN v.fills : w.fills[f] = v.fills[f]
       /\ w.fills[new] = fill
       /\ Len(v.fills) <= Len(w.fills)
  <2>1. DOMAIN v.fills = 1..Len(v.fills) /\ Len(v.fills) \in Nat /\ IsFiniteSet(DOMAIN v.fills)
    BY <1>1, FillFacts
  <2>2. DOMAIN w.fills = 1..Len(w.fills) /\ Len(w.fills) = new
    BY <1>8, <1>10, FillFacts
  <2>3. new \notin 1..Len(v.fills) /\ 1..new = (1..Len(v.fills)) \cup {new}
    BY <2>1, OneMore
  <2> QED
    BY <1>8, <1>10, <2>1, <2>2, <2>3
<1>13. Used(w) = Used(v)
  BY <1>1, <1>6, <1>11, UsedFacts, OrderIsRecord DEF Used
<1>14. \A p \in OrderIds : w.orders[p].intent = v.orders[p].intent
  BY <1>6, <1>11
<1>15. \A f \in DOMAIN v.fills : v.fills[f].order \in OrderIds /\ v.fills[f].order \in Used(v)
  BY <1>1, FillFacts DEF AFill, Sound
<1>16. w.cash = InitialCash - SumFunction([f \in DOMAIN w.fills |-> Paid(w, f)])
  <2> DEFINE before == [f \in DOMAIN v.fills |-> Paid(v, f)]
             after  == [f \in DOMAIN w.fills |-> Paid(w, f)]
  <2>1. \A f \in DOMAIN v.fills : Paid(v, f) \in Int
    BY <1>1, PaidTyped
  <2>2. \A f \in DOMAIN v.fills : Paid(w, f) = Paid(v, f)
    BY <1>12, <1>14, <1>15 DEF Paid, Wanted
  <2>3. Paid(w, new) \in Int
    BY <1>10, <1>12, PaidTyped
  <2>4. \A f \in DOMAIN v.fills : before[f] \in Int /\ after[f] = before[f]
    BY <1>12, <2>1, <2>2
  <2>5. after[new] = Paid(w, new)
    BY <1>12
  <2>6. DOMAIN before = DOMAIN v.fills /\ DOMAIN after = (DOMAIN v.fills) \cup {new}
    BY <1>12
  <2>7. SumFunction(after) = SumFunction(before) + Paid(w, new)
    <3> HIDE DEF before, after, new
    <3> QED
      BY <1>12, <2>3, <2>4, <2>5, <2>6, WholeGrows
  <2>8. w.cash = v.cash - Paid(w, new)
    <3>1. Wanted(w, o).side = side
      BY <1>1, <1>14 DEF Wanted, side
    <3>2. w.fills[new].order = o /\ w.fills[new].qty = n /\ w.fills[new].price = price
          /\ w.fills[new].fee = FeeFor(n, price)
      BY <1>12 DEF fill
    <3>3. Paid(w, new) = IF side = "BUY" THEN n * price + FeeFor(n, price)
                                         ELSE FeeFor(n, price) - n * price
      BY <3>1, <3>2 DEF Paid
    <3> DEFINE cost == n * price
               fee  == FeeFor(n, price)
    <3> HIDE DEF cost, fee
    <3>4. cost \in Int /\ fee \in Int
      BY <1>4 DEF cost, fee
    <3>5. Paid(w, new) = IF side = "BUY" THEN cost + fee ELSE fee - cost
      BY <3>3 DEF cost, fee
    <3>6. w.cash = IF side = "BUY" THEN v.cash - cost - fee ELSE v.cash + cost - fee
      BY <1>10 DEF CashAfter, cost, fee
    <3> QED
      BY <1>9, <3>4, <3>5, <3>6
  <2>9. v.cash = InitialCash - SumFunction(before)
    BY DEF Sound, Balanced
  <2>10. SumFunction(before) \in Int
    <3>1. SumFunctionOnSet(before, DOMAIN before) \in Int
      <4> HIDE DEF before
      <4> QED
        BY <1>12, <2>4, <2>6, SumInt
    <3> QED
      BY <3>1 DEF SumFunction
  <2> HIDE DEF before, after
  <2>11. w.cash = InitialCash - SumFunction(after)
    BY <1>9, <2>3, <2>7, <2>8, <2>9, <2>10, MarketAssumption
  <2> QED
    BY <2>11 DEF after

<1>17. ASSUME NEW p \in OrderIds
       PROVE  w.orders[p].filled = SumFunctionOnSet(Quantities(w), FillsOf(w, p))
  <2> DEFINE before == FillsOf(v, p)
             a == Quantities(v)
             b == Quantities(w)
  <2>1. IsFiniteSet(before) /\ new \notin before
    BY <1>12, FS_Subset DEF FillsOf
  <2>2. \A f \in before : a[f] \in Int /\ b[f] = a[f]
    BY <1>1, <1>12, FillFacts DEF FillsOf, Quantities, AFill
  <2>3. b[new] = n
    BY <1>12 DEF Quantities, fill
  <2>4. v.orders[p].filled = SumFunctionOnSet(a, before)
    BY DEF Sound, Balanced
  <2>5. \A f \in DOMAIN w.fills : w.fills[f].order = IF f = new THEN o ELSE v.fills[f].order
    BY <1>12 DEF fill
  <2>6. CASE p = o
    <3>1. FillsOf(w, p) = before \cup {new}
      BY <1>12, <2>5, <2>6 DEF FillsOf
    <3>2. SumFunctionOnSet(b, before \cup {new}) = SumFunctionOnSet(a, before) + b[new]
      <4>1. b[new] \in Int
        BY <2>3
      <4> HIDE DEF a, b, before, new
      <4> QED
        BY <2>1, <2>2, <4>1, SumGrows
    <3>3. w.orders[p].filled = v.orders[p].filled + n
      BY <1>6, <1>11, <2>6
    <3> QED
      BY <2>3, <2>4, <3>1, <3>2, <3>3
  <2>7. CASE p # o
    <3>1. FillsOf(w, p) = before
      BY <1>12, <2>5, <2>7 DEF FillsOf
    <3>2. SumFunctionOnSet(a, before) = SumFunctionOnSet(b, before)
      <4> HIDE DEF a, b, before
      <4> QED
        BY <2>1, <2>2, SumSame
    <3>3. w.orders[p].filled = v.orders[p].filled
      BY <1>11, <2>7
    <3> QED
      BY <2>4, <3>1, <3>2, <3>3
  <2> QED
    BY <2>6, <2>7
<1>18. Balanced(w)
  BY <1>16, <1>17 DEF Balanced
<1>19. \A p \in Used(w) : Consistent(w.orders[p])
  BY <1>1, <1>6, <1>11, <1>13, UsedFacts DEF Sound
<1>20. \A f \in DOMAIN w.fills : w.fills[f].order \in Used(w)
  BY <1>12, <1>13, <1>15 DEF fill
<1>21. /\ Used(w) = 1..Cardinality(Used(w))
       /\ \A p \in Used(w) : w.orders[p].intent \in Keyed => w.byClient[w.orders[p].intent] = p
       /\ \A i \in Keyed : w.byClient[i] # 0 => w.byClient[i] \in Used(w)
  BY <1>1, <1>10, <1>13, <1>14, UsedFacts DEF Sound
<1>22. Sound(w)
  BY <1>10, <1>18, <1>19, <1>20, <1>21 DEF Sound
<1>23. Quoted(w)
  <2> SUFFICES ASSUME NEW p \in Used(w), w.orders[p].filled > 0
               PROVE  Quote(w, p) # NoQuote
    BY DEF Quoted
  <2>1. p \in OrderIds /\ p \in Used(v)
    BY <1>1, <1>13, UsedFacts
  <2>2. Quote(w, p) = Quote(v, p)
    BY <1>14, <2>1 DEF Quote, Wanted
  <2>3. p # o => v.orders[p].filled > 0
    BY <1>11, <2>1
  <2> QED
    BY <1>2, <2>1, <2>2, <2>3 DEF Quoted
<1> QED
  BY <1>10, <1>11, <1>12, <1>13, <1>22, <1>23 DEF r

\* An order that has traded nothing may be rejected from any working status.
LEMMA RejectTyped ==
  ASSUME NEW a \in AnOrder, a.filled = 0
  PROVE  /\ AfterReject(a) \in AnOrder /\ Consistent(AfterReject(a))
         /\ AfterReject(a).intent = a.intent /\ AfterReject(a).filled = 0
<1>1. "REJECTED" \in Statuses
  BY DEF Statuses, Terminal
<1>2. AfterReject(a) \in AnOrder /\ AfterReject(a).intent = a.intent
  BY <1>1, MoveTyped DEF AfterReject
<1>3. /\ AfterReject(a).status = "REJECTED" /\ AfterReject(a).filled = 0
      /\ AfterReject(a).qty = a.qty
  BY DEF AfterReject, MoveTo, AnOrder
<1>4. a.qty # 0
  BY DEF AnOrder
<1> QED
  BY <1>2, <1>3, <1>4 DEF Consistent, AnOrder

\* What matching makes of one order.
Matched(a, b) ==
  \/ b = a
  \/ /\ a.status \in Working
     /\ \E n \in Nat \ {0} : a.filled + n <= a.qty /\ b = AfterFill(a, n)
  \/ a.status \in Working /\ a.filled = 0 /\ b = AfterReject(a)

\* What matching one order makes of the account.
LEMMA MatchSound ==
  ASSUME NEW v, Sound(v), Quoted(v), QuotesTyped, NEW o \in Used(v),
         NEW w, w = MatchOrder(v, o)
  PROVE  /\ Sound(w) /\ Quoted(w) /\ Used(w) = Used(v)
         /\ Matched(v.orders[o], w.orders[o])
         /\ \A p \in OrderIds : p # o => w.orders[p] = v.orders[p]
         /\ w.byClient = v.byClient
         /\ Len(v.fills) <= Len(w.fills)
         /\ \A f \in 1..Len(v.fills) : w.fills[f] = v.fills[f]
<1>1. v \in Account /\ o \in OrderIds /\ v.orders[o] \in AnOrder /\ Consistent(v.orders[o])
  BY UsedFacts, WantedTyped DEF Sound
<1>2. Len(v.fills) \in Nat
  BY <1>1, FillFacts
<1>3. CASE Tradable(v, o) /\ Fillable(v, o) # {}
  <2> DEFINE rest == v.orders[o].qty - v.orders[o].filled
             n    == Max(Fillable(v, o))
  <2>1. rest \in Nat
    BY <1>1 DEF AnOrder, Consistent
  <2>2. Fillable(v, o) \in SUBSET (0..rest) /\ Fillable(v, o) \subseteq 1..rest
    BY DEF Fillable
  <2>3. \E x \in Fillable(v, o) : \A y \in Fillable(v, o) : x >= y
    <3> HIDE DEF rest
    <3> QED
      BY <1>3, <2>1, <2>2, GreatestExists
  <2>4. n \in Fillable(v, o)
    BY <2>3 DEF Max
  <2>5. n \in Nat \ {0} /\ v.orders[o].filled + n <= v.orders[o].qty
    <3>1. n \in 1..rest
      BY <2>2, <2>4
    <3> HIDE DEF n
    <3> QED
      BY <1>1, <3>1 DEF AnOrder
  <2>6. w = CommitFill(v, o, n)
    BY <1>3 DEF MatchOrder
  <2>7. v.orders[o].status \in Working /\ Raw(v, o) > 0
    BY <1>3 DEF Tradable
  <2> HIDE DEF n
  <2> QED
    BY <2>5, <2>6, <2>7, CommitSound DEF Matched
<1>4. CASE ~(Tradable(v, o) /\ Fillable(v, o) # {}) /\ Refused(v, o)
  <2>1. w = [v EXCEPT !.orders[o] = AfterReject(v.orders[o])]
    BY <1>1, <1>4 DEF MatchOrder, Account
  <2>2. v.orders[o].status \in Working
    BY <1>4 DEF Refused, Tradable
  <2>3. v.orders[o].filled = 0
    BY <1>1, <1>4 DEF Refused, Quoted, AnOrder
  <2>4. /\ AfterReject(v.orders[o]) \in AnOrder /\ Consistent(AfterReject(v.orders[o]))
        /\ AfterReject(v.orders[o]).intent = v.orders[o].intent
        /\ AfterReject(v.orders[o]).filled = v.orders[o].filled
    BY <1>1, <2>3, RejectTyped
  <2> DEFINE r == AfterReject(v.orders[o])
  <2>5. /\ Revised(v, w, o, r) /\ r \in AnOrder /\ Consistent(r)
        /\ r.intent = v.orders[o].intent /\ r.filled = v.orders[o].filled
        /\ r = AfterReject(v.orders[o])
    BY <2>1, <2>4 DEF Revised
  <2> HIDE DEF r
  <2>6. /\ Sound(w) /\ Quoted(w) /\ Used(w) = Used(v)
        /\ w.orders[o] = r /\ \A p \in OrderIds : p # o => w.orders[p] = v.orders[p]
        /\ w.byClient = v.byClient /\ w.fills = v.fills
    BY <2>5, StatusSound
  <2> QED
    BY <1>2, <2>2, <2>3, <2>5, <2>6 DEF Matched
<1>5. CASE ~(Tradable(v, o) /\ Fillable(v, o) # {}) /\ ~Refused(v, o)
  <2>1. w = v
    BY <1>5 DEF MatchOrder
  <2> QED
    BY <1>2, <2>1 DEF Matched
<1> QED
  BY <1>3, <1>4, <1>5

\* Matching leaves an order a later stage of what it was.
LEMMA MatchedAhead ==
  ASSUME NEW a \in AnOrder, Consistent(a), NEW b, Matched(a, b),
         a.filled = 0 => a.status # "CANCEL_PENDING"
  PROVE  /\ b \in AnOrder /\ Ahead(a, b)
         /\ a.status \notin {"CREATED", "CANCEL_PENDING"}
              => b.status \notin {"CREATED", "CANCEL_PENDING"}
<1>1. CASE b = a
  BY <1>1 DEF Ahead
<1>2. CASE a.status \in Working /\ \E n \in Nat \ {0} : a.filled + n <= a.qty /\ b = AfterFill(a, n)
  <2>1. PICK n \in Nat \ {0} : a.filled + n <= a.qty /\ b = AfterFill(a, n)
    BY <1>2
  <2>2. b.status = StatusAfterFill(a, n)
    BY <2>1 DEF AfterFill, AnOrder
  <2>3. b \in AnOrder /\ Ahead(a, b)
    BY <1>2, <2>1, FillAhead
  <2> QED
    BY <2>2, <2>3 DEF StatusAfterFill
<1>3. CASE a.status \in Working /\ a.filled = 0 /\ b = AfterReject(a)
  <2>1. a.status = "ACCEPTED"
    BY <1>3 DEF Consistent, Working
  <2>2. CanMove(a.status, "REJECTED")
    BY <2>1 DEF CanMove, Allowed
  <2>3. /\ MoveTo(a, "REJECTED") \in AnOrder /\ Ahead(a, MoveTo(a, "REJECTED"))
        /\ MoveTo(a, "REJECTED").status = "REJECTED"
    BY <2>2, MoveAhead
  <2> QED
    BY <1>3, <2>3 DEF AfterReject
<1> QED
  BY <1>1, <1>2, <1>3 DEF Matched

\* A settled account is matched order by order.
LEMMA MatchGrows ==
  ASSUME NEW v, Sound(v), Quoted(v), Settled(v), QuotesTyped, NEW o \in Used(v),
         NEW w, w = MatchOrder(v, o)
  PROVE  Sound(w) /\ Quoted(w) /\ Settled(w) /\ Grown(v, w)
<1>1. /\ Sound(w) /\ Quoted(w) /\ Used(w) = Used(v)
      /\ Matched(v.orders[o], w.orders[o])
      /\ \A p \in OrderIds : p # o => w.orders[p] = v.orders[p]
      /\ Len(v.fills) <= Len(w.fills)
      /\ \A f \in 1..Len(v.fills) : w.fills[f] = v.fills[f]
  BY MatchSound
<1>2. /\ v \in Account /\ o \in OrderIds /\ v.orders[o] \in AnOrder /\ Consistent(v.orders[o])
      /\ v.orders[o].status \notin {"CREATED", "CANCEL_PENDING"}
  BY UsedFacts DEF Sound, Settled
<1>3. Ahead(v.orders[o], w.orders[o]) /\ w.orders[o].status \notin {"CREATED", "CANCEL_PENDING"}
  BY <1>1, <1>2, MatchedAhead
<1>4. Settled(w)
  BY <1>1, <1>2, <1>3, UsedFacts DEF Settled
<1>5. Grown(v, w)
  BY <1>1, <1>3 DEF Grown, Ahead
<1> QED
  BY <1>1, <1>4, <1>5

LEMMA SubmitGrows ==
  ASSUME NEW v, Sound(v), Quoted(v), Settled(v), QuotesTyped, NEW i \in Intents,
         Named(v, i) \in OrderIds,
         NEW w, w = AfterSubmit(v, i)
  PROVE  /\ Sound(w) /\ Quoted(w) /\ Settled(w) /\ Grown(v, w)
         /\ Named(v, i) \in Used(w)
<1>1. CASE Known(v, i)
  <2>1. w = v
    BY <1>1 DEF AfterSubmit
  <2>2. Named(v, i) \in Used(v)
    BY <1>1 DEF Named, Known, Sound
  <2>3. Grown(v, v)
    BY FillFacts DEF Grown, Ahead, Sound
  <2> QED
    BY <2>1, <2>2, <2>3
<1>2. CASE ~Known(v, i)
  <2> DEFINE o     == NextId(v)
             order == [status |-> "ACCEPTED", filled |-> 0, qty |-> OrderSpec[i].qty, intent |-> i]
             u     == [v EXCEPT !.orders[o] = order,
                                !.byClient = IF i \in Keyed THEN [v.byClient EXCEPT ![i] = o]
                                                            ELSE v.byClient]
  <2>1. w = MatchOrder(u, o) /\ Named(v, i) = o /\ o \in OrderIds /\ o = NextId(v)
    BY <1>2 DEF AfterSubmit, Named
  <2>2. Placed(v, u, i, o, order)
    BY DEF Placed
  <2>3. order.status = "ACCEPTED"
    OBVIOUS
  <2> HIDE DEF u, o, order
  <2>4. /\ Sound(u) /\ Quoted(u) /\ Used(u) = Used(v) \cup {o} /\ o \notin Used(v)
        /\ order \in AnOrder /\ Consistent(order)
        /\ u.orders[o] = order /\ \A p \in OrderIds : p # o => u.orders[p] = v.orders[p]
        /\ u.fills = v.fills
    BY <1>2, <2>1, <2>2, PlaceSound
  <2>5. Settled(u)
    BY <2>1, <2>3, <2>4 DEF Settled, Used
  <2>6. o \in Used(u)
    BY <2>4
  <2>7. Sound(w) /\ Quoted(w) /\ Settled(w) /\ Grown(u, w)
    BY <2>1, <2>4, <2>5, <2>6, MatchGrows
  <2>8. Used(w) = Used(u)
    BY <2>1, <2>4, <2>6, MatchSound
  <2>9. v \in Account /\ w \in Account /\ v.orders[o] = NoOrder
    BY <2>1, <2>4, <2>7, UsedFacts DEF Sound
  <2>10. w.orders[o] \in AnOrder /\ w.orders[o] # NoOrder
    BY <2>6, <2>8, <2>9, OrderIsRecord, UsedFacts
  <2>11. Grown(v, w)
    BY <2>1, <2>4, <2>7, <2>9, <2>10 DEF Grown, Ahead
  <2> QED
    BY <2>1, <2>6, <2>7, <2>8, <2>11
<1> QED
  BY <1>1, <1>2

\* An order whose cancel was requested, as matching leaves it: still waiting, or
\* closed in a way the order could have been before the request.
LEMMA PendingMatched ==
  ASSUME NEW a \in AnOrder, Consistent(a), a.status \in {"ACCEPTED", "PARTIALLY_FILLED"},
         NEW b, Matched(MoveTo(a, "CANCEL_PENDING"), b)
  PROVE  /\ Ahead(a, b) /\ b \in AnOrder
         /\ b.status \in {"CANCEL_PENDING", "FILLED", "REJECTED"}
<1> DEFINE p == MoveTo(a, "CANCEL_PENDING")
<1>1. CanMove(a.status, "CANCEL_PENDING")
  BY DEF CanMove, Allowed
<1>2. /\ p \in AnOrder /\ Consistent(p) /\ p.filled = a.filled
      /\ p.status = "CANCEL_PENDING" /\ p.intent = a.intent /\ Ahead(a, p)
  BY <1>1, MoveAhead
<1>3. AfterReject(p) = AfterReject(a)
  BY DEF AfterReject, MoveTo, AnOrder
<1> HIDE DEF p
<1>4. CASE b = p
  BY <1>2, <1>4
<1>5. CASE p.status \in Working /\ \E n \in Nat \ {0} : p.filled + n <= p.qty /\ b = AfterFill(p, n)
  <2>1. PICK n \in Nat \ {0} : p.filled + n <= p.qty /\ b = AfterFill(p, n)
    BY <1>5
  <2>2. b \in AnOrder /\ Ahead(p, b)
    BY <1>2, <1>5, <2>1, FillAhead
  <2>3. b.status \in {"CANCEL_PENDING", "FILLED"}
    BY <1>2, <2>1 DEF AfterFill, StatusAfterFill, AnOrder
  <2>4. Ahead(a, b)
    BY <1>2, <2>2, AheadTransitive
  <2> QED
    BY <2>2, <2>3, <2>4
<1>6. CASE p.filled = 0 /\ b = AfterReject(p)
  <2>1. a.status = "ACCEPTED"
    BY <1>2, <1>6 DEF Consistent
  <2>2. CanMove(a.status, "REJECTED")
    BY <2>1 DEF CanMove, Allowed
  <2>3. /\ MoveTo(a, "REJECTED") \in AnOrder /\ Ahead(a, MoveTo(a, "REJECTED"))
        /\ MoveTo(a, "REJECTED").status = "REJECTED"
    BY <2>2, MoveAhead
  <2> QED
    BY <1>3, <1>6, <2>3 DEF AfterReject
<1> QED
  BY <1>4, <1>5, <1>6 DEF Matched, p

LEMMA CancelGrows ==
  ASSUME NEW v, Sound(v), Quoted(v), Settled(v), QuotesTyped, NEW o \in Used(v),
         NEW w, w = AfterCancel(v, o)
  PROVE  Sound(w) /\ Quoted(w) /\ Settled(w) /\ Grown(v, w) /\ o \in Used(w)
<1>1. /\ v \in Account /\ o \in OrderIds /\ v.orders[o] \in AnOrder /\ Consistent(v.orders[o])
      /\ v.orders[o].status \notin {"CREATED", "CANCEL_PENDING"}
  BY UsedFacts DEF Sound, Settled
<1>2. Len(v.fills) \in Nat
  BY <1>1, FillFacts
<1>3. CASE ~Closeable(v.orders[o])
  <2>1. w = v
    BY <1>3 DEF AfterCancel
  <2> QED
    BY <1>2, <2>1 DEF Grown, Ahead
<1>4. CASE Closeable(v.orders[o])
  <2> DEFINE a == v.orders[o]
             p == MoveTo(a, "CANCEL_PENDING")
             u == [v EXCEPT !.orders[o] = p]
             m == MatchOrder(u, o)
             b == m.orders[o]
             c == AfterConfirmCancel(b)
  <2>1. a.status \in {"ACCEPTED", "PARTIALLY_FILLED"}
    BY <1>1, <1>4 DEF Closeable, AnOrder, Statuses, Working
  <2>2. CanMove(a.status, "CANCEL_PENDING")
    BY <2>1 DEF CanMove, Allowed
  <2>3. p \in AnOrder /\ Consistent(p) /\ p.filled = a.filled /\ p.intent = a.intent
    <3> HIDE DEF a
    <3> QED
      BY <1>1, <2>2, MoveAhead DEF a
  <2>4. Revised(v, u, o, p)
    BY DEF Revised
  <2>5. w = IF b.status = "CANCEL_PENDING" THEN [m EXCEPT !.orders[o] = c] ELSE m
    <3>1. u = [v EXCEPT !.orders[o] = MoveTo(@, "CANCEL_PENDING")]
      BY <1>1 DEF Account
    <3> HIDE DEF u
    <3> QED
      BY <1>4, <3>1 DEF AfterCancel
  <2>6. m = MatchOrder(u, o)
    OBVIOUS
  <2> HIDE DEF u, m, c, p
  <2>7. /\ Sound(u) /\ Quoted(u) /\ Used(u) = Used(v)
        /\ u.orders[o] = p /\ \A q \in OrderIds : q # o => u.orders[q] = v.orders[q]
        /\ u.fills = v.fills
    BY <2>3, <2>4, StatusSound
  <2>8. o \in Used(u)
    BY <2>7
  <2>9. /\ Sound(m) /\ Quoted(m) /\ Used(m) = Used(u)
        /\ Matched(u.orders[o], b)
        /\ \A q \in OrderIds : q # o => m.orders[q] = u.orders[q]
        /\ Len(u.fills) <= Len(m.fills)
        /\ \A f \in 1..Len(u.fills) : m.fills[f] = u.fills[f]
    BY <2>6, <2>7, <2>8, MatchSound
  <2>10. Matched(MoveTo(a, "CANCEL_PENDING"), b)
    BY <2>7, <2>9 DEF p
  <2>11. /\ Ahead(a, b) /\ b \in AnOrder
         /\ b.status \in {"CANCEL_PENDING", "FILLED", "REJECTED"}
    <3> HIDE DEF a, b
    <3> QED
      BY <1>1, <2>1, <2>10, PendingMatched DEF a
  <2>12. CASE b.status # "CANCEL_PENDING"
    <3>1. w = m
      BY <2>5, <2>12
    <3>2. Grown(v, m)
      BY <1>1, <2>7, <2>9, <2>11 DEF Grown, Ahead
    <3>3. Settled(m)
      BY <1>1, <2>7, <2>9, <2>11, <2>12, UsedFacts DEF Settled
    <3> QED
      BY <2>7, <2>9, <3>1, <3>2, <3>3
  <2>13. CASE b.status = "CANCEL_PENDING"
    <3>1. Revised(m, w, o, c)
      BY <2>5, <2>13 DEF Revised
    <3>2. CanMove(b.status, "CANCELLED")
      BY <2>13 DEF CanMove, Allowed
    <3>3. Consistent(b) /\ o \in Used(m)
      BY <2>7, <2>9 DEF Sound
    <3>4. /\ c \in AnOrder /\ Consistent(c) /\ c.filled = b.filled /\ c.status = "CANCELLED"
          /\ c.intent = b.intent /\ Ahead(b, c)
      <4> HIDE DEF b
      <4> QED
        BY <2>11, <3>2, <3>3, MoveAhead DEF c, AfterConfirmCancel
    <3>5. /\ Sound(w) /\ Quoted(w) /\ Used(w) = Used(m)
          /\ w.orders[o] = c /\ \A q \in OrderIds : q # o => w.orders[q] = m.orders[q]
          /\ w.fills = m.fills
      BY <2>9, <3>1, <3>3, <3>4, StatusSound
    <3>6. Ahead(a, c)
      <4> HIDE DEF a, b
      <4> QED
        BY <1>1, <2>11, <3>4, AheadTransitive DEF a
    <3>7. Grown(v, w)
      BY <1>1, <2>7, <2>9, <3>5, <3>6 DEF Grown, Ahead
    <3>8. Settled(w)
      BY <1>1, <2>7, <2>9, <3>4, <3>5, UsedFacts DEF Settled
    <3> QED
      BY <3>3, <3>5, <3>7, <3>8
  <2> QED
    BY <2>12, <2>13
<1> QED
  BY <1>3, <1>4

----------------------------------------------------------------------------
(* The invariant of the session *)

VenueInv ==
  /\ Sound(venue) /\ Quoted(venue) /\ Settled(venue)
  /\ QuotesTyped
  /\ todo \subseteq Used(venue)

\* Requests can be served; one answer at most is on its way.
NetInv ==
  /\ calls \in Nat /\ awaited \in 0..calls /\ stage \in {"idle", "reply", "fills"}
  /\ \A r \in requests : /\ r.kind = "submit" => r.what \in Intents
                         /\ r.kind = "cancel" => r.what \in Used(venue)
  /\ \A r, q \in reply : r = q

\* A copy of an order on its way to the client.
Underway(c) ==
  /\ c[1] \in OrderIds /\ c[2] \in AnOrder
  /\ Ahead(mirror[c[1]], c[2]) /\ Ahead(c[2], venue.orders[c[1]])

\* What the client mirrors, what it is sent and what the venue has are stages
\* of one life in this order; a version it knows is of a stage it has passed.
MirrorInv ==
  /\ mirror \in [OrderIds -> AnOrder \cup {NoOrder}]
  /\ \A o \in OrderIds : Ahead(mirror[o], venue.orders[o])
  /\ \A r \in reply : \A c \in r.copies : Underway(c)
  /\ \A r \in reply : \A c, d \in r.copies : c[1] = d[1] => c[2] = d[2]
  /\ \A ver \in versions :
       \E o \in OrderIds, a \in AnOrder : ver = Version(o, a) /\ Ahead(a, mirror[o])

\* The client has put each fill it has seen with its order, and the loop knows
\* no fill that it has not; nothing is told before the run begins.
ClientInv ==
  /\ seenFills \subseteq FillIds
  /\ \A o \in OrderIds : buckets[o] = {f \in seenFills : venue.fills[f].order = o}
  /\ told \subseteq known /\ known \subseteq seenFills
  /\ ~running => told = {}

Inv == VenueInv /\ NetInv /\ MirrorInv /\ ClientInv

LEMMA GrownUsed ==
  ASSUME NEW v, NEW w, Sound(v), Sound(w), Grown(v, w)
  PROVE  Used(v) \subseteq Used(w)
  BY UsedFacts, OrderIsRecord DEF Grown, Ahead, Sound, Used

LEMMA GrownSame ==
  ASSUME NEW v, Sound(v)
  PROVE  Grown(v, v)
  BY FillFacts DEF Grown, Ahead, Sound

LEMMA VenueStays ==
  ASSUME VenueInv, UNCHANGED server
  PROVE  VenueInv' /\ Grown(venue, venue')
<1>1. Grown(venue, venue')
  BY GrownSame DEF VenueInv, server
<1> QED
  BY <1>1 DEF VenueInv, server, Quoted, Quote, QuotesTyped

\* The quotes stay and the account moves on.
LEMMA VenueMoves ==
  ASSUME VenueInv, UNCHANGED quotes, Sound(venue'), Quoted(venue'), Settled(venue'),
         Grown(venue, venue'), todo' \subseteq todo
  PROVE  VenueInv'
<1>1. Used(venue) \subseteq Used(venue')
  BY GrownUsed DEF VenueInv
<1>2. Quoted(venue)'
  BY DEF Quoted, Quote
<1> QED
  BY <1>1, <1>2 DEF VenueInv, QuotesTyped

\* The client's own state does not depend on how far the venue is.
LEMMA ClientStays ==
  ASSUME VenueInv, ClientInv, Sound(venue'), Grown(venue, venue'),
         UNCHANGED <<buckets, seenFills, running, known, told>>
  PROVE  ClientInv'
<1>1. /\ Len(venue.fills) \in Nat /\ Len(venue'.fills) \in Nat
      /\ Len(venue.fills) <= Len(venue'.fills)
      /\ \A f \in 1..Len(venue.fills) : venue'.fills[f] = venue.fills[f]
  BY FillFacts DEF VenueInv, Sound, Grown
<1>2. FillIds \subseteq FillIds'
  BY <1>1 DEF FillIds
<1>3. \A f \in seenFills : venue'.fills[f] = venue.fills[f]
  BY <1>1 DEF ClientInv, FillIds
<1> QED
  BY <1>2, <1>3 DEF ClientInv

\* The mirror stays while the venue moves on; an answer it gives is copied
\* from what it has now.
LEMMA MirrorStays ==
  ASSUME VenueInv, MirrorInv, Sound(venue'), Grown(venue, venue'),
         UNCHANGED <<mirror, versions>>,
         \/ reply' = reply \/ reply' = {}
         \/ \E S \in SUBSET Used(venue') : \E k : reply' = {[copies |-> Copies(venue', S), kind |-> k]}
  PROVE  MirrorInv'
<1>1. venue \in Account /\ venue' \in Account
  BY DEF VenueInv, Sound
<1>2. \A o \in OrderIds : /\ venue.orders[o] \in AnOrder \cup {NoOrder}
                          /\ venue'.orders[o] \in AnOrder \cup {NoOrder}
                          /\ Ahead(venue.orders[o], venue'.orders[o])
                          /\ mirror[o] \in AnOrder \cup {NoOrder}
                          /\ Ahead(mirror[o], venue.orders[o])
  BY <1>1 DEF Account, Grown, MirrorInv
<1>3. \A o \in OrderIds : Ahead(mirror[o], venue'.orders[o])
  BY <1>2, AheadTransitive
<1>4. CASE reply' = reply \/ reply' = {}
  <2>1. ASSUME NEW r \in reply', NEW c \in r.copies PROVE Underway(c)'
    <3>1. Underway(c)
      BY <1>4, <2>1 DEF MirrorInv
    <3>2. Ahead(c[2], venue'.orders[c[1]])
      BY <1>2, <3>1, AheadTransitive DEF Underway
    <3> QED
      BY <3>1, <3>2 DEF Underway
  <2> QED
    BY <1>3, <1>4, <2>1 DEF MirrorInv
<1>5. CASE \E S \in SUBSET Used(venue') : \E k : reply' = {[copies |-> Copies(venue', S), kind |-> k]}
  <2>1. PICK S \in SUBSET Used(venue') : \E k : reply' = {[copies |-> Copies(venue', S), kind |-> k]}
    BY <1>5
  <2>2. \A r \in reply' : r.copies = Copies(venue', S)
    BY <2>1
  <2>3. \A c \in Copies(venue', S) : \E o \in S : c[1] = o /\ c[2] = venue'.orders[o]
    BY DEF Copies
  <2>4. \A o \in S : o \in OrderIds /\ venue'.orders[o] \in AnOrder
    BY <1>1, <2>1, UsedFacts
  <2>5. ASSUME NEW r \in reply', NEW c \in r.copies PROVE Underway(c)'
    <3>1. PICK o \in S : c[1] = o /\ c[2] = venue'.orders[o]
      BY <2>2, <2>3, <2>5
    <3>2. Ahead(c[2], venue'.orders[c[1]])
      BY <3>1 DEF Ahead
    <3> QED
      BY <1>3, <2>4, <3>1, <3>2 DEF Underway
  <2>6. \A r \in reply' : \A c, d \in r.copies : c[1] = d[1] => c[2] = d[2]
    BY <2>2, <2>3
  <2> QED
    BY <1>3, <2>5, <2>6 DEF MirrorInv
<1> QED
  BY <1>4, <1>5

----------------------------------------------------------------------------
(* Every step keeps it, and the venue's account moves on *)

Kept == Inv' /\ Grown(venue, venue')

LEMMA CallInv ==
  ASSUME Inv, NEW kind, NEW what, Call(kind, what),
         kind = "submit" => what \in Intents,
         kind = "cancel" => what \in Used(venue)
  PROVE  Kept
<1>1. UNCHANGED server /\ UNCHANGED venue /\ UNCHANGED <<reply, client, loop>>
  BY DEF Call, server
<1>2. VenueInv' /\ Grown(venue, venue') /\ Sound(venue')
  BY <1>1, VenueStays DEF Inv, VenueInv
<1>3. MirrorInv' /\ ClientInv'
  BY <1>1, <1>2, MirrorStays, ClientStays DEF Inv, client, loop
<1>4. NetInv'
  <2>1. calls' \in Nat /\ awaited' \in 0..calls' /\ stage' \in {"idle", "reply", "fills"}
    BY DEF Call, Inv, NetInv
  <2>2. ASSUME NEW r \in requests'
        PROVE  /\ r.kind = "submit" => r.what \in Intents
               /\ r.kind = "cancel" => r.what \in Used(venue)
    <3>1. CASE r \in requests
      BY <3>1 DEF Inv, NetInv
    <3>2. CASE r = [call |-> calls + 1, kind |-> kind, what |-> what]
      BY <3>2
    <3> QED
      BY <3>1, <3>2 DEF Call
  <2> QED
    BY <1>1, <2>1, <2>2 DEF Inv, NetInv
<1> QED
  BY <1>2, <1>3, <1>4 DEF Inv, Kept

\* A request is served: whatever the venue makes of it is a later stage.
LEMMA AnswerInv ==
  ASSUME Inv, NEW r, NEW v, NEW S \in SUBSET Used(v), Answer(r, v, S),
         Sound(v), Quoted(v), Settled(v), Grown(venue, v)
  PROVE  Kept
<1>1. /\ venue' = v /\ UNCHANGED <<quotes, todo, calls, awaited, stage, client, loop>>
      /\ requests' \subseteq requests
      /\ \/ reply' = reply
         \/ reply' = {[copies |-> Copies(venue', S), kind |-> r.kind]}
  BY DEF Answer
<1>2. VenueInv'
  BY <1>1, VenueMoves DEF Inv
<1>3. ClientInv'
  BY <1>1, ClientStays DEF Inv, client, loop
<1>4. MirrorInv'
  BY <1>1, MirrorStays DEF Inv, client
<1>5. Used(venue) \subseteq Used(venue')
  BY <1>1, GrownUsed DEF Inv, VenueInv
<1>6. NetInv'
  BY <1>1, <1>5 DEF Inv, NetInv
<1> QED
  BY <1>1, <1>2, <1>3, <1>4, <1>6 DEF Inv, Kept

LEMMA ServeInv ==
  ASSUME Inv, NEW r \in requests, Serve(r)
  PROVE  Kept
<1>1. Sound(venue) /\ Quoted(venue) /\ Settled(venue) /\ QuotesTyped
  BY DEF Inv, VenueInv
<1>2. CASE ServeSubmit(r)
  <2> DEFINE v == AfterSubmit(venue, r.what)
             o == Named(venue, r.what)
  <2>1. r.what \in Intents /\ o \in OrderIds /\ Answer(r, v, {o}) /\ v = AfterSubmit(venue, r.what)
    BY <1>2 DEF ServeSubmit, Inv, NetInv
  <2>2. Sound(v) /\ Quoted(v) /\ Settled(v) /\ Grown(venue, v) /\ o \in Used(v)
    <3> HIDE DEF v
    <3> QED
      BY <1>1, <2>1, SubmitGrows
  <2>3. {o} \in SUBSET Used(v)
    BY <2>2
  <2> HIDE DEF v, o
  <2> QED
    BY <2>1, <2>2, <2>3, AnswerInv
<1>3. CASE ServeCancel(r)
  <2> DEFINE v == AfterCancel(venue, r.what)
             o == r.what
  <2>1. o \in Used(venue) /\ Answer(r, v, {o}) /\ v = AfterCancel(venue, o)
    BY <1>3 DEF ServeCancel, Inv, NetInv
  <2> HIDE DEF v, o
  <2>2. Sound(v) /\ Quoted(v) /\ Settled(v) /\ Grown(venue, v) /\ o \in Used(v)
    BY <1>1, <2>1, CancelGrows
  <2>3. {o} \in SUBSET Used(v)
    BY <2>2
  <2> QED
    BY <2>1, <2>2, <2>3, AnswerInv
<1>4. CASE ServeOrders(r)
  <2>1. Answer(r, venue, Used(venue)) /\ Grown(venue, venue)
    BY <1>1, <1>4, GrownSame DEF ServeOrders
  <2>2. Used(venue) \in SUBSET Used(venue)
    OBVIOUS
  <2> QED
    BY <1>1, <2>1, <2>2, AnswerInv
<1> QED
  BY <1>2, <1>3, <1>4 DEF Serve

LEMMA GiveUpInv ==
  ASSUME Inv, GiveUp
  PROVE  Kept
<1>1. /\ UNCHANGED server /\ UNCHANGED venue /\ UNCHANGED <<requests, calls, client, loop>>
      /\ reply' = {} /\ awaited' = 0 /\ stage' = "idle"
  BY DEF GiveUp, server, NoReply
<1>2. VenueInv' /\ Grown(venue, venue') /\ Sound(venue')
  BY <1>1, VenueStays DEF Inv, VenueInv
<1>3. MirrorInv' /\ ClientInv'
  BY <1>1, <1>2, MirrorStays, ClientStays DEF Inv, client, loop
<1>4. NetInv'
  BY <1>1 DEF Inv, NetInv
<1> QED
  BY <1>2, <1>3, <1>4 DEF Inv, Kept

\* An answer taken: the mirror has every copy of it, those it dismissed as
\* duplicates included, since nothing lies between a known version and a copy
\* with the same version.
LEMMA Mirrored ==
  ASSUME Inv, NEW r \in reply, IngestOrders(r.copies)
  PROVE  /\ \A c \in r.copies : mirror'[c[1]] = c[2]
         /\ mirror' \in [OrderIds -> AnOrder \cup {NoOrder}]
         /\ \A o \in OrderIds : /\ Ahead(mirror[o], mirror'[o])
                                /\ Ahead(mirror'[o], venue.orders[o])
<1> DEFINE news == News(r.copies)
           ids  == {c[1] : c \in news}
           new(o) == CHOOSE c \in news : c[1] = o
<1>1. mirror' = [o \in OrderIds |-> IF o \in ids THEN new(o)[2] ELSE mirror[o]]
  BY DEF IngestOrders
<1>2. \A o \in ids : new(o) \in news /\ new(o)[1] = o
  OBVIOUS
<1>3. /\ news \subseteq r.copies
      /\ \A c \in r.copies : c \notin news => Version(c[1], c[2]) \in versions
  BY DEF News
<1>4. /\ \A c \in r.copies : Underway(c)
      /\ \A c, d \in r.copies : c[1] = d[1] => c[2] = d[2]
      /\ mirror \in [OrderIds -> AnOrder \cup {NoOrder}]
      /\ \A o \in OrderIds : Ahead(mirror[o], venue.orders[o])
  BY DEF Inv, MirrorInv
<1> HIDE DEF new
<1>5. ASSUME NEW c \in r.copies PROVE mirror'[c[1]] = c[2]
  <2>1. c[1] \in OrderIds /\ c[2] \in AnOrder
    BY <1>4 DEF Underway
  <2>2. CASE c[1] \in ids
    <3>1. new(c[1])[2] = c[2]
      BY <1>2, <1>3, <1>4, <2>2
    <3> HIDE DEF ids
    <3> QED
      BY <1>1, <2>1, <2>2, <3>1
  <2>3. CASE c[1] \notin ids
    <3>1. mirror'[c[1]] = mirror[c[1]]
      BY <1>1, <2>1, <2>3
    <3>2. Version(c[1], c[2]) \in versions
      BY <1>3, <2>3
    <3>3. PICK o \in OrderIds, a \in AnOrder :
            Version(c[1], c[2]) = Version(o, a) /\ Ahead(a, mirror[o])
      BY <3>2 DEF Inv, MirrorInv
    <3>4. o = c[1] /\ a.status = c[2].status /\ a.filled = c[2].filled
      BY <3>3 DEF Version
    <3>5. Ahead(a, mirror[c[1]]) /\ Ahead(mirror[c[1]], c[2])
      BY <1>4, <3>3, <3>4 DEF Underway
    <3>6. mirror[c[1]] \in AnOrder \cup {NoOrder}
      BY <1>4, <2>1
    <3>7. mirror[c[1]] = c[2]
      BY <2>1, <3>4, <3>5, <3>6, NothingBetween
    <3> QED
      BY <3>1, <3>7
  <2> QED
    BY <2>2, <2>3
<1>6. ASSUME NEW o \in OrderIds
      PROVE  /\ mirror'[o] \in AnOrder \cup {NoOrder}
             /\ Ahead(mirror[o], mirror'[o]) /\ Ahead(mirror'[o], venue.orders[o])
  <2>1. CASE o \in ids
    <3>1. new(o) \in r.copies /\ new(o)[1] = o
      BY <1>2, <1>3, <2>1
    <3>2. mirror'[o] = new(o)[2]
      <4> HIDE DEF ids
      <4> QED
        BY <1>1, <2>1
    <3> QED
      BY <1>4, <3>1, <3>2 DEF Underway
  <2>2. CASE o \notin ids
    <3>1. mirror'[o] = mirror[o]
      BY <1>1, <2>2
    <3> QED
      BY <1>4, <3>1 DEF Ahead
  <2> QED
    BY <2>1, <2>2
<1>7. mirror' \in [OrderIds -> AnOrder \cup {NoOrder}]
  <2> HIDE DEF ids
  <2> QED
    BY <1>1, <1>6
<1> QED
  BY <1>5, <1>6, <1>7

LEMMA IngestInv ==
  ASSUME Inv, Ingest
  PROVE  Kept
<1>1. PICK r \in reply :
        IngestOrders(r.copies) /\ stage' = IF r.kind = "orders" THEN "idle" ELSE "fills"
  BY DEF Ingest
<1>2. /\ UNCHANGED server /\ UNCHANGED venue /\ UNCHANGED <<requests, calls, seenFills, loop>>
      /\ awaited' = 0 /\ reply' = {}
  BY DEF Ingest, server, NoReply
<1>3. VenueInv' /\ Grown(venue, venue') /\ Sound(venue')
  BY <1>2, VenueStays DEF Inv, VenueInv
<1>4. NetInv'
  BY <1>1, <1>2 DEF Inv, NetInv
<1>5. /\ \A c \in r.copies : mirror'[c[1]] = c[2]
      /\ mirror' \in [OrderIds -> AnOrder \cup {NoOrder}]
      /\ \A o \in OrderIds : Ahead(mirror[o], mirror'[o]) /\ Ahead(mirror'[o], venue.orders[o])
  BY <1>1, Mirrored
<1>6. ASSUME NEW ver \in versions'
      PROVE  \E o \in OrderIds, a \in AnOrder : ver = Version(o, a) /\ Ahead(a, mirror'[o])
  <2>1. versions' = versions \cup {Version(c[1], c[2]) : c \in News(r.copies)}
    BY <1>1 DEF IngestOrders
  <2>2. CASE ver \in versions
    <3>1. PICK o \in OrderIds, a \in AnOrder : ver = Version(o, a) /\ Ahead(a, mirror[o])
      BY <2>2 DEF Inv, MirrorInv
    <3>2. mirror[o] \in AnOrder \cup {NoOrder} /\ mirror'[o] \in AnOrder \cup {NoOrder}
      BY <1>5 DEF Inv, MirrorInv
    <3>3. Ahead(a, mirror'[o])
      BY <1>5, <3>1, <3>2, AheadTransitive
    <3> QED
      BY <3>1, <3>3
  <2>3. CASE ver \in {Version(c[1], c[2]) : c \in News(r.copies)}
    <3>1. PICK c \in r.copies : ver = Version(c[1], c[2])
      BY <2>3 DEF News
    <3>2. c[1] \in OrderIds /\ c[2] \in AnOrder
      BY DEF Inv, MirrorInv, Underway
    <3>3. Ahead(c[2], mirror'[c[1]])
      BY <1>5 DEF Ahead
    <3> QED
      BY <3>1, <3>2, <3>3
  <2> QED
    BY <2>1, <2>2, <2>3
<1>7. MirrorInv'
  BY <1>2, <1>5, <1>6 DEF MirrorInv, Version
<1>8. ClientInv'
  <2>1. \A o \in OrderIds : buckets'[o] = buckets[o]
    BY <1>1 DEF IngestOrders, Restored
  <2> QED
    BY <1>2, <2>1 DEF Inv, ClientInv, FillIds, loop
<1> QED
  BY <1>3, <1>4, <1>7, <1>8 DEF Inv, Kept

\* The venue's fills are listed: every one is now with its order.
LEMMA ListedFills ==
  ASSUME Inv, IngestFills, UNCHANGED venue
  PROVE  /\ seenFills' = FillIds
         /\ \A o \in OrderIds : buckets'[o] = FillsOf(venue, o)
         /\ Listed(buckets') \subseteq FillIds
<1>1. DOMAIN venue.fills = FillIds
  BY FillFacts DEF Inv, VenueInv, Sound, FillIds
<1>2. seenFills' = FillIds
  BY DEF IngestFills, Inv, ClientInv
<1>3. \A o \in OrderIds : buckets'[o] = FillsOf(venue, o)
  BY <1>1 DEF IngestFills, Inv, ClientInv, FreshOf, FillsOf
<1>4. Listed(buckets') \subseteq FillIds
  BY <1>1, <1>3 DEF Listed, FillsOf
<1> QED
  BY <1>2, <1>3, <1>4

LEMMA ListingInv ==
  ASSUME Inv, SyncFills \/ Begin \/ Notify
  PROVE  Kept
<1>1. /\ UNCHANGED server /\ UNCHANGED venue /\ UNCHANGED <<requests, calls, awaited, reply>>
      /\ IngestFills
      /\ stage' \in {"idle", stage}
  BY DEF SyncFills, Begin, Notify, server, net
<1>2. VenueInv' /\ Grown(venue, venue') /\ Sound(venue')
  BY <1>1, VenueStays DEF Inv, VenueInv
<1>3. MirrorInv'
  BY <1>1, <1>2, MirrorStays DEF Inv, IngestFills
<1>4. NetInv'
  BY <1>1 DEF Inv, NetInv
<1>5. /\ seenFills' = FillIds
      /\ \A o \in OrderIds : buckets'[o] = FillsOf(venue, o)
      /\ Listed(buckets') \subseteq FillIds
  BY <1>1, ListedFills
<1>6. told' \subseteq known' /\ known' \subseteq seenFills' /\ (~running' => told' = {})
  <2>1. /\ told \subseteq known /\ known \subseteq seenFills /\ seenFills \subseteq FillIds
        /\ ~running => told = {}
    BY DEF Inv, ClientInv
  <2>2. CASE SyncFills
    BY <1>5, <2>1, <2>2 DEF SyncFills, loop
  <2>3. CASE Begin
    BY <1>5, <2>1, <2>3 DEF Begin
  <2>4. CASE Notify
    BY <1>5, <2>1, <2>4 DEF Notify
  <2> QED
    BY <2>2, <2>3, <2>4
<1>7. ClientInv'
  <2>1. DOMAIN venue.fills = FillIds
    BY FillFacts DEF Inv, VenueInv, Sound, FillIds
  <2>2. \A o \in OrderIds : buckets'[o] = {f \in FillIds : venue.fills[f].order = o}
    BY <1>5, <2>1 DEF FillsOf
  <2>3. FillIds' = FillIds
    BY <1>1 DEF FillIds
  <2> QED
    BY <1>1, <1>5, <1>6, <2>2, <2>3 DEF ClientInv
<1> QED
  BY <1>2, <1>3, <1>4, <1>7 DEF Inv, Kept

\* The client forgets everything: the venue does not, and nothing is on its way.
LEMMA RestartInv ==
  ASSUME Inv, Restart
  PROVE  Kept
<1>1. /\ UNCHANGED server /\ UNCHANGED venue /\ UNCHANGED <<requests, calls>>
      /\ reply' = {} /\ awaited' = 0 /\ stage' = "idle"
      /\ mirror' = NoMirror /\ buckets' = NoFills /\ seenFills' = {} /\ versions' = {}
      /\ running' = FALSE /\ known' = {} /\ told' = {}
  BY DEF Restart, server, NoReply
<1>2. VenueInv' /\ Grown(venue, venue') /\ Sound(venue')
  BY <1>1, VenueStays DEF Inv, VenueInv
<1>3. NetInv'
  BY <1>1 DEF Inv, NetInv
<1>4. \A o \in OrderIds : Ahead(NoOrder, venue.orders[o])
  BY DEF Ahead
<1>5. MirrorInv'
  BY <1>1, <1>4 DEF MirrorInv, NoMirror
<1>6. ClientInv'
  BY <1>1 DEF ClientInv, NoFills
<1> QED
  BY <1>2, <1>3, <1>5, <1>6 DEF Inv, Kept

\* A market event: first the quotes, which are never withdrawn.
LEMMA ApplyInv ==
  ASSUME Inv, NEW snap \in Snapshots, ApplyMarket(snap),
         UNCHANGED <<net, client, loop>>
  PROVE  Kept
<1>1. UNCHANGED venue /\ todo' = Used(venue)
  BY DEF ApplyMarket
<1>2. Grown(venue, venue') /\ Sound(venue')
  BY <1>1, GrownSame DEF Inv, VenueInv
<1>3. ASSUME NEW s \in Symbols
      PROVE  /\ quotes'[s] \in AQuote \cup {NoQuote}
             /\ quotes[s] # NoQuote => quotes'[s] # NoQuote
  <2>1. CASE s \in DOMAIN snap
    <3>1. snap[s] \in AQuote
      BY <2>1, MarketAssumption DEF AQuote
    <3>2. snap[s].last \in Nat /\ NoQuote.last = -1
      BY <3>1 DEF AQuote, NoQuote
    <3>3. quotes'[s] = snap[s]
      BY <2>1 DEF ApplyMarket
    <3> QED
      BY <3>1, <3>2, <3>3
  <2>2. CASE s \notin DOMAIN snap
    BY <2>2 DEF ApplyMarket, Inv, VenueInv, QuotesTyped
  <2> QED
    BY <2>1, <2>2
<1>4. QuotesTyped'
  BY <1>3 DEF ApplyMarket, QuotesTyped
<1>5. Quoted(venue)'
  <2>1. \A o \in Used(venue) : Wanted(venue, o).symbol \in Symbols
    BY WantedTyped DEF Inv, VenueInv, Sound
  <2> QED
    BY <1>1, <1>3, <2>1 DEF Inv, VenueInv, Quoted, Quote
<1>6. VenueInv'
  BY <1>1, <1>4, <1>5 DEF Inv, VenueInv
<1>7. NetInv'
  BY <1>1 DEF Inv, NetInv, net
<1>8. MirrorInv'
  BY <1>2, MirrorStays DEF Inv, client, net
<1>9. ClientInv'
  BY <1>2, ClientStays DEF Inv, client, loop
<1> QED
  BY <1>2, <1>6, <1>7, <1>8, <1>9 DEF Inv, Kept

\* Then the orders there were, one by one.
LEMMA MatchInv ==
  ASSUME Inv, MatchNext, UNCHANGED <<net, client, loop>>
  PROVE  Kept
<1> DEFINE o == Min(todo)
<1>1. Sound(venue) /\ Quoted(venue) /\ Settled(venue) /\ QuotesTyped /\ todo \subseteq Used(venue)
  BY DEF Inv, VenueInv
<1>2. o \in todo
  <2>1. todo \in SUBSET Nat
    <3>1. todo \subseteq OrderIds
      BY <1>1, UsedFacts DEF Sound
    <3>2. Cardinality(OrderIds) \in Nat
      BY IntentsAssumption, FS_CardinalityType
    <3> QED
      BY <3>1, <3>2, IntentsAssumption
  <2>2. \E x \in todo : \A y \in todo : x <= y
    BY <2>1, LeastExists DEF MatchNext
  <2> QED
    BY <2>2 DEF Min
<1>3. venue' = MatchOrder(venue, o) /\ todo' \subseteq todo /\ UNCHANGED quotes
  BY DEF MatchNext
<1> HIDE DEF o
<1>4. o \in Used(venue)
  BY <1>1, <1>2
<1>5. Sound(venue') /\ Quoted(venue') /\ Settled(venue') /\ Grown(venue, venue')
  BY <1>1, <1>3, <1>4, MatchGrows
<1>6. VenueInv'
  BY <1>3, <1>5, VenueMoves DEF Inv
<1>7. Used(venue) \subseteq Used(venue')
  BY <1>1, <1>5, GrownUsed
<1>8. NetInv'
  BY <1>7 DEF Inv, NetInv, net
<1>9. MirrorInv'
  BY <1>5, MirrorStays DEF Inv, client, net
<1>10. ClientInv'
  BY <1>5, ClientStays DEF Inv, client, loop
<1> QED
  BY <1>5, <1>6, <1>8, <1>9, <1>10 DEF Inv, Kept

LEMMA StutterInv ==
  ASSUME Inv, UNCHANGED vars
  PROVE  Kept
<1>1. UNCHANGED server /\ UNCHANGED venue /\ UNCHANGED <<net, client, loop>>
  BY DEF vars, server
<1>2. VenueInv' /\ Grown(venue, venue') /\ Sound(venue')
  BY <1>1, VenueStays DEF Inv, VenueInv
<1>3. NetInv'
  BY <1>1 DEF Inv, NetInv, net
<1>4. MirrorInv' /\ ClientInv'
  BY <1>1, <1>2, MirrorStays, ClientStays DEF Inv, client, loop, net
<1> QED
  BY <1>2, <1>3, <1>4 DEF Inv, Kept

LEMMA EmptyVenue ==
  ASSUME VenueInit
  PROVE  VenueInv
<1>1. /\ venue.orders = [o \in OrderIds |-> NoOrder] /\ venue.byClient = [i \in Keyed |-> 0]
      /\ venue.fills = <<>> /\ venue.cash = InitialCash
      /\ quotes = [s \in Symbols |-> NoQuote] /\ todo = {}
  BY DEF VenueInit
<1>2. venue \in Account
  <2>1. [o \in OrderIds |-> NoOrder] \in [OrderIds -> AnOrder \cup {NoOrder}]
    OBVIOUS
  <2>2. [i \in Keyed |-> 0] \in [Keyed -> OrderIds \cup {0}]
    OBVIOUS
  <2>3. [s \in Symbols |-> 0] \in [Symbols -> Int]
    OBVIOUS
  <2>4. <<>> \in Seq(AFill) /\ InitialCash \in Int
    BY MarketAssumption
  <2> QED
    BY <2>1, <2>2, <2>3, <2>4 DEF VenueInit, Account
<1>3. Used(venue) = {}
  BY <1>1 DEF Used
<1>4. Cardinality({}) = 0 /\ 1..0 = {}
  BY FS_EmptySet
<1>5. DOMAIN venue.fills = {}
  BY <1>1
<1>6. Balanced(venue)
  <2> DEFINE paid == [f \in DOMAIN venue.fills |-> Paid(venue, f)]
  <2>1. DOMAIN paid = {}
    BY <1>5
  <2>2. SumFunction(paid) = 0
    <3> HIDE DEF paid
    <3> QED
      BY <2>1, SumEmpty DEF SumFunction
  <2>3. venue.cash = InitialCash - SumFunction(paid)
    <3> HIDE DEF paid
    <3> QED
      BY <1>1, <2>2, MarketAssumption
  <2>4. ASSUME NEW o \in OrderIds
        PROVE  venue.orders[o].filled = SumFunctionOnSet(Quantities(venue), FillsOf(venue, o))
    <3>1. FillsOf(venue, o) = {}
      BY <1>5 DEF FillsOf
    <3>2. venue.orders[o].filled = 0
      BY <1>1, NothingFilled
    <3> QED
      BY <3>1, <3>2, SumEmpty
  <2> QED
    BY <2>3, <2>4 DEF Balanced
<1>7. Sound(venue)
  BY <1>1, <1>2, <1>3, <1>4, <1>5, <1>6 DEF Sound
<1> QED
  BY <1>1, <1>3, <1>7 DEF VenueInv, Quoted, Settled, QuotesTyped

LEMMA InitInv == Init => Inv
<1> SUFFICES ASSUME Init PROVE Inv
  OBVIOUS
<1>1. VenueInv
  BY EmptyVenue DEF Init
<1>2. NetInv
  BY DEF Init, NetInv, NoReply
<1>3. MirrorInv
  BY DEF Init, MirrorInv, NoMirror, NoReply, Ahead
<1>4. ClientInv
  BY DEF Init, ClientInv, NoFills
<1> QED
  BY <1>1, <1>2, <1>3, <1>4 DEF Inv

LEMMA StepInv == Inv /\ [Next]_vars => Kept
<1> SUFFICES ASSUME Inv, [Next]_vars PROVE Kept
  OBVIOUS
<1>1. ASSUME NEW i \in Intents, SubmitOrder(i) PROVE Kept
  BY <1>1, CallInv DEF SubmitOrder
<1>2. ASSUME NEW o \in OrderIds, CancelOrder(o) PROVE Kept
  <2>1. o \in Used(venue)
    BY <1>2 DEF CancelOrder, Inv, MirrorInv, Ahead, Used
  <2> QED
    BY <1>2, <2>1, CallInv DEF CancelOrder
<1>3. ASSUME ListOrders PROVE Kept
  BY <1>3, CallInv DEF ListOrders
<1>4. ASSUME NEW r \in requests, Serve(r) PROVE Kept
  BY <1>4, ServeInv
<1>5. ASSUME GiveUp PROVE Kept
  BY <1>5, GiveUpInv
<1>6. ASSUME Ingest PROVE Kept
  BY <1>6, IngestInv
<1>7. ASSUME SyncFills \/ Begin \/ Notify PROVE Kept
  BY <1>7, ListingInv
<1>8. ASSUME Restart PROVE Kept
  BY <1>8, RestartInv
<1>9. ASSUME Market PROVE Kept
  BY <1>9, ApplyInv, MatchInv DEF Market
<1>10. ASSUME UNCHANGED vars PROVE Kept
  BY <1>10, StutterInv
<1> QED
  BY <1>1, <1>2, <1>3, <1>4, <1>5, <1>6, <1>7, <1>8, <1>9, <1>10 DEF Next

LEMMA Invariance == Spec => []Inv
<1>1. Inv /\ [Next]_vars => Inv'
  BY StepInv DEF Kept
<1> QED
  BY <1>1, InitInv, PTL DEF Spec

----------------------------------------------------------------------------
(* What the runs check *)

\* Types; and every fill the client has seen is in the bucket of its order, and
\* none is known to the loop or told to the strategy that is not there.
THEOREM TypeCorrect == Spec => []TypeOK
<1>1. Inv => TypeOK
  <2> SUFFICES ASSUME Inv PROVE TypeOK
    OBVIOUS
  <2>1. Orders = AnOrder \cup {NoOrder}
    BY DEF Orders, AnOrder
  <2>2. /\ venue.orders \in [OrderIds -> Orders]
        /\ venue.byClient \in [Keyed -> OrderIds \cup {0}]
        /\ venue.fills \in Seq(AFill) /\ venue.cash \in Int
        /\ venue.position \in [Symbols -> Int]
    BY <2>1 DEF Inv, VenueInv, Sound, Account
  <2>3. todo \subseteq OrderIds
    BY UsedFacts DEF Inv, VenueInv, Sound
  <2>4. seenFills = UNION {buckets[o] : o \in OrderIds}
    <3>1. \A f \in seenFills : venue.fills[f].order \in OrderIds
      <4>1. DOMAIN venue.fills = FillIds
        BY FillFacts DEF Inv, VenueInv, Sound, FillIds
      <4> QED
        BY <4>1, UsedFacts DEF Inv, VenueInv, Sound, ClientInv
    <3>2. \A o \in OrderIds : buckets[o] = {f \in seenFills : venue.fills[f].order = o}
      BY DEF Inv, ClientInv
    <3> QED
      BY <3>1, <3>2
  <2> QED
    BY <2>1, <2>2, <2>3, <2>4 DEF TypeOK, Inv, NetInv, MirrorInv, ClientInv
<1> QED
  BY <1>1, Invariance, PTL

\* A client id never has two orders, however often its submission is repeated,
\* and whatever became of the requests and the answers.
THEOREM ClientIdOnceHolds == Spec => []ClientIdOnce
<1>1. Inv => ClientIdOnce
  <2> SUFFICES ASSUME Inv, NEW i \in Keyed
               PROVE  Cardinality({o \in Used(venue) : venue.orders[o].intent = i}) <= 1
    BY DEF ClientIdOnce
  <2> DEFINE S == {o \in Used(venue) : venue.orders[o].intent = i}
             c == venue.byClient[i]
  <2>1. S = {} \/ S = {c}
    BY DEF Inv, VenueInv, Sound
  <2>2. Cardinality({}) = 0 /\ Cardinality({c}) = 1
    BY FS_EmptySet, FS_Singleton
  <2> HIDE DEF S, c
  <2>3. Cardinality(S) <= 1
    BY <2>1, <2>2
  <2> QED
    BY <2>3 DEF S
<1> QED
  BY <1>1, Invariance, PTL

\* The venue's cash is what its fills cost, and an order's traded quantity is
\* what its fills add up to, whatever the prices and however many the fills.
THEOREM VenueBalances == Spec => []VenueMatchesFills
<1>1. Inv => VenueMatchesFills
  BY DEF Inv, VenueInv, Sound, VenueMatchesFills
<1> QED
  BY <1>1, Invariance, PTL

\* An answer the client takes is what its mirror then says: no copy is wrongly
\* dismissed as a duplicate.
THEOREM AnswersMirrored == Spec => AnswerMirrored
<1>1. Inv => (Ingest => \A r \in reply : \A c \in r.copies : mirror'[c[1]] = c[2])
  <2> SUFFICES ASSUME Inv, Ingest, NEW r \in reply, NEW c \in r.copies
               PROVE  mirror'[c[1]] = c[2]
    OBVIOUS
  <2>1. PICK q \in reply : IngestOrders(q.copies)
    BY DEF Ingest
  <2>2. q = r
    BY DEF Inv, NetInv
  <2> QED
    BY <2>1, <2>2, Mirrored
<1> QED
  BY <1>1, Invariance, PTL DEF AnswerMirrored

\* Once the fills are listed, the client has at least those that make up the
\* traded quantity of every order in its mirror.
THEOREM FillsCover == Spec => FillsCoverOrders
<1>1. Inv => (SyncFills \/ Begin \/ Notify =>
                \A o \in OrderIds :
                  SumFunctionOnSet(Quantities(venue), buckets'[o]) >= mirror'[o].filled)
  <2> SUFFICES ASSUME Inv, SyncFills \/ Begin \/ Notify, NEW o \in OrderIds
               PROVE  SumFunctionOnSet(Quantities(venue), buckets'[o]) >= mirror'[o].filled
    OBVIOUS
  <2>1. IngestFills /\ UNCHANGED venue
    BY DEF SyncFills, Begin, Notify, server
  <2>2. buckets'[o] = FillsOf(venue, o) /\ mirror'[o] = mirror[o]
    BY <2>1, ListedFills DEF IngestFills
  <2>3. venue.orders[o].filled = SumFunctionOnSet(Quantities(venue), FillsOf(venue, o))
    BY DEF Inv, VenueInv, Sound, Balanced
  <2>4. /\ venue.orders[o] \in AnOrder \cup {NoOrder} /\ mirror[o] \in AnOrder \cup {NoOrder}
        /\ Ahead(mirror[o], venue.orders[o])
    BY DEF Inv, VenueInv, Sound, Account, MirrorInv
  <2>5. venue.orders[o].filled >= mirror[o].filled
    <3>1. mirror[o].filled \in Nat /\ venue.orders[o].filled \in Nat
      BY <2>4, NothingFilled DEF AnOrder
    <3>2. CASE mirror[o] = NoOrder
      BY <3>1, <3>2, NothingFilled
    <3>3. CASE mirror[o] # NoOrder
      BY <2>4, <3>1, <3>3 DEF Ahead, Onward
    <3> QED
      BY <3>2, <3>3
  <2> QED
    BY <2>2, <2>3, <2>5
<1> QED
  BY <1>1, Invariance, PTL DEF FillsCoverOrders

\* The instance's promise is the one stated in OrderRules.
LEMMA ForwardMeans ==
  ASSUME NEW a, NEW b
  PROVE  Lifecycle!Forward(a, b) <=>
           /\ b # NoOrder
           /\ b.status \in Statuses
           /\ IF a = NoOrder THEN Consistent(b) ELSE Onward(a, b)
  BY DEF Lifecycle!Forward, Lifecycle!Onward, Lifecycle!Consistent, Lifecycle!Later,
         Lifecycle!Statuses, Lifecycle!Working, Lifecycle!Terminal,
         Onward, Consistent, Later, Statuses, Working, Terminal

\* The venue's orders keep the promise made for orders, whenever the client
\* calls, gives up, starts again, or the market moves.
THEOREM LifecycleKept == Spec => LifecycleSpec
<1>1. Init => Lifecycle!Init
  BY DEF Init, VenueInit, Lifecycle!Init
<1>2. Inv /\ [Next]_vars => [Lifecycle!Next]_(venue.orders)
  <2> SUFFICES ASSUME Inv, [Next]_vars, NEW o \in OrderIds,
                      venue'.orders[o] # venue.orders[o]
               PROVE  Lifecycle!Forward(venue.orders[o], venue'.orders[o])
    BY DEF Lifecycle!Next
  <2>1. Inv' /\ Grown(venue, venue')
    BY StepInv DEF Kept
  <2>2. Ahead(venue.orders[o], venue'.orders[o])
    BY <2>1 DEF Grown
  <2>3. venue'.orders[o] \in AnOrder /\ Consistent(venue'.orders[o])
    <3>1. venue'.orders[o] # NoOrder
      BY <2>2 DEF Ahead
    <3>2. Sound(venue')
      BY <2>1 DEF Inv, VenueInv
    <3> QED
      BY <3>1, <3>2, UsedFacts DEF Sound, Used
  <2>4. venue'.orders[o] # NoOrder /\ venue'.orders[o].status \in Statuses
    BY <2>3, OrderIsRecord DEF AnOrder
  <2> QED
    BY <2>2, <2>3, <2>4, ForwardMeans DEF Ahead
<1> QED
  BY <1>1, <1>2, Invariance, PTL DEF Spec, LifecycleSpec, Lifecycle!Spec
====
