---- MODULE RemoteSession ----
(***************************************************************************)
(* A live_paper_remote run: RemoteSimulator (simulation/remote.py) mirrors *)
(* the venue's orders and fills, and SimulationLoop (engine.py) tells the  *)
(* strategy the fills it finds in that mirror.  The venue and the client   *)
(* are two processes: a call is a request the venue serves later, the      *)
(* client may give up before it gets the answer, whether the venue has     *)
(* served the request by then or serves it afterwards, and the market      *)
(* moves meanwhile.  The client makes one call at a time; it may end at    *)
(* any moment and start again with nothing but the account id.             *)
(***************************************************************************)
EXTENDS RemoteVenue

CONSTANTS MaxCalls, MaxMoves, MaxRestarts  \* bounds
ASSUME BoundsAssumption == MaxCalls \in Nat /\ MaxMoves \in Nat /\ MaxRestarts \in Nat

VARIABLES
  requests,  \* requests sent and not served
  calls,     \* number of calls made
  awaited,   \* the call the client waits for; 0 when it waits for none
  reply,     \* the answer on its way to the client: orders as the venue had them
  stage,     \* "idle", "reply" (waiting), or "fills": sync_fills is still to do
  mirror,    \* orders._orders
  buckets,   \* orders._fills: fills per order, a fill's id being its index at the venue
  seenFills, \* _seen_fill_ids of the client
  versions,  \* _seen_order_versions
  running,   \* the loop is past on_start
  known,     \* _seen_fill_ids of the loop
  told,      \* fills given to on_fill in this process (history)
  old,       \* fills there were when this process started (history)
  moves, restarts
net    == <<requests, calls, awaited, reply, stage>>
client == <<mirror, buckets, seenFills, versions>>
loop   == <<running, known, told, old>>
bounds == <<moves, restarts>>
vars   == <<server, net, client, loop, bounds>>

NoReply == {}
NoMirror == [o \in OrderIds |-> NoOrder]
NoFills  == [o \in OrderIds |-> {}]

Init ==
  /\ VenueInit
  /\ requests = {} /\ calls = 0 /\ awaited = 0 /\ reply = NoReply /\ stage = "idle"
  /\ mirror = NoMirror /\ buckets = NoFills /\ seenFills = {} /\ versions = {}
  /\ running = FALSE /\ known = {} /\ told = {} /\ old = {}
  /\ moves = 0 /\ restarts = 0

----------------------------------------------------------------------------
(* Calls and answers *)

Call(kind, what) ==
  /\ stage = "idle" /\ calls < MaxCalls
  /\ calls' = calls + 1 /\ awaited' = calls + 1
  /\ requests' = requests \cup {[call |-> calls + 1, kind |-> kind, what |-> what]}
  /\ stage' = "reply"
  /\ UNCHANGED <<server, reply, client, loop, bounds>>

SubmitOrder(i) == Call("submit", i)
\* A caller knows the ids of the orders it was given.
CancelOrder(o) == mirror[o] # NoOrder /\ Call("cancel", o)
ListOrders     == Call("orders", 0)

Copies(v, S) == {<<o, v.orders[o]>> : o \in S}

\* The venue serves a request.  Nobody gets the answer to a call given up.
Answer(r, v, S) ==
  /\ r \in requests /\ todo = {}
  /\ requests' = requests \ {r}
  /\ venue' = v
  /\ reply' = IF r.call = awaited THEN {[copies |-> Copies(v, S), kind |-> r.kind]} ELSE reply
  /\ UNCHANGED <<quotes, todo, calls, awaited, stage, client, loop, bounds>>

ServeSubmit(r) ==
  /\ r.kind = "submit" /\ Named(venue, r.what) \in OrderIds
  /\ Answer(r, AfterSubmit(venue, r.what), {Named(venue, r.what)})
ServeCancel(r) ==
  /\ r.kind = "cancel"
  /\ Answer(r, AfterCancel(venue, r.what), {r.what})
ServeOrders(r) ==
  /\ r.kind = "orders"
  /\ Answer(r, venue, Used(venue))
Serve(r) == ServeSubmit(r) \/ ServeCancel(r) \/ ServeOrders(r)

\* The call raises: no answer came, or list_fills of sync_fills failed.
GiveUp ==
  /\ stage # "idle"
  /\ stage' = "idle" /\ awaited' = 0 /\ reply' = NoReply
  /\ UNCHANGED <<server, requests, calls, client, loop, bounds>>

----------------------------------------------------------------------------
(* The mirror *)

\* Mutant: an order is a duplicate when its status did not change.
VersionOfStatus(o, order) == <<o, order.status, 0>>
Version(o, order) == <<o, order.status, order.filled>>
News(copies) == {c \in copies : Version(c[1], c[2]) \notin versions}

\* Mutant: a restored order starts without fills.
RestoredBare(o) == {}
\* ingest_order passes restore() the fills the order had.
Restored(o) == buckets[o]

\* ingest_order, for each order of an answer: a copy that brings no news is
\* left, the others replace what the mirror had.
IngestOrders(copies) ==
  LET news == News(copies)
      ids  == {c[1] : c \in news}
  IN  /\ versions' = versions \cup {Version(c[1], c[2]) : c \in news}
      /\ mirror' = [o \in OrderIds |->
                      IF o \in ids THEN (CHOOSE c \in news : c[1] = o)[2] ELSE mirror[o]]
      /\ buckets' = [o \in OrderIds |-> IF o \in ids THEN Restored(o) ELSE buckets[o]]

\* An answer arrives; the fills follow, but for a listing of the orders.
Ingest ==
  /\ stage = "reply"
  /\ \E r \in reply : /\ IngestOrders(r.copies)
                     /\ stage' = IF r.kind = "orders" THEN "idle" ELSE "fills"
  /\ awaited' = 0 /\ reply' = NoReply
  /\ UNCHANGED <<server, requests, calls, seenFills, loop, bounds>>

FillIds == 1..Len(venue.fills)
\* New fills of an order, mirrored or not.
FreshOf(o) == {f \in FillIds \ seenFills : venue.fills[f].order = o}

\* ingest_fill, for each fill the venue lists.
IngestFills ==
  /\ todo = {}
  /\ seenFills' = seenFills \cup FillIds
  /\ buckets' = [o \in OrderIds |-> buckets[o] \cup FreshOf(o)]
  /\ UNCHANGED <<mirror, versions>>

\* What list_fills returns: the fills of the orders the mirror has.
Listed(books) == UNION {books[o] : o \in {p \in OrderIds : mirror[p] # NoOrder}}

\* The end of submit_order and cancel_order, or list_fills called by a strategy.
SyncFills ==
  /\ stage \in {"fills", "idle"} /\ IngestFills
  /\ stage' = "idle"
  /\ UNCHANGED <<server, requests, calls, awaited, reply, loop, bounds>>

----------------------------------------------------------------------------
(* The loop *)

\* on_start is over: the fills listed now count as seen.
Begin ==
  /\ ~running /\ stage = "idle" /\ IngestFills
  /\ running' = TRUE /\ known' = Listed(buckets')
  /\ UNCHANGED <<server, net, told, old, bounds>>

\* _notify_new_fills.
Notify ==
  /\ running /\ stage = "idle" /\ IngestFills
  /\ told' = told \cup (Listed(buckets') \ known)
  /\ known' = known \cup Listed(buckets')
  /\ UNCHANGED <<server, net, running, old, bounds>>

Restart ==
  /\ restarts < MaxRestarts /\ restarts' = restarts + 1
  /\ stage' = "idle" /\ awaited' = 0 /\ reply' = NoReply
  /\ mirror' = NoMirror /\ buckets' = NoFills /\ seenFills' = {} /\ versions' = {}
  /\ running' = FALSE /\ known' = {} /\ told' = {} /\ old' = FillIds
  /\ UNCHANGED <<server, requests, calls, moves>>

Market ==
  \/ /\ \E snap \in Snapshots : ApplyMarket(snap)
     /\ moves < MaxMoves /\ moves' = moves + 1
     /\ UNCHANGED <<net, client, loop, restarts>>
  \/ MatchNext /\ UNCHANGED <<net, client, loop, bounds>>

Next ==
  \/ \E i \in Intents : SubmitOrder(i)
  \/ \E o \in OrderIds : CancelOrder(o)
  \/ ListOrders
  \/ \E r \in requests : Serve(r)
  \/ GiveUp
  \/ Ingest
  \/ SyncFills
  \/ Begin
  \/ Notify
  \/ Restart
  \/ Market

Spec == Init /\ [][Next]_vars

----------------------------------------------------------------------------
Orders  == [status : Statuses, filled : Nat, qty : Nat \ {0}, intent : Intents] \cup {NoOrder}
AFill   == [order : OrderIds, qty : Nat \ {0}, price : Int, fee : Int]

\* Types; and the bookkeeping that every fill the client has seen is in the
\* bucket of its order.
TypeOK ==
  /\ venue.orders \in [OrderIds -> Orders] /\ mirror \in [OrderIds -> Orders]
  /\ venue.byClient \in [Keyed -> OrderIds \cup {0}]
  /\ venue.fills \in Seq(AFill) /\ venue.cash \in Int
  /\ venue.position \in [Symbols -> Int]
  /\ todo \subseteq OrderIds
  /\ awaited \in 0..calls /\ stage \in {"idle", "reply", "fills"}
  /\ seenFills \subseteq FillIds /\ seenFills = UNION {buckets[o] : o \in OrderIds}
  /\ told \subseteq known /\ known \subseteq seenFills

\* A client id never has two orders, however often its submission is repeated,
\* and whatever became of the requests and the answers.
ClientIdOnce ==
  \A i \in Keyed : Cardinality({o \in Used(venue) : venue.orders[o].intent = i}) <= 1

\* What the fills of the account v traded and cost.
Quantities(v) == [f \in DOMAIN v.fills |-> v.fills[f].qty]
Paid(v, f) ==
  LET fill == v.fills[f]
  IN  IF Wanted(v, fill.order).side = "BUY" THEN fill.qty * fill.price + fill.fee
                                            ELSE fill.fee - fill.qty * fill.price
FillsOf(v, o) == {f \in DOMAIN v.fills : v.fills[f].order = o}

\* The venue's cash and its orders are what its fills add up to.
Balanced(v) ==
  /\ v.cash = InitialCash - SumFunction([f \in DOMAIN v.fills |-> Paid(v, f)])
  /\ \A o \in OrderIds : v.orders[o].filled = SumFunctionOnSet(Quantities(v), FillsOf(v, o))
VenueMatchesFills == Balanced(venue)

\* An answer the client takes is what its mirror then says: no order of it is
\* dismissed as a duplicate while the mirror has something else.
AnswerMirrored ==
  [][Ingest => \A r \in reply : \A c \in r.copies : mirror'[c[1]] = c[2]]_vars

\* When the fills have been listed, the client has at least the fills that make
\* up the traded quantity its mirror shows for an order.
FillsCoverOrders ==
  [][SyncFills \/ Begin \/ Notify =>
       \A o \in OrderIds :
         SumFunctionOnSet(Quantities(venue), buckets'[o]) >= mirror'[o].filled]_vars

\* on_fill is called for new fills: none that was there when the run started.
ToldAreNew == told \cap old = {}

\* The venue's orders keep the promise made for orders.
Lifecycle == INSTANCE OrderLifecycle WITH Ids <- OrderIds, orders <- venue.orders
LifecycleSpec == Lifecycle!Spec
====
