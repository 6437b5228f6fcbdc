---- MODULE RecordingSession ----
(***************************************************************************)
(* A live_broker run: SimulationLoop (engine.py) drives a strategy over a  *)
(* StrategyContext (strategy.py) and the recording gateway.  The strategy  *)
(* is any strategy: in each of its callbacks it may submit, cancel and     *)
(* look at the portfolio any number of times before it returns.            *)
(*                                                                         *)
(* pc is where the loop is: "idle" between two process() calls, "release"  *)
(* and "tell" in _notify_new_fills, which runs in the round before and in  *)
(* the round after on_market_data, or in one of the strategy's callbacks.  *)
(***************************************************************************)
EXTENDS RecordingLedger, FiniteSetsExt

CONSTANTS MaxEvents  \* bound on the number of snapshots
ASSUME EventsAssumption == MaxEvents \in Nat

VARIABLES
  pc,
  round,   \* which _notify_new_fills of process() runs
  event,   \* number of snapshots given to process()
  cache,   \* ctx._portfolio_cache
  seen,    \* _seen_fill_ids, a fill's id being its index in fills
  todo,    \* fills of the listing that are not seen yet
  told     \* fills given to on_fill, in that order (history)
loop == <<pc, round, event, cache, seen, todo, told>>
vars == <<ledger, loop>>

Callbacks == {"on_start", "on_market_data", "on_fill", "on_stop"}
Portfolio == [cash |-> cash, lots |-> lots]
NoPortfolio == [cash |-> 0, lots |-> <<>>]

Init ==
  /\ LedgerInit
  /\ pc = "on_start" /\ round = "after" /\ event = 0
  /\ cache = NoPortfolio /\ seen = {} /\ todo = {} /\ told = <<>>

----------------------------------------------------------------------------
(* What a strategy may do in a callback *)

Submit(o) ==
  /\ pc \in Callbacks
  /\ RecordSubmit(o)
  /\ cache' = NoPortfolio
  /\ UNCHANGED <<pc, round, event, seen, todo, told>>

Cancel(o) ==
  /\ pc \in Callbacks
  /\ RecordCancel(o)
  /\ cache' = NoPortfolio
  /\ UNCHANGED <<pc, round, event, seen, todo, told>>

\* portfolio, positions, held: from the cache if there is one.
Look ==
  /\ pc \in Callbacks /\ cache = NoPortfolio
  /\ cache' = Portfolio
  /\ UNCHANGED <<ledger, pc, round, event, seen, todo, told>>

----------------------------------------------------------------------------
(* process() and finish() *)

\* Mutant: the portfolio of the event before is kept.
SetMarketKeep == UNCHANGED cache
SetMarket == cache' = NoPortfolio

Process(snap) ==
  /\ pc = "idle" /\ event < MaxEvents
  /\ SetMarket /\ event' = event + 1
  /\ NoteMarket(snap)
  /\ BeginRelease
  /\ pc' = "release" /\ round' = "before"
  /\ UNCHANGED <<seen, todo, told>>

ReleaseStep ==
  /\ pc = "release" /\ ReleaseNext
  /\ UNCHANGED loop

\* Mutant: a fill that was told before is told again.
FreshAll == 1..Len(fills)
\* The fills list_fills returns that were not told.
Fresh == (1..Len(fills)) \ seen

List ==
  /\ pc = "release" /\ EndRelease
  /\ pc' = "tell" /\ todo' = Fresh
  /\ UNCHANGED <<round, event, cache, seen, told>>

Tell ==
  /\ pc = "tell" /\ todo # {}
  /\ seen' = seen \cup {Min(todo)} /\ todo' = todo \ {Min(todo)}
  /\ told' = Append(told, Min(todo))
  /\ pc' = "on_fill"
  /\ UNCHANGED <<ledger, round, event, cache>>

\* The first notification is over: the strategy is shown the snapshot.  The
\* second is over: process() returns.
EndNotify ==
  /\ pc = "tell" /\ todo = {}
  /\ pc' = IF round = "before" THEN "on_market_data" ELSE "idle"
  /\ UNCHANGED <<ledger, round, event, cache, seen, todo, told>>

\* A callback returns.  Fills of on_start, which there are none of here, are
\* seen but never told.
Return ==
  \/ /\ pc = "on_start" /\ pc' = "idle" /\ seen' = 1..Len(fills)
     /\ UNCHANGED <<ledger, round, event, cache, todo, told>>
  \/ /\ pc = "on_market_data" /\ pc' = "release" /\ round' = "after"
     /\ BeginRelease
     /\ UNCHANGED <<orders, fills, cash, lots, last, event, cache, seen, todo, told>>
  \/ /\ pc = "on_fill" /\ pc' = "tell"
     /\ UNCHANGED <<ledger, round, event, cache, seen, todo, told>>
  \/ /\ pc = "on_stop" /\ pc' = "ended"
     /\ UNCHANGED <<ledger, round, event, cache, seen, todo, told>>

\* The provider has no more events: finish().
Finish ==
  /\ pc = "idle" /\ pc' = "on_stop"
  /\ UNCHANGED <<ledger, round, event, cache, seen, todo, told>>

Next ==
  \/ \E o \in OrderIds : Submit(o) \/ Cancel(o)
  \/ Look
  \/ \E snap \in Snapshots : Process(snap)
  \/ ReleaseStep
  \/ List
  \/ Tell
  \/ EndNotify
  \/ Return
  \/ Finish

Spec == Init /\ [][Next]_vars

----------------------------------------------------------------------------
AnOrder == [status : Statuses, filled : Nat, qty : Nat \ {0}]
AFill   == [order : OrderIds, price : Nat \ {0}]

\* Types, and one thing that is more than a type: no fill is without a price.
TypeOK ==
  /\ orders \in [OrderIds -> AnOrder \cup {NoOrder}]
  /\ pending \in Seq(OrderIds) /\ queue \in Seq(OrderIds) /\ waiting \in Seq(OrderIds)
  /\ fills \in Seq(AFill)
  /\ cash \in Int /\ lots \in [Symbols -> Int]
  /\ last \in [Symbols -> Nat]
  /\ pc \in Callbacks \cup {"idle", "release", "tell", "ended"}
  /\ round \in {"before", "after"}
  /\ event \in 0..MaxEvents
  /\ cache \in [cash : Int, lots : [Symbols -> Int]] \cup {NoPortfolio}
  /\ seen \subseteq 1..Len(fills) /\ todo \subseteq 1..Len(fills)
  /\ told \in Seq(1..Len(fills))

FillsAt(s) == {i \in 1..Len(fills) : OrderSpec[fills[i].order].symbol = s}
Traded == [i \in 1..Len(fills) |-> Signed(fills[i].order)]
Paid   == [i \in 1..Len(fills) |-> Signed(fills[i].order) * fills[i].price]

\* Cash and positions are the fills added up, every filled order has one fill
\* and no other order has any.
LedgerTellsFills ==
  /\ cash = InitialCash - SumFunction(Paid)
  /\ \A s \in Symbols : lots[s] = SumFunctionOnSet(Traded, FillsAt(s))
  /\ \A o \in OrderIds :
       Cardinality({i \in 1..Len(fills) : fills[i].order = o})
         = IF orders[o].status = "FILLED" THEN 1 ELSE 0

\* An accepted order is in the queue, once: it is neither forgotten nor filled
\* twice, wherever a release is interrupted by nothing but its own steps.
AcceptedQueuedOnce ==
  LET all == pending \o waiting \o queue
  IN  /\ {all[i] : i \in DOMAIN all} = {o \in OrderIds : orders[o].status = "ACCEPTED"}
      /\ Cardinality({all[i] : i \in DOMAIN all}) = Len(all)

\* Without permission no position is ever short, however the sells of one
\* release add up.
NeverShort == AllowShort \/ \A s \in Symbols : lots[s] >= 0

\* Every fill is told once and in order, and the strategy decides on a snapshot,
\* or waits for the next one, with nothing left untold.
ToldInOrder ==
  /\ told = [i \in 1..Len(told) |-> i]
  /\ pc \in {"on_market_data", "idle"} => Len(told) = Len(fills)

\* The portfolio a strategy reads in on_market_data, and in the calls of on_fill
\* that come before it, is the account's portfolio.  In on_fill after it, and in
\* on_stop, what on_market_data cached may lack the fills released since.
FreshWhenDeciding ==
  pc = "on_market_data" \/ (pc = "on_fill" /\ round = "before")
    => cache \in {NoPortfolio, Portfolio}
====
