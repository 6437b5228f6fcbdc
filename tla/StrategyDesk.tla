---------------------------- MODULE StrategyDesk ----------------------------
(* Runs of the built-in strategies, each over an account of its own:         *)
(* StrategyRunner._run loads the strategy's state file, SimulationEngine     *)
(* shows it one snapshot after the other (market, matching, fills, decision, *)
(* fills), settles what latency still holds back, and writes the state file. *)
(* A run may die anywhere, and ends when a call raises.                      *)
(*                                                                           *)
(* A later run starts no earlier than the one before it ended.               *)
EXTENDS PairLegs, SingleLegs

CONSTANTS
  Setups,     \* what is run: [name, lag, short, policy]
  Snapshots,
  Gaps,       \* what may lie between two events; 0: two events of one moment
  InitialCash,
  MaxEvents, MaxRuns  \* bounds

ASSUME DeskAssumption ==
  /\ Gaps \subseteq Nat /\ InitialCash \in Nat
  /\ \A terms \in Setups : /\ terms.policy.quantum \in Nat \ {0}
                            /\ terms.policy.tick \in Nat \ {0} /\ terms.policy.offset \in Nat
  /\ \A snap \in Snapshots :
       /\ DOMAIN snap \subseteq Symbols
       /\ \A s \in DOMAIN snap : snap[s] \in [last : Nat, nav : Int, premium : Int]

VARIABLES
  setup,
  pc,      \* "off", "match", "settle", "told" before the decision and "done"
           \* after it while fills are told, "idle", "save"
  desk,
  todo,    \* orders to match, or fills to tell
  seen,    \* _seen_fill_ids, a fill's id being its index
  current, \* _current_pair
  intent,  \* what _INTENTS keeps for this context
  memory,  \* [series, prices]: premium points (pair_zscore: FundA's) and prices
  file,    \* the state file: [torn, series], with what its memory was shown (a history)
  shown,   \* what the memory was told of, oldest first: [at, snap] (a history)
  clock, events, runs

vars == <<setup, pc, desk, todo, seen, current, intent, memory, file, shown, clock, events, runs>>

Pairs == {"pair_zscore", "bubble_rank"}
NoSeries == [s \in Symbols |-> <<>>]
Blank == [series |-> NoSeries, prices |-> [s \in Symbols |-> <<>>]]
NoFile == [torn |-> FALSE, series |-> NoSeries, shown |-> <<>>]

Init ==
  /\ setup \in Setups
  /\ pc = "off" /\ desk = OpenDesk(Symbols, InitialCash, setup)
  /\ todo = {} /\ seen = {}
  /\ current = NoPair /\ intent = NoIntent /\ memory = Blank
  /\ file = NoFile /\ shown = <<>>
  /\ clock = 1 /\ events = 0 /\ runs = 0

----------------------------------------------------------------------------
(* The run *)

\* load_state of the pair strategies; the others keep nothing in the file.
Loaded == IF setup.name \in Pairs THEN [Blank EXCEPT !.series = file.series] ELSE Blank

\* on_start drops what was loaded when reset_history is asked for.
OnStart(reset) == IF reset THEN Blank ELSE Loaded

\* A new account and a new strategy. A torn state file refuses every run.
Start(reset) ==
  /\ pc = "off" /\ runs < MaxRuns /\ ~file.torn
  /\ pc' = "idle" /\ runs' = runs + 1
  /\ desk' = OpenDesk(Symbols, InitialCash, setup)
  /\ todo' = {} /\ seen' = {} /\ current' = NoPair /\ intent' = NoIntent
  /\ memory' = OnStart(reset)
  /\ shown' = IF reset \/ setup.name \notin Pairs THEN <<>> ELSE file.shown
  /\ UNCHANGED <<setup, file, clock, events>>

\* process: the context takes the snapshot, the broker is fed.
Process(snap, gap) ==
  /\ pc = "idle" /\ events < MaxEvents
  /\ clock' = clock + gap /\ events' = events + 1
  /\ desk' = Fed(desk, snap, clock')
  /\ pc' = "match" /\ todo' = WorkingOrders(desk')
  /\ UNCHANGED <<setup, seen, current, intent, memory, file, shown, runs>>

\* settle_delayed_orders, when an order still waits for its activation.
Settle ==
  /\ pc = "idle" /\ events > 0
  /\ IF \E i \in DOMAIN desk.orders : desk.orders[i].status = "CREATED"
     THEN /\ desk' = [desk EXCEPT !.orders = [i \in DOMAIN @ |->
                        IF @[i].status = "CREATED" THEN AfterAccept(@[i]) ELSE @[i]]]
          /\ todo' = WorkingOrders(desk') /\ pc' = "settle"
     ELSE pc' = "save" /\ UNCHANGED <<desk, todo>>
  /\ UNCHANGED <<setup, seen, current, intent, memory, file, shown, clock, events, runs>>

\* Orders are matched by submission time; ids of one moment have no order.
Match(i) ==
  /\ pc \in {"match", "settle"} /\ ~desk.raised
  /\ i \in todo /\ \A j \in todo : desk.orders[i].at <= desk.orders[j].at
  /\ desk' = Matched(desk, i) /\ todo' = todo \ {i}
  /\ UNCHANGED <<setup, pc, seen, current, intent, memory, file, shown, clock, events, runs>>

\* _notify_new_fills lists the fills once; those made while they are told wait
\* for the next time.
Fresh == DOMAIN desk.fills \ seen

EndMatch ==
  /\ todo = {} /\ ~desk.raised
  /\ \/ pc = "match" /\ pc' = "told" /\ todo' = Fresh
     \/ pc = "settle" /\ pc' = "save" /\ UNCHANGED todo
  /\ desk' = Recorded(desk)
  /\ UNCHANGED <<setup, seen, current, intent, memory, file, shown, clock, events, runs>>

\* on_fill: the pair is believed in once it is opened, and no more once it failed.
PairAfter(outcome) ==
  CASE outcome = "opened" -> intent.pair
    [] outcome = "failed" -> NoPair
    [] OTHER -> current

\* Fills of one moment are told in the order of their random ids.
OnFill(f) ==
  LET outcome == Outcome(desk, intent, desk.fills[f])
  IN  /\ pc \in {"told", "done"} /\ ~desk.raised /\ f \in todo
      /\ todo' = todo \ {f} /\ seen' = seen \cup {f}
      /\ desk' = IF outcome = "failed" THEN RolledBack(desk, intent) ELSE desk
      /\ intent' = IF outcome = "none" THEN intent
                   ELSE [intent EXCEPT !.applied = outcome = "opened",
                                       !.failed = outcome = "failed"]
      /\ current' = PairAfter(outcome)
      /\ UNCHANGED <<setup, pc, memory, file, shown, clock, events, runs>>

----------------------------------------------------------------------------
(* on_market_data *)

\* The premium windows after this snapshot.
Windows ==
  IF setup.name = "bubble_rank" THEN AppendPremiums(memory.series, desk.market, desk.time)
  ELSE [memory.series EXCEPT ![FundA] = AppendSpread(@, desk.market, desk.time)]

\* The pair the signal asks for now.
Target ==
  IF setup.name = "bubble_rank" THEN BestPair(Windows, desk.market, desk.time)
  ELSE SpreadPair(WindowValues(Windows[FundA], desk.time))

\* The signal is gone: a pair believed in is given up.
ExitPair == IF current = NoPair THEN desk ELSE Flatten(desk)

Rebalance == OpenPair(Flatten(desk), intent, Target)

DecidePair ==
  /\ setup.name \in Pairs
  /\ memory' = [memory EXCEPT !.series = Windows]
  /\ IF Target = NoPair
     THEN /\ desk' = ExitPair
          /\ current' = NoPair /\ UNCHANGED intent
     ELSE IF Target = current \/ Pending(desk, intent, Target)
     THEN UNCHANGED <<desk, current, intent>>
     ELSE /\ desk' = Rebalance.desk /\ intent' = Rebalance.intent
          /\ current' = IF Rebalance.sent THEN current ELSE NoPair

DecideSingle ==
  /\ setup.name \notin Pairs
  /\ desk' = TradeSingle(setup.name, memory.prices, desk)
  /\ memory' = [memory EXCEPT !.prices = [s \in Symbols |->
       IF s \in DOMAIN desk.market THEN Remember(setup.name, s, @[s], desk.market[s]) ELSE @[s]]]
  /\ UNCHANGED <<current, intent>>

Decide ==
  /\ pc = "told" /\ todo = {} /\ ~desk.raised
  /\ DecidePair \/ DecideSingle
  /\ shown' = Append(shown, [at |-> desk.time, snap |-> desk.market])
  /\ pc' = "done" /\ todo' = DOMAIN desk'.fills \ seen
  /\ UNCHANGED <<setup, seen, file, clock, events, runs>>

EndEvent ==
  /\ pc = "done" /\ todo = {} /\ ~desk.raised /\ pc' = "idle"
  /\ UNCHANGED <<setup, desk, todo, seen, current, intent, memory, file, shown, clock, events, runs>>

----------------------------------------------------------------------------
(* The end of a run *)

\* _save_strategy_state truncates the file, then writes it.
Truncate ==
  /\ pc = "save" /\ ~file.torn
  /\ file' = [NoFile EXCEPT !.torn = TRUE]
  /\ UNCHANGED <<setup, pc, desk, todo, seen, current, intent, memory, shown, clock, events, runs>>

Save ==
  /\ pc = "save" /\ file.torn
  /\ file' = [torn |-> FALSE, series |-> memory.series,
              shown |-> IF setup.name \in Pairs THEN shown ELSE <<>>]
  /\ pc' = "off"
  /\ UNCHANGED <<setup, desk, todo, seen, current, intent, memory, shown, clock, events, runs>>

\* The process dies, or a call raised: what the run learnt is lost.
Stop ==
  /\ pc # "off" /\ pc' = "off"
  /\ UNCHANGED <<setup, desk, todo, seen, current, intent, memory, file, shown, clock, events, runs>>

Next ==
  \/ \E reset \in BOOLEAN : Start(reset)
  \/ \E snap \in Snapshots, gap \in Gaps : Process(snap, gap)
  \/ Settle
  \/ \E i \in todo : Match(i)
  \/ EndMatch
  \/ \E f \in todo : OnFill(f)
  \/ Decide
  \/ EndEvent
  \/ Truncate
  \/ Save
  \/ Stop

Spec == Init /\ [][Next]_vars

----------------------------------------------------------------------------
Instant == setup.lag = 0

\* When orders trade at once, a strategy knows what it owns between two events.
\* A pair strategy owns the pair it believes in, or nothing at all, after
\* entries, changes of pair, exits, and entries of which one leg was refused, as
\* long as no flattening order met a symbol without a price. A long-only one
\* never adds to its position and never sells more than it holds.
BeliefHeld ==
  pc = "idle" /\ Instant =>
    IF setup.name \notin Pairs THEN \A s \in Symbols : Held(desk, s) \in 0..Quantity
    ELSE (\A i \in DOMAIN desk.orders : desk.orders[i].entry \/ desk.orders[i].status # "REJECTED")
         => \A s \in Symbols :
              /\ Held(desk, s) > 0 <=> current # NoPair /\ s = current[1]
              /\ Held(desk, s) < 0 <=> current # NoPair /\ s = current[2]

\* However long orders wait, no leg of an entry is in the market but those of
\* the entry the strategy would still act on, unless a call has ended the run: as
\* long as every leg fills whole. What is left of a leg filled in part stays in
\* the market when the other leg dies (pairs.py:309).
OneEntryInFlight ==
  setup.name \in Pairs /\ ~desk.raised =>
    \A i \in DOMAIN desk.orders :
      desk.orders[i].entry /\ InFlight(desk.orders[i]) => Live(intent) /\ i \in Legs(intent)

\* What was told of, latest entry per moment, of those a strategy takes up.
Points(Has(_), Value(_)) ==
  {[at |-> shown[i].at, value |-> Value(shown[i].snap)] :
     i \in {j \in DOMAIN shown :
             /\ Has(shown[j].snap)
             /\ \A k \in DOMAIN shown : k > j /\ Has(shown[k].snap) => shown[k].at # shown[j].at}}

InWindow(points) == {p \in points : p.at >= clock - Window}
Ascending(series) == \A i, j \in 1..Len(series) : i < j => series[i].at < series[j].at

\* The prices of a symbol in the snapshots shown.
Prices(s) ==
  LET quoted == Picked(shown, {i \in DOMAIN shown : s \in DOMAIN shown[i].snap})
  IN  [i \in DOMAIN quoted |-> quoted[i].snap[s].last]
Positive(prices) == Picked(prices, {i \in DOMAIN prices : prices[i] > 0})
\* Those after the last one that is missing.
Unbroken(prices) ==
  Picked(prices, {i \in DOMAIN prices : \A j \in DOMAIN prices : j >= i => prices[j] > 0})

\* What a strategy decides on is what its snapshots said, the saved ones of
\* earlier runs included and those of a run that died left out: one point per
\* moment inside the window, the unbroken run of prices, the last price, the
\* last closes.
RemembersShown ==
  pc # "off" =>
    CASE setup.name = "bubble_rank" ->
           \A s \in Symbols :
             /\ InWindow(Range(memory.series[s]))
                  = InWindow(Points(LAMBDA snap : s \in Quoting(snap),
                                    LAMBDA snap : QuotePremium(snap[s])))
             /\ Ascending(memory.series[s])
      [] setup.name = "pair_zscore" ->
           /\ InWindow(Range(memory.series[FundA]))
                = InWindow(Points(LAMBDA snap : {FundA, FundB} \subseteq Quoting(snap),
                                  LAMBDA snap : QuotePremium(snap[FundA]) - QuotePremium(snap[FundB])))
           /\ Ascending(memory.series[FundA])
      [] setup.name = "streak" ->
           \A s \in Symbols : memory.prices[s] = Recent(Unbroken(Prices(s)), Length + 1)
      [] setup.name = "price_momentum" ->
           \A s \in Symbols : memory.prices[s] = Recent(Positive(Prices(s)), 1)
      [] setup.name = "ma_band" -> memory.prices[MaSymbol] = Recent(Positive(Prices(MaSymbol)), MaWindow)
      [] OTHER -> TRUE

\* total_pnl of the metrics
TotalPnl ==
  Total([s \in Symbols |-> desk.holdings[s].realized])
    + Total([s \in Symbols |-> Unrealized(desk.holdings[s], desk.book[s])]) - Parts * desk.fees

\* What the averages were rounded by.
Rounding == Total([s \in Symbols |-> desk.holdings[s].rounded])

\* The ways a run reports its profit agree, whatever was bought, added to,
\* closed in part, turned over, flattened twice or filled bit by bit: realized
\* and unrealized profit less fees is what the equity gained, but for what the
\* averages were rounded by, as long as every position has a mark. And what was
\* traded since feed recorded the last point of the equity history has cost its
\* fees and the slippage, and earned nothing, over all orders submitted since.
BooksBalance ==
  /\ (\A s \in Symbols : Held(desk, s) # 0 => Marked(desk.book[s]))
     => TotalPnl = Parts * (Equity(desk) - InitialCash) + Rounding
  /\ pc \in {"told", "done", "idle", "settle", "save"} /\ desk.curve # <<>> =>
       LET now  == Equity(desk) + desk.fees
           then == LastOf(desk.curve).equity + LastOf(desk.curve).fees
       IN  now <= then /\ (Slip = 0 => now = then)

\* A pair is entered only when both legs are filled, and rolled back otherwise:
\* between two events an account whose entry can no longer fill and was not
\* taken up holds nothing.
EntryWholeOrRolledBack ==
  /\ pc = "idle" /\ setup.name \in Pairs /\ current = NoPair
  /\ \A i \in DOMAIN desk.orders : ~InFlight(desk.orders[i])
  => \A s \in Symbols : Held(desk, s) = 0
=============================================================================
