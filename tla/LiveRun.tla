------------------------------- MODULE LiveRun -------------------------------
(* A live paper run: the engine feeds what the provider yields to a broker   *)
(* whose file outlives the run (LocalPaperBroker.feed), while the clock goes *)
(* on, trades happen, requests fail and the process may die. A run that      *)
(* continues an account which has seen the market replays no history, as     *)
(* pipelines.py and docs/sdk-usage-fa.md ask of it.                          *)
EXTENDS LiveFeed

CONSTANTS
  FirstTick, LastTick,   \* the clock when the model starts, and its bound
  Past,                  \* bound: what may have traded before
  TradeTicks,            \* bound: the seconds in which a symbol may trade
  Configs,               \* how a run may be set up: [session, back, stop]
  MaxRuns                \* bound: runs

VARIABLES
  broker,   \* its file: the ids of the stored events and the time of the last one
  told,     \* the events of this run the strategy was shown
  runs

vars == <<clock, trades, feed, broker, told, runs>>

ASSUME LiveAssumption ==
  /\ DayLength \in Nat /\ Open \in Nat /\ Close \in Open .. DayLength - 1
  /\ FirstTick \in Nat \ {0} /\ LastTick \in Nat /\ PollSeconds \in Nat \ {0}
  /\ Configs \subseteq [session : BOOLEAN, back : Nat, stop : Nat]
  /\ \A c \in Configs : c.stop + PollSeconds <= LastTick
  /\ Past \subseteq [Symbols -> SUBSET (1 .. FirstTick)]

Init ==
  /\ clock = FirstTick
  /\ trades \in Past
  /\ feed = Off
  /\ broker = [ids |-> {}, last |-> 0, refused |-> FALSE]
  /\ told = <<>> /\ runs = 0

Tick ==
  /\ clock < LastTick
  /\ clock' = clock + 1
  /\ UNCHANGED <<trades, feed, broker, told, runs>>

Trade(s) ==
  /\ clock \in TradeTicks \ trades[s]
  /\ trades' = [trades EXCEPT ![s] = @ \cup {clock}]
  /\ UNCHANGED <<clock, feed, broker, told, runs>>

\* StrategyRunner builds a provider of its own for every run
Start(config) ==
  /\ feed.at \in {"off", "ended"} /\ runs < MaxRuns
  /\ broker.ids # {} => ~config.session /\ config.back = 0
  /\ feed' = Created(config)
  /\ runs' = runs + 1 /\ told' = <<>>
  /\ UNCHANGED <<clock, trades, broker>>

\* process, then LocalPaperBroker.feed: an event it knows is left out of the
\* file, one that is older than the last raises and ends the run
Deliver ==
  /\ feed.at = "hand" /\ feed.queue # <<>>
  /\ LET event == Head(feed.queue)
         known == IdOf(event) \in broker.ids
         older == ~known /\ broker.last > event.at
     IN /\ feed' = IF older THEN Off ELSE [feed EXCEPT !.queue = Tail(@)]
        /\ broker' = CASE known -> broker
                       [] older -> [broker EXCEPT !.refused = TRUE]
                       [] OTHER -> [broker EXCEPT !.ids = @ \cup {IdOf(event)}, !.last = event.at]
        /\ told' = IF older THEN told ELSE Append(told, event)
  /\ UNCHANGED <<clock, trades, runs>>

Crash ==
  /\ feed.at \notin {"off", "ended"}
  /\ feed' = Off
  /\ UNCHANGED <<clock, trades, broker, told, runs>>

Provide ==
  /\ Enter \/ Poll \/ AskBars \/ AskLive \/ FeedFails \/ Pause \/ Wake
  /\ UNCHANGED <<clock, trades, broker, told, runs>>

Next ==
  \/ Tick \/ \E s \in Symbols : Trade(s)
  \/ \E config \in Configs : Start(config)
  \/ Provide \/ Deliver \/ Crash

\* The loop runs while it can, every request is answered or times out, and the
\* clock goes on.
Fairness == WF_vars(Provide) /\ WF_vars(Deliver) /\ WF_vars(Tick)

Spec == Init /\ [][Next]_vars /\ Fairness

----------------------------------------------------------------------------
\* No event the provider yields is refused by the broker it feeds, neither
\* between history and the first live event, whatever trades while the bars are
\* being asked for, nor when a later run goes on with the same file (data.py
\* _history_snapshots against paper_broker.py feed, which raises).
NeverRefused == ~broker.refused

\* What the bars of a run mean: at every second of a session between the first
\* and the last bar of its day, each symbol's last trade in a session.
HistoryMeant ==
  LET inSession == [s \in DOMAIN feed.bars |-> {t \in feed.bars[s] : InSession(t)}]
      stamps    == UNION {inSession[s] : s \in DOMAIN feed.bars}
      upTo(s, t) == {u \in inSession[s] : u <= t}
  IN {[kind |-> "hist", at |-> t,
       quotes |-> [s \in {x \in DOMAIN feed.bars : upTo(x, t) # {}} |-> BarQuote(Max(upTo(s, t)))]] :
      t \in {t \in 0 .. feed.cut - 1 :
               /\ \E u, v \in stamps : u <= t /\ t <= v /\ {DayOf(u), DayOf(v)} = {DayOf(t)}
               /\ feed.session \/ DayOf(t) < DayOf(feed.cut)}}

\* Once the bars count as loaded, however many polls failed before, the strategy
\* has been shown all of the history the run asked for, each second once, in
\* order, and nothing of the second that was running
\* (data.py poll, _history_snapshots, iter_symbol_bar_snapshots).
HistoryWhole ==
  feed.at \in {"asleep", "ended"} /\ feed.loaded =>
    LET shown == Picked(told, {i \in DOMAIN told : told[i].kind = "hist"})
    IN /\ Range(shown) = HistoryMeant
       /\ \A i \in 1 .. Len(shown) - 1 : shown[i].at < shown[i + 1].at

\* A run ends by itself after its session, also when every request fails
\* (data.py done and events: "Feed errors do not stop the iterator").
RunEnds == (feed.at \notin {"off", "ended"}) ~> (feed.at \in {"off", "ended"})
=============================================================================
