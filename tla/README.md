# goldarb: a verification development

`goldarb` is an SDK for writing trading strategies on the Iranian gold-fund
market and running them against recorded data, against a live feed with paper
money, or against a remote paper-trading service. This directory holds TLA+
models of the parts that keep orders, money and history, the TLC runs that
check them on small instances, and TLAPS proofs of the most important results
for every instance. Paths below are relative to the repository; `goldarb/` is
`src/goldarb/`.

What has been learned in one paragraph: the order status machine, the paper
broker's ledger under rollback and crash, its event clock, the recording
gateway's queue, the remote mirror, the data archives under interrupted writers,
the live provider in front of the broker's clock and what the built-in
strategies believe of their account behave as stated below over every
interleaving checked. Every safety property of the runs that pass is also proved
for every value of the constants, some of them under named hypotheses that leave
out what section 4 lists; the two liveness properties are model-checked only.
Several statements of the documents or comments do not hold; five have a run
that shows the counterexample, the others are listed with them (section 4).

## 1. Inventory

| Component | State it keeps | Operations | Talks to |
|---|---|---|---|
| Order manager (`simulation/order_manager.py`, `models.py`) | orders, client-id index, fills and event log of each order | `create`, `accept`, `reject`, `request_cancel`, `confirm_cancel`, `expire`, `apply_fill`, `close_unfilled`, `restore` | called by the paper broker and by the remote mirror |
| Quote matching and cost models (`simulation/matching.py`, `pipeline.py`, `portfolio_service.py`, `engine.py`, `execution.py`) | none | price and size a fill, slippage, fee, cash and position after it | called in the paper broker's matching loop |
| Paper broker (`simulation/paper_broker.py`, `storage.py`, `market_book.py`) | a SQLite file (accounts, orders, fills, positions, quotes, events), and in memory the order manager, the market book, the last timestamp | `submit_order`, `cancel_order`, `feed`, `settle_delayed_orders`, opening the file | one transaction per call; an exception rolls the file back |
| Recording gateway (`gateway.py`) | an account, its orders, a queue of orders to fill, last prices | `record_submit`, `cancel`, `note_market`, `release_fills` | called by the strategy context and by the loop |
| Simulation loop and context (`engine.py`, `strategy.py`) | the fills already told, the cached portfolio, the current snapshot | `on_start`, `process`, `finish` | calls the strategy, the broker and the gateway |
| Remote simulator (`simulation/remote.py`) | a mirror of the venue's orders and fills, seen versions, seen fill ids | `submit_order`, `cancel_order`, `list_orders`, `list_fills` | HTTP requests with a timeout to a venue |
| In-memory venue (`simulation/inmemory_remote.py`) | accounts, orders, fills, client ids, quotes | the same, and `apply_market` | serves the remote simulator |
| Execution policy (`execution_policy.py`) | none | rewrites an order before submission | the context |
| Dataset archive (`archive.py`, `fund.py`, `_http.py`) | one file per symbol, a manifest with checksums and coverage | download, incremental download, write, read back | platform client |
| Data collection (`fetch_data/`) | JSON-lines files in two trees, coverage reports | seven cron scripts: append, snapshot, capture, merge | platform client |
| Live data provider (`data.py`, `session.py`) | event ids handed out, whether history was loaded | history, poll, sleep, stop | platform client; feeds the loop and the broker |
| Strategies (`strategies/`, `signals/`) | premium windows or prices, the pair believed in, the intent in flight | `on_start`, `on_market_data`, `on_fill`, state in and out | the context |
| Runtime (`runtime.py`, `pipelines.py`, `config.py`) | the strategy's state file | build, load state, run, save state | everything above |
| Live stream and sources (`live.py`, `sources.py`), offline backtest (`premium_threshold.py`, `ml.py`), client | a cursor in a local variable; none | subscribe; request building; statistics | platform |
| Probes, `examples/`, `tests/` | none of their own | scripts and tests | |

The code is sequential, so what makes it hard is not threads. It is:

- **calls that stop half-way**: a transaction is rolled back under an order
  manager that is not; a process ends and reopens its file;
- **callbacks**: a strategy submits and cancels inside the very callbacks that
  tell it about fills;
- **order of events**: late fills after cancel requests, delayed activation,
  snapshots that omit symbols, events fed twice;
- **shared budgets**: several orders spend one purse, one holding, one quoted
  size;
- **a network**: a timed-out request may still be served, and the client mirrors
  two lists it reads at different moments;
- **files written in several pieces**: a symbol file and the manifest that holds
  its checksum, lines appended to a file that may end in half a line, a state
  file truncated before it is written;
- **a world that moves on**: the day ends, bars are published and trades happen
  while a download or a poll is under way;
- **orders that depend on each other**: a pair is two orders that fill, wait or
  die separately, while the signal that asked for them changes.

What makes each component correct:

- order manager: status and traded quantity agree; the log tells the order; a
  client id names one order; a closed order stays closed;
- matching: never beyond the limit (but for slippage), the size shown, the cash
  or the holding;
- paper broker: the ledger is the sum of the fill rows whatever was rolled back;
  what memory says is what reopening the file would say; a requested cancel is
  settled by the next event; events are stored once and in order;
- recording gateway: no accepted order is forgotten or filled twice;
- loop: every fill is told once, in order, before the strategy decides;
- remote simulator: a client id has one order at the venue; the mirror ends up
  with what it was answered; fills are never lost to a mirror update;
- archives: a file that contradicts its manifest marks a writer that died and
  nothing else; what is stored of a day is one answer of the platform; rows go
  only with a line cut short or a merge that died; reruns catch up;
- live provider: no event it yields is refused by the broker; history is whole
  and in order whatever failed on the way; a run ends;
- strategies: what a strategy believes in is what it holds; at most one entry is
  in flight; what it decides on is what it was shown; the profit it reports is
  what its equity gained.

`PROJECT.json` lists the concrete hazards, each at its source line with the
properties that would catch it.

## 2. Modules

    OrderRules            status machine of one order (operators)
      OrderLifecycle      abstract specification: what is promised of orders
      OrderManager        the registry, client index and logs
    QuoteMatching         price, size, fee and cash of one fill (operators)
      PaperBroker         broker + file + book      (OrderRules, QuoteMatching)
    RecordingLedger       recording gateway's book  (OrderRules)
      RecordingSession    loop + context + gateway
    RemoteVenue           in-memory venue           (OrderRules, QuoteMatching)
      RemoteSession       network + mirror + loop + venue
    BarFiles              rows, keys, days, the platform that publishes bars
      DatasetStore        archive.py: downloads, symbol files, manifest
      Collector           fetch_data/: cron scripts and the merge
      BarArchive          the platform with either archive
    LiveFeed              the live provider and its history
      LiveRun             provider + broker clock + the outside world
    Portfolio             average cost, profit, equity (operators; QuoteMatching)
    Desk                  one account for whole calls (OrderRules, Portfolio)
    PremiumSignals        premium windows, both pair signals (operators)
      PairLegs            the two-leg protocol          (Desk, PremiumSignals)
      SingleLegs          the long-only strategies      (Desk, PremiumSignals)
      StrategyDesk        runs of a strategy over its account and state file
    Selection             picking from a sequence, adding to a function (operators)
    MC*                   instances for TLC
    *Proofs, BookLemmas   theorems, and the lemmas they share

`OrderManager`, `PaperBroker` and `RemoteSession` are each shown to implement `OrderLifecycle` (`INSTANCE ... WITH orders <- ...`), the
promise of ADR 0001 and of the simulator guide: an order appears once, moves
forward, never trades more than its quantity, and stays as it closed.

**OrderRules / OrderManager.** Each method that can raise `DomainError` is a pair
`CanX` (the call returns) and `AfterX` (what it leaves). `OrderManager` has one
action per method; a refused call changes nothing and is no step. `restore` has
no action here: it is the `Restart` of `PaperBroker` and the `Ingest` of
`RemoteSession`.

**PaperBroker.** `mem` is `orders._orders`, `book` the market book, `lastTime`
`_last_timestamp`, `db` the committed file, `work` the file as the open
transaction sees it. `Submit`, `Feed` and `Settle` do what the call does up to
the matching loop and open the transaction; each `Match(o)` is one iteration of
the loop (`MatchFill`, `MatchClose`, `MatchWait` are the answers of
`match_order`); `Commit` ends it. An iteration that raises (unpayable price,
refused transition, missing order row) is a `Rollback`: `db` is kept, `mem` and
`book` are *not* rolled back, as in the code. `Restart` may come between any two
steps and rebuilds memory from `db`. The quantity of a fill is the largest `n`
satisfying the conditions, which is the minimum the code computes. Money and
quantities are counted in their smallest units, so `floor_quantity` is the
identity; the fee is rounded half-even to `MoneyQuantum`, as
`Decimal.quantize` does. `quoted` in a fill row is a history field.

**RecordingLedger / RecordingSession.** `queue` is the copy of `_pending` that
`release_fills` walks and `waiting` its `still_waiting`. The strategy is *any*
strategy: in each callback it may submit, cancel and read its portfolio any
number of times. `pc` and `round` say where `process()` is; `told` is a
history variable.

**RemoteVenue / RemoteSession.** The venue's operators map an account to the
account after the call. A call is split into request, service and answer; the
client may give up (`GiveUp`) at any point after sending, the request may be
served before that, after it, or never, and the market moves in between.
`Ingest` is `ingest_order` for every order of an answer, `IngestFills` is
`sync_fills`. There is one account because venue accounts share nothing. Listing
fills and ingesting them is one step: the client makes no other call between
them. The version key drops `updated_at`, because status and traded quantity of
an order never return to an earlier pair, so the pair identifies the version.

**BarFiles / DatasetStore / Collector / BarArchive.** A day is a number, a bar a slot
of a day; what a bar says is reduced to whether its day was over when it was
served (`over`). No stored row has such a field: it only tells the answers apart
that a day was served in. `today` and `published` are the platform: the day may
end and a bar appear between any two steps, and bars are sparse, so that nothing
in an answer says whether its day will get more. `DatasetStore` splits `download_symbol_bars`
at its requests (`FetchDay`), and `write` at each file it replaces
(`WriteSymbol`, for Parquet a torn file in between) and at the manifest
(`CommitManifest`). A checksum is the contents it was taken of. `Collector` runs
one script at a time; appending is one step per file that a crash may cut inside
a line or before its newline (`Cut`), and reading skips what does not parse, so
that a record glued to half a line is lost with it. A cut may also go through a
character: the records are UTF-8 with a Persian symbol in them, the readers catch
`JSONDecodeError` only, and a file with half a character raises
`UnicodeDecodeError` whenever it is read (`decodes`, `ReadRaises`); contracts have
ASCII names. The date a range ends with is read once for all series of a kind,
or, by the scripts that take each series by itself, for each (`Onto`). `damaged`
is a history variable.

**LiveFeed / LiveRun.** `feed.at` is where `events()` and `poll()` are. A poll
reads the clock once (`asof`), asks for the bars symbol by symbol and for the
live answer last; a failure anywhere drops the whole poll. A trade is named by
its second, so a quote says which trade it shows. `carried` is the forward fill
of the bars over the seconds of the sessions. `LiveRun` adds the broker's clock
(a known event is skipped, an older one raises and ends the run), the outside
world and a process that may be killed; the broker's file outlives the run. A
run that continues an account replays no history (`session` off, `back` 0), as
`docs/sdk-usage-fa.md` and `pipelines.py` require; without that the broker
refuses the replay, which is the documented reason for the rule.

**Portfolio / Desk.** `AfterTrade` is `apply_position_fill` (weighted average,
realized part of a close, turning over), in parts of a money unit so that the
averages of the instances are whole; `rounded` is a history field of a holding,
what the position lost where an average was rounded, and `BooksBalance` is stated
up to the sum of these (`Rounding`, zero in the runs). `Equity` is the
portfolio's equity, which skips a position without a mark. `Desk` maps a record of one account to the
record after a call: `Submit` is the context's `submit_order` through its
execution policy into the broker, `Fed`/`Matched`/`Recorded` are `feed`. Left out of
`Submit` is that `submit_order` writes a new equity point over the one of its event
(`paper_broker.py:278`): the last point is the one `feed` left, so that
`BooksBalance` measures from an earlier point than the code has, over all the
orders of the event, which is the stricter question. Quotes
have a last price and no depth (`quote_fill = "last"`); orders partly fill for
lack of cash. `raised` stands for an exception on its way out of the run.

**PremiumSignals / PairLegs / SingleLegs / StrategyDesk.** Premiums are whole
numbers, means, scores and z are compared as fractions, squared where the code
takes a root. `PairLegs` has the operations of `strategies/pairs.py`: open a
pair, cancel an intent in flight, what a fill means, flatten. `StrategyDesk` is
one run: fills are matched and told in any order among equals (their order is
that of random ids), the state file is truncated and then written, and a run may
die anywhere or end by an exception. A later run has an account of its own and
starts no earlier than the one before ended: on an older replay a saved window
would hold points later than now, and `window_values` has no upper end.

## 3. Runs

| Run | Question | Bounds |
|---|---|---|
| `order_manager` | do any calls, in any order, keep orders, client index and logs consistent? | 2 orders, 3 client keys, quantities to 3 |
| `broker` | do three orders sharing one book, purse and quoted size stay within limit, size, holding and cash, and are ledger and orders intact after fills that cannot be paid and crashes at every step? | 3 orders, 3 events, 2 quotes, times 1..2 |
| `broker_books` | with two accounts, two symbols, snapshots that omit a symbol, latency and settle: does memory match the file, does nothing trade before its activation, are cancels settled? | 2 orders, 3 events, 1 settle |
| `session` | recording gateway, loop and any strategy: queue, telling, holdings, cache | 4 orders, 3 snapshots of 2 symbols, prices may be missing |
| `remote` | timeouts, lost answers, late service, retries, a client restart, market moves between: one order per client id, books balance, mirror faithful | 2 intents (one with a client id), 3 calls, 2 market moves, 1 restart |
| `archive` | what may an interrupted download or script leave behind, what can be lost, is a stored day one answer, are coverage reports right across requests, what do reruns catch up with? | both kinds of archive, both formats, 2 symbols (one a daily series), 4 days of which 1 closed and known to be, 2 requests of collect_data, 2 bars, 1 failure, 1 run that takes snapshots |
| `live` | is history whole and accepted by the broker whatever trades, fails or dies meanwhile, and does a run end? | 2 symbols, 2 days of 5 seconds, 2 runs, 3 configurations |
| `strategy` | do all six strategies know what they own, keep one entry in flight, remember what they were shown, and report what they gained? | 12 setups (latency 0..2, with and without shorts, with and without the offset policy), 4 snapshots of 2 symbols, 4 events, 2 runs |
| `broker_resent`, `remote_resume`, `archive_rerun`, `strategy_half` | findings, below | as the run they derive from (`archive_rerun`: 3 days, JSONL) |

Why the bounds suffice for what they ask: three units of quantity let an order
fill in two and in three parts; three orders are the least with two competing
for one side and one on the other (two buys and a sell in `broker`; that two
sells never sell one holding twice there is the theorem `PaperBrokerProofs!NoShorts`,
for any set of orders, and `session` runs two sells of one holding through the recording
gateway); two times allow equal and different stamps;
three events allow a rest, a partial and a final fill; `WallClock`, the stamp of a
submission before any quote, lies among the event times in `broker_books`, after
them in `broker` and before them in `broker_resent`; one remote restart meets
every point of a call because it is enabled in every state, and the broker's
`Restart` is unbounded. Four orders let two sells compete for one holding in one
release while another symbol waits for its first price. Three remote calls are a
submission, its retry and a listing or cancel. Four days and a request span of
two let a series need two requests that both hold days that are over, and a day
in the middle be closed; two bars of one day let a day be fetched half done; one failure is one
crash or failed request at any of the points, after which everything runs on.
Two sessions of three seconds hold bars before, at and after open and close and
a gap to fill; the clock passes the stop of every configuration. Four events are
a window of two samples, an entry, a change of pair and an exit; two runs are a
saved, torn or missing state file and what is made of it.

Every bound is a constant or a bounded input set: `MaxTime`, `MaxEvents`,
`MaxCalls`, `MaxMoves`, `MaxRestarts`, `MaxQty`, `NumDays`, `MaxBars`,
`MaxFaults`, `MaxRuns`, `MaxFailures`, `LastTick`, `TradeTicks`, `Past`.

`CHECK_DEADLOCK FALSE` is set where the system really stops: a closed registry
of `OrderManager` accepts no further call that changes anything, a session ends
after `on_stop`, a remote run ends when calls, moves and restarts are used up,
the calendar of the archive and the clock of the live run end, and the last
strategy run ends. The broker runs check for deadlock; they cannot stop since
`Restart` is always possible, which makes that check a weak one.

Fairness and liveness. `BarArchive` assumes that a running process comes to its
end (weak fairness of its steps) and that the schedule starts the incremental
download and the two cron captures again and again (strong fairness of those
starts, since other jobs come between: they are cron entries and documented
reruns). Under it `CatchesUp` says what the archive comes to have, time and
again: a dataset in which no writer died between its files has every past day
with bars, whole, except the days it asked for before they were over, which keep
the bars they had then (`archive.py:419` never asks for them again); a collected
series has every bar of the past days its script still asks for, unless its file
no longer decodes. What the documents say of a dataset without the first
exception is in `archive_rerun`, and fails. `LiveRun` assumes that the loop goes on while it can
(each request is answered or times out, `_http.py` sets a timeout) and that the
clock goes on; `RunEnds` says that a run then ends, also when every request
fails. No fairness is assumed of trades, failures, crashes or starts. Settlement
of a cancel stays an action property (`EventSettlesCancel`: the commit of the
next market event settles it): nothing in the broker guarantees another event.

The type invariants of `OrderManager`, `RecordingSession` and `RemoteSession`, and
`OrdersConsistent` of `OrderManager` (which its refinement implies), are proved and
listed for no run; the runs of `BarArchive`, `LiveRun` and `StrategyDesk` spend their
properties on what a type does not say.

Every property has a mutant: a plausible wrong version of one definition, kept
beside it in the module, under which the same run must fail.

## 4. Findings

1. `broker_resent`: after a rolled-back submission the client id names an order
   that is in memory and not in the file; a retry is answered with it.
2. `remote_resume`: a run that continues an account is told old fills as new.
3. `archive_rerun`: a download that dies between its files leaves a checksum no
   later incremental download gets past.
4. `strategy_half`: a leg filled in part and then closed leaves half a pair that
   is neither entered nor rolled back.

Further divergences met while modelling, without a run of their own:

- A market order that fills in part stays open after its snapshot
  (`paper_broker.py:549`); `docs/local-simulator-fa.md:211` says the remainder is
  cancelled.
- The size of a quote is available again to each later event that does not
  replace the quote (`paper_broker.py:434` against `local-simulator-fa.md:172`).
- A cancel request of a partly filled limit order is not settled by an event
  whose match attempt answers `insufficient_cash` (`paper_broker.py:549` against
  the comment at `:499`); with nothing filled, the refused transition makes every
  feed raise.
- A fill applied in memory and rolled back in the file is written with the next
  fill of the order: the order row then counts more than its fill rows
  (`paper_broker.py:494`, the cause of finding 1).
- A queued order of the recording gateway can fill at the price of a snapshot
  that `on_market_data` has not shown yet (`engine.py:225` against the comment at
  `gateway.py:490`).
- Equity leaves a held symbol out while its last quote has no price
  (`portfolio_service.py:97` against `local-simulator-fa.md:303`). A flattening
  market order that meets such a quote is rejected, and the strategy no longer
  believes in a position it still holds.
- What is left of a leg filled in part stays in the market when the other leg
  dies: `pairs.py:309` flattens what was traded and cancels nothing.
- After a reopen the book's event and clock are those of the quote row that is
  read last (`paper_broker.py:147`), which need not be the latest: a settle that
  follows is stamped earlier than the last event. A fill it makes carries that
  earlier stamp; the activation it waited for is an event of the file.
- An event id that is fed again after its feed was rolled back may bring another
  snapshot. The broker counts sizes per event id and cannot tell.
- A record cut within a character makes every later read of its file raise
  (`minute_bar_archive.py:53` catches `JSONDecodeError` only), so that the daily runs
  no longer cover what was missed, as `minute_bar_archive.py:16` says they do:
  `CatchesUp` excepts the series whose file no longer decodes.
- A day that a download asks for while it is running stays as it was then: later
  incremental downloads take a day with any bar for complete (`archive.py:419`). No
  document promises otherwise; `DayFromOneAnswer` says what does hold of such a day.
- In `on_fill` after `on_market_data`, and in `on_stop`, the portfolio may be one that
  was cached before the fills just released (`strategy.py:105`); no document promises
  otherwise, and `FreshWhenDeciding` says nothing of them.
- A saved premium window replayed on older data counts points later than now
  (`pairs.py:86`, whose comment gives the window an upper end).
- `collect_missing_data.py:134` counts as missing the days for which this run
  added nothing, whether or not the file has them.

Where a property of a passing run would meet one of them, its inputs leave it
out, and the theorem that states it names the hypothesis (section 5):
`MemoryMatchesFile` is checked in `broker_books`, which has no slippage and
no unpayable fee, so that nothing is rolled back by an exception (crashes still
happen); `QuoteDepthRespected` in `broker`, whose snapshots quote the one symbol;
`BeliefHeld` for orders that trade at once, as long as no flattening order was
rejected, and its accounts have the cash for whole legs.

## 5. Proofs

`BookLemmas` holds what the proofs share: lemmas on the status machine, on sums
over finite sets, on sequences that are joined, cut and selected from. The other
`*Proofs` modules hold the theorems of one component each. They hold for every
value of the constants that satisfies the named `ASSUME`s (types of the inputs,
`FeeNum < FeeDen`, disjoint ids, finitely many symbols, and for the strategies
cash and prices that are natural numbers, policies as `execution_policy.py`
validates them: positive quantum and tick, no negative offset), which TLC
evaluates in the runs. Each statement, and each inductive invariant, was checked by TLC before it was
proved.

| Theorem | Says |
|---|---|
| `OrderManagerProofs!TypeCorrect`, `Consistency` | `TypeOK`, `OrdersConsistent` |
| `OrderManagerProofs!ImplementsLifecycle` | refinement of `OrderLifecycle` |
| `OrderManagerProofs!KeysNameOrders` | `ClientKeysInjective` |
| `OrderManagerProofs!ClosedLogs`, `LogTellsOrderHolds` | `ClosedLogIsFinal`, `LogTellsOrder` |
| `PaperBrokerProofs!TypeCorrect` | `TypeOK`, with no account ever overdrawn |
| `PaperBrokerProofs!Consistency` | `OrdersConsistent`, in memory and in the file |
| `PaperBrokerProofs!LateFills` | `LateFillCloses` |
| `PaperBrokerProofs!ImplementsLifecycle` | refinement of `OrderLifecycle` by the file |
| `PaperBrokerProofs!LimitsHonoured`, `NoShorts` | `LimitHonoured`, `NeverShort` |
| `PaperBrokerProofs!LedgerBalances`, `RowsBounded` | `LedgerMatchesFills`, `RowsWithinOrder` |
| `PaperBrokerProofs!EventOrder` | `EventsInOrder` |
| `PaperBrokerProofs!MemoryFollows` | `MemoryMatchesFile`, if no call fails half-way (`NoCallFails`) |
| `PaperBrokerProofs!ActiveBeforeFill` | `NoFillBeforeActive`, if none does and activation has no earlier clock (`NoEarlyClock`) |
| `PaperBrokerProofs!CancelsSettled` | `EventSettlesCancel`, if none does and nothing unpayable is left of a limit order (`LeftOver`) |
| `PaperBrokerProofs!DepthRespected` | `QuoteDepthRespected`, if each event brings its own quotes (`WholeSnapshots`, `FedAs`, `NoSettle`) |
| `RecordingSessionProofs!TypeCorrect` | its `TypeOK` |
| `RecordingSessionProofs!ToldInOrderHolds` | `ToldInOrder` |
| `RecordingSessionProofs!FreshWhenDecidingHolds` | `FreshWhenDeciding`: `on_market_data`, and `on_fill` before it |
| `RecordingSessionProofs!NeverShortHolds` | `NeverShort` |
| `RecordingSessionProofs!AcceptedQueuedOnceHolds`, `LedgerTellsFillsHolds` | `AcceptedQueuedOnce`, `LedgerTellsFills` |
| `RemoteSessionProofs!TypeCorrect` | `TypeOK` |
| `RemoteSessionProofs!ClientIdOnceHolds` | `ClientIdOnce` |
| `RemoteSessionProofs!VenueBalances` | `VenueMatchesFills` |
| `RemoteSessionProofs!AnswersMirrored`, `FillsCover` | `AnswerMirrored`, `FillsCoverOrders` |
| `RemoteSessionProofs!LifecycleKept` | refinement of `OrderLifecycle` by the venue |
| `LiveRunProofs!NeverRefusedHolds`, `HistoryWholeHolds` | `NeverRefused`, `HistoryWhole` |
| `BarArchiveProofs!DataInvHolds`, `CronInvHolds` | the inductive invariants of the two archives |
| `BarArchiveProofs!DamageIsInterruptionHolds`, `DayFromOneAnswerHolds` | `DamageIsInterruption`, `DayFromOneAnswer` |
| `BarArchiveProofs!OneRowPerBarHolds`, `RowsLostOnlyByFaultHolds` | `OneRowPerBar`, `RowsLostOnlyByFault` |
| `BarArchiveProofs!ReportTrueHolds` | `ReportTrue` |
| `StrategyDeskProofs!RemembersShownHolds` | `RemembersShown` |
| `StrategyDeskProofs!BooksBalanceHolds` | `BooksBalance` |
| `StrategyDeskProofs!OneEntryInFlightHolds` | `OneEntryInFlight`, if no leg is filled in part (`LegsWhole`) |
| `StrategyDeskProofs!BeliefHeldHolds` | `BeliefHeld`, if no order that trades at once is filled in part (`NothingPartly`) |

Each inductive invariant is shown to hold initially and to be kept by every
action, one lemma per action.

**Order manager.** The log is told by the recursive function `Replay`; appending one
event adds one value to it and changes none before, so a step that appends the
event of its own change keeps `LogTellsOrder`. `Told` adds to it that an order
that is not closed has the status its log tells.

**Broker.** `TypeInv` is the type invariant. On top of it:

- `OrdersInv`: every order record is consistent, and the three copies of an
  order are in line: what is committed may become what the transaction has
  written, which may become what memory has (`Ahead`, a chain `db` -> `work` ->
  `mem`). It is needed because a rollback returns `work` to `db` under an
  unchanged `mem`, a commit moves `db` to `work`, and a restart moves `mem` back
  to `db`: `OrdersConsistent` alone is not enough to know that the next write
  of a memory record moves the *file* forward. `LateFills` and
  `ImplementsLifecycle` follow from it.
- `RulesInv`: each fill row honours its order's limit, and positions of accounts
  that may not go short are not negative, in `db` and in `work`.
- `LedgerInv`: cash and positions are the sums of the rows, in both. `CoveredInv`:
  the rows of an order add up to at most what its row says. Not to exactly that:
  a fill that was rolled back in the file stays in memory, and the next write of
  the order counts it (section 4); `RowsWithinOrder` is what does hold.
- `EventsInv`: no stored market event is later than `lastTime`, and the event an
  open `feed` adds is new and not earlier than that.
- `AbreastInv`, as long as no call that has orders to match raises
  (`NoCallFails`; crashes and reopened files are still allowed): memory and the
  market book are what the open transaction has written, every order row says
  what its fill rows add up to, and every fill has an event of the file at or
  after its activation. The last needs `NoEarlyClock`: with a latency, or with a
  wall clock that is not later than the first event, an order stamped before the
  first quote cannot trade before its own time. `MemoryFollows` and
  `ActiveBeforeFill` follow.
- `PendingInv`: while an event is fed, an order whose cancel is pending still waits
  for its turn. With `LeftOver`, the case of section 4, excluded, the commit leaves
  none (`CancelsSettled`).
- `DepthInv`: all quotes are of one event, the latest, and what the account took
  at an event fits the sizes its snapshot shows. It needs every snapshot to quote
  every symbol, one snapshot for each event id, and no settle; `Shows` is any
  assignment of snapshots to event ids.

`NoCallFails`, `NoEarlyClock` and the exclusion of `LeftOver` hold in every
behaviour of `broker_books`, `WholeSnapshots` and `NoSettle` in every behaviour of
`broker`. `FedAs` leaves out only an id that is fed again with another snapshot.

**Recording session.** `QueuedInv`: the accepted orders are divided among the three
queues, each once, because `release_fills` moves an order from the copy it walks
either to a closed status or to the orders still waiting. `ToldInv`: what was
told is a prefix of the fills, and a notification that has listed them holds
exactly the rest. `FreshInv`: `process()` clears the cache, and nothing is cached before the
release of its first round is over; so what `on_fill` finds in that round, and
`on_market_data` after it, was taken after the release. In the second round nothing
clears it, and `on_fill` may find what `on_market_data` has cached. The ledger
is the sum of the fills over the orders of each symbol.

**Remote session.** For each order, what the mirror has, what the answer on its way
says and what the venue has are stages of one life, in this order (`MirrorInv`,
`NetInv`; `Ahead` and `Grown`). Two stages that agree on status and traded
quantity have nothing between them (`NothingBetween`), which is why the version
check of `ingest_order` never dismisses news. `Sound` is what every operation of
the venue keeps: orders numbered without gaps, a client id that names its only
order, cash and traded quantities as the fills add up to.

**Live run.** `Inv` says where the clock, the provider and the broker are: no event
that was handed over is later than the clock, the events of the queue are a row
in time that begins no earlier than the broker's last, and the bars loaded so
far are those of before the cut. `NeverRefused` follows from the row, and
`HistoryWhole` from `Loaded`: what was told followed by what is queued shows the
seconds the bars mean, rising, each once. The forward fill is a function
defined by recursion on the seconds and is known by the set it shows (`Carries`).

**Archives.** A state has one of the two kinds, and each has an invariant of its own.
`DataInv`: every symbol file is *proper* or torn; proper means rows of different
bars, each day as the platform served it at one moment (`Seen`), which is
`DayFromOneAnswer`. `WriterInv` and `ManifestInv`
tell the files the writer has replaced (they hold what the next manifest will
say) from those it has not (they hold what the last one says), and put a file
that does neither among the `damaged`. `FetchedInv` is needed for the merge of an
incremental write: the days it fetched are days the file lacks, unless there was
no manifest, and then they come with every bar the file has. `CronInv`: every
collected file is *tidy* (no two rows of one bar among the lines that can be
read), the rows a script holds are of different bars and before the next day it
asks for, the tasks of a script differ, and its snapshot is in no log it has yet
to write; the last three are why an append cannot repeat a row. That an append keeps the
lines of a file in their places, but for an open last one, gives
`RowsLostOnlyByFault`. `ChunksInv`: a script has every bar of the days behind its
next request that were over when it read the date, since the platform adds none to
a day that is over; with it a report is right about the bars, not just about the
rows of the file.

**Strategies.** Four invariants over whole runs, of which only the last needs the
first three.

- `MemoryInv` is `Facing` (the snapshot a strategy decides on is the one of this
  moment) and `Remembered`: each premium series is *faithful* to the points shown so far, in
  memory and in the file (rising in time, nothing but such points, and all of
  those within the window of now), and the prices are the last ones of an
  unbroken row. Torn files, resets and runs that die keep it.
- `BooksInv`: what the positions brought in less what the account paid is what it
  began with (`Cost` never changes, whatever is traded), and what the account
  would be worth without fees is at most what it was at the last point of the
  equity history, exactly that without slippage (`Since`).
- `EntryInv`: the fills of a leg filled it, the entry a strategy would act on is
  made of orders of the desk, and no other leg is in flight. It is inductive as
  long as no leg is filled in part (`LegsWhole`, true in every state of
  `strategy`, false in `strategy_half`).
- `BeliefInv` and `NothingWaits`, for runs without latency. When no order is filled in
  part, every order is settled when the call that sent it returns
  (`NothingWaits`): the book has a price for whatever a strategy orders, because
  it sizes by what it was shown, and what it holds was quoted before; and a limit
  made by the policy is met by the price it was made from (`LimitCrosses`). Then, on an
  account whose flattening orders were not refused, positions are whole lots, so
  that flattening leaves nothing (`Even`, `FlattenClears`), and either the live
  entry still has a fill to be told of and the positions are what its legs traded
  (`Entered`), or the account owns the pair believed in, or nothing (`Owns`). That the
  two symbols of a pair differ comes from `MemoryInv`. The hypothesis
  `NothingPartly` is true in every state of `strategy` and false in
  `strategy_half`, where it is finding 4 that goes wrong.

Only model-checked, and why:

- `CatchesUp` and `RunEnds` are liveness under fairness, which the prover does
  not reach.
- That the hypotheses named above hold of the instances: they exclude what
  section 4 lists, and without them the statements are false for some values of
  the constants. After a rollback memory is ahead of the file; an order that a
  rolled-back settle activated in memory trades at an event before its activation
  time; a partly filled limit order that cannot be paid keeps its pending cancel;
  a snapshot that leaves a symbol out lets the size of its quote be used again;
  half a pair is neither entered nor rolled back.
- The four findings, each a counterexample of its run.

## 6. Not modelled

- Percentage slippage, `LastPriceMatching`, drawdown and the other figures of a
  report: arithmetic with no effect on control.
- Schema migrations, JSON payloads, HTTP error mapping, reading and validating
  the configuration: I/O and formats.
- Time in force: the code stores it and never acts on it.
- The rounding of scores and z to four digits, far finer than any two values of
  the instances differ.
- `live.py`: one cursor in a local variable and one request; a consumer that
  stops in between is given the batch again, and deduplication is its business.
- `sources.py`, the platform client, probes, examples: stateless.
- `premium_threshold.py` and `ml.py`: an offline backtest with a book of its own.
  It fills pending orders at a bar whose close is not positive and marks equity
  without the position when a close is missing, both unlike the simulator.

## 7. Plan

What is left, in the order of what it would say about the system:

1. A hypothesis on the inputs in place of `NothingPartly` and `LegsWhole`: a bound on
   the cash, from capital, prices and fee, under which no order of a strategy is
   filled in part.
2. `LeftOver` in terms of cash and holdings of the file rather than of the step
   that meets it.
3. The offline backtest of `premium_threshold.py` as a component of its own, with
   the two divergences of section 6 as findings.
