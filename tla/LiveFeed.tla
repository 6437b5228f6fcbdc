------------------------------ MODULE LiveFeed ------------------------------
(* data.py and session.py: LiveDataProvider. It polls a feed for the last    *)
(* prices of its symbols, in front of which the first poll that succeeds     *)
(* puts the bars of the days before. Time is counted in seconds; a trade is  *)
(* named by the second it happened in, and so is its price.                  *)
EXTENDS Integers, Sequences, SequencesExt, FiniteSetsExt, Selection

CONSTANTS
  Symbols,
  DayLength,      \* seconds of a day
  Open, Close,    \* the session, in seconds of the day
  TradingDays,    \* the days with a session
  PollSeconds,
  QuoteFill,      \* "last" or "book"
  Answers         \* what may come with a last price: [stale: is it marked stale, book: which sides are quoted]

VARIABLES
  clock,
  trades,   \* external: trades[s] is the set of seconds in which s has traded
  feed      \* the provider of the current run

DayOf(t)     == t \div DayLength
InSession(t) == /\ DayOf(t) \in TradingDays
                /\ t % DayLength >= Open /\ t % DayLength <= Close

----------------------------------------------------------------------------
\* Quotes. Bid, ask and the middle between them are not told apart.

NoPrice == -1
Touch   == 0

HasBook(quote) == quote.bid # NoPrice \/ quote.ask # NoPrice

\* normalize_quote: "last" drops the book, "book" makes one up from the last price
Normalized(quote) ==
  CASE QuoteFill = "last" -> [quote EXCEPT !.bid = NoPrice, !.ask = NoPrice]
    [] QuoteFill = "book" /\ ~HasBook(quote) -> [quote EXCEPT !.bid = quote.last, !.ask = quote.last]
    [] OTHER -> quote

BarQuote(t) == Normalized([last |-> t, bid |-> NoPrice, ask |-> NoPrice])

\* the last price unless it is stale, else the middle of a book with two sides
LiveQuote(price, answer) ==
  LET side(name) == IF name \in answer.book THEN Touch ELSE NoPrice
      fresh == IF answer.stale THEN NoPrice ELSE price
  IN [last |-> IF fresh = NoPrice /\ answer.book = {"bid", "ask"} THEN Touch ELSE fresh,
      bid  |-> side("bid"), ask |-> side("ask")]

NoQuote == [last |-> NoPrice, bid |-> NoPrice, ask |-> NoPrice]

\* _quote_from_live, of an answer that has any price
QuoteFromLive(price, answer) == Normalized(LiveQuote(price, answer))

\* _symbol_payload_map: the symbols the feed has a row of, and its price
LastPrices == [s \in {x \in Symbols : trades[x] # {}} |-> Max(trades[s])]

\* the quotes of the symbols that have any price; no event without one
LiveSnapshot(stamp, answers) ==
  LET price(s) == IF s \in DOMAIN LastPrices THEN LastPrices[s] ELSE NoPrice
      priced == {s \in Symbols : LiveQuote(price(s), answers[s]) # NoQuote}
  IN IF priced = {} THEN <<>>
     ELSE <<[kind |-> "live", at |-> stamp,
             quotes |-> [s \in priced |-> QuoteFromLive(price(s), answers[s])]]>>

\* what the event ids tell apart: the second, and of a live event its last prices
IdOf(event) ==
  IF event.kind = "hist" THEN <<"hist", event.at>>
  ELSE <<"live", event.at, [s \in DOMAIN event.quotes |-> event.quotes[s].last]>>

----------------------------------------------------------------------------
\* History: sparse bars put on a grid of seconds, the gaps filled forward.

\* session_timeline: every second of a session from first to last
SessionTimeline(first, last) == {t \in first .. last : InSession(t)}

\* the sessions of the days with bars, each from its first bar to its last
Timeline(bars) ==
  LET stamps == {t \in UNION {bars[s] : s \in DOMAIN bars} : InSession(t)}
      ofDay(d) == {t \in stamps : DayOf(t) = d}
  IN UNION {SessionTimeline(Min(ofDay(d)), Max(ofDay(d))) : d \in {DayOf(t) : t \in stamps}}

\* the bars of one second
NewAt(bars, t) == [s \in {x \in DOMAIN bars : t \in bars[x]} |-> BarQuote(t)]

\* a second of history: the quotes known then
HistEvent(t, quotes) == [kind |-> "hist", at |-> t, quotes |-> quotes]

\* a mutant of BarSnapshots: what no bar renews is forgotten
BarSnapshotsUnfilled(bars, seconds) ==
  Picked([t \in 1 .. clock |-> HistEvent(t, NewAt(bars, t))], seconds)

\* a symbol with a new bar takes it, the others keep the quote they had
Carried(quotes, new) ==
  [s \in DOMAIN quotes \cup DOMAIN new |-> IF s \in DOMAIN new THEN new[s] ELSE quotes[s]]

\* iter_symbol_bar_snapshots, of some of its seconds
BarSnapshots(bars, seconds) ==
  LET carried[t \in 0 .. clock] ==
        IF t = 0 THEN <<>>
        ELSE Carried(carried[t - 1], IF InSession(t) THEN NewAt(bars, t) ELSE <<>>)
  IN Picked([t \in 1 .. clock |-> HistEvent(t, carried[t])], seconds)

\* a mutant of Replayed: the bars of the second that is running are replayed as well
ReplayedToEnd(bars, day, before) ==
  BarSnapshots(bars, {t \in Timeline(bars) : feed.session \/ DayOf(t) < day})

\* _history_snapshots: what is replayed of the bars asked for
Replayed(bars, day, before) ==
  BarSnapshots(bars, {t \in Timeline(bars) : (feed.session \/ DayOf(t) < day) /\ t < before})

----------------------------------------------------------------------------
\* The provider. feed.session is include_session_bars, feed.back lookback_days.

Created(config) ==
  [at |-> "top", session |-> config.session, back |-> config.back, stop |-> config.stop,
   loaded |-> FALSE, seen |-> {}, asof |-> 0, cut |-> 0, bars |-> <<>>, todo |-> {}, queue |-> <<>>, wake |-> 0]
Off == [at |-> "off"]

\* a mutant of Done: the end of the session does not count before the bars are there
DoneOnceLoaded == feed.loaded /\ (clock > feed.stop \/ DayOf(clock) \notin TradingDays)

Done == clock > feed.stop \/ (feed.loaded /\ DayOf(clock) \notin TradingDays)

\* the head of the loop in events()
Enter ==
  /\ feed.at = "top"
  /\ feed' = [feed EXCEPT !.at = IF Done THEN "ended" ELSE "poll"]

\* poll reads the clock once; the bars are wanted until a poll has succeeded
Poll ==
  /\ feed.at = "poll"
  /\ feed' = [feed EXCEPT !.at = "ask", !.asof = clock,
                          !.cut = IF feed.loaded THEN @ ELSE clock,
                          !.bars = IF feed.loaded THEN @ ELSE <<>>,
                          !.todo = IF feed.loaded \/ (~feed.session /\ feed.back = 0)
                                   THEN {} ELSE Symbols]

\* _candles_many: the bars of one symbol, from the first day asked for up to now
AskBars ==
  /\ feed.at = "ask" /\ feed.todo # {}
  /\ \E s \in feed.todo :
       feed' = [feed EXCEPT !.todo = @ \ {s},
                 !.bars = [x \in DOMAIN @ \cup {s} |->
                            IF x = s THEN {t \in trades[s] : DayOf(t) >= DayOf(feed.asof) - feed.back}
                            ELSE feed.bars[x]]]

\* the last prices end the poll: what was not seen yet is handed over
AskLive ==
  /\ feed.at = "ask" /\ feed.todo = {}
  /\ \E answers \in [Symbols -> Answers] :
       LET history == IF feed.loaded \/ feed.bars = <<>> THEN <<>>
                      ELSE Replayed(feed.bars, DayOf(feed.asof), feed.asof)
           live    == IF InSession(feed.asof) THEN LiveSnapshot(feed.asof, answers) ELSE <<>>
       IN \E pending \in {history \o live} :
          \E fresh \in {Picked(pending, {i \in DOMAIN pending : IdOf(pending[i]) \notin feed.seen})} :
            feed' = [feed EXCEPT !.at = "hand", !.loaded = TRUE, !.queue = fresh,
                                 !.seen = @ \cup {IdOf(fresh[i]) : i \in DOMAIN fresh}]

\* a request raises: nothing of this poll is kept
FeedFails ==
  /\ feed.at = "ask"
  /\ feed' = [feed EXCEPT !.at = "hand", !.queue = <<>>, !.todo = {}]

\* after the batch: the end, or a sleep
Pause ==
  /\ feed.at = "hand" /\ feed.queue = <<>>
  /\ feed' = IF Done THEN [feed EXCEPT !.at = "ended"]
             ELSE [feed EXCEPT !.at = "asleep", !.wake = clock + PollSeconds]

Wake ==
  /\ feed.at = "asleep" /\ clock >= feed.wake
  /\ feed' = [feed EXCEPT !.at = "top"]
=============================================================================
