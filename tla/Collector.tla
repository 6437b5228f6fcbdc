----------------------------- MODULE Collector -----------------------------
(* fetch_data/: the cron scripts that append what the platform serves to     *)
(* JSON-lines files, and the script that merges one tree of them into the    *)
(* other. A file is read to the end before it is appended to, a line that    *)
(* does not parse is skipped, and nothing repairs a file whose last line was *)
(* cut short: the next record is written behind it, on the same line. If the *)
(* cut went through a character of a Persian name, the file is not UTF-8 any *)
(* more and every later read of it raises.                                   *)
EXTENDS BarFiles

CONSTANTS
  Contracts,    \* the daily series of the Symbols; the others are minute bars
  SnapshotLogs, \* the snapshot files (holdings, issued units), numbers below the Symbols
  Days30,       \* how far back collect_data asks (--days)
  Days3,        \* how far back minute_bar_archive asks
  Span,         \* days a minute-bar request may span beyond its first
  KnownClosed,  \* the days _is_no_trade_day knows
  MaxRuns,      \* bound: script runs that take snapshots
  MaxFailures   \* bound: crashes and failed requests

VARIABLES
  file,         \* file[tree][series]: the lines, whether the last one lacks its newline,
                \* and whether the bytes decode
  run,          \* the script that is running; its items are its coverage report
  runs,         \* how many runs that take snapshots have begun: their captured_at
  failures

collectorVars == <<file, run, runs, failures>>

ASSUME CollectorAssumption ==
  /\ Contracts \subseteq Symbols /\ SnapshotLogs \cap Symbols = {}
  /\ SnapshotLogs \subseteq Int /\ IsFiniteSet(SnapshotLogs)
  /\ Days30 \in Nat /\ Days3 \in Nat /\ Span \in Nat
  /\ KnownClosed \subseteq Days \ TradingDays /\ MaxRuns \in Nat /\ MaxFailures \in Nat

Trees    == {"archive", "missing"}
Series   == Symbols \cup SnapshotLogs
Bad      == [day |-> 0, slot |-> 0, over |-> FALSE]
NoFile   == [lines |-> <<>>, open |-> FALSE, decodes |-> TRUE]
Idle     == [script |-> "none", tasks |-> <<>>, rows |-> <<>>, next |-> 0, end |-> 0,
             items |-> <<>>, stamp |-> 0]

CollectorInit ==
  /\ file = [t \in Trees |-> [s \in Series |-> NoFile]]
  /\ run = Idle /\ runs = 0 /\ failures = 0

\* _read_jsonl: what a reader that skips bad lines sees of a file that decodes
Parsed(f) == Picked(f.lines, {i \in DOMAIN f.lines : f.lines[i] # Bad})

\* records written behind the end of a file: the first one is lost on the
\* line of a record that was cut short
Appended(f, rows) ==
  [lines |-> IF f.open /\ rows # <<>> THEN Front(f.lines) \o <<Bad>> \o Tail(rows)
             ELSE f.lines \o rows,
   open  |-> f.open /\ rows = <<>>,
   decodes |-> f.decodes]

\* the file when the process died: the last record reached the disk whole, cut
\* between two characters or within one, or without its newline
Cut(f, rows, how) ==
  LET g == Appended(f, rows)
  IN IF rows = <<>> THEN f
     ELSE [lines |-> IF how \in {"torn", "garbled"} THEN Front(g.lines) \o <<Bad>> ELSE g.lines,
           open  |-> how # "whole",
           decodes |-> f.decodes /\ how # "garbled"]

\* a mutant of NewRows: the existing keys are not loaded
NewRowsUnseen(f, rows) == rows

\* _load_existing_keys and the loop that skips what is already in the file
NewRows(f, rows) ==
  LET known == KeysOf(Parsed(f))
  IN Picked(rows, {i \in DOMAIN rows : Key(rows[i]) \notin known})

TasksOn(kind, S) == [i \in 1 .. Cardinality(S) |->
  [kind |-> kind, of |-> CHOOSE s \in S : Cardinality({q \in S : q < s}) = i - 1]]

Funds        == TasksOn("bars", Symbols \ Contracts)
Dailies      == TasksOn("daily", Contracts)
Snapshots    == TasksOn("snapshot", SnapshotLogs)

\* what each script does, in its order, and how it takes a task that raises:
\* "run" ends the run, "step" skips the rest of its kind, "task" skips the task
CollectData        == [tree |-> "archive", tasks |-> Funds \o Snapshots \o Dailies,
                       raises |-> "run", days |-> Days30, ime |-> Days30]
CollectMissingData == [tree |-> "missing", tasks |-> Funds \o Snapshots \o Dailies,
                       raises |-> "run", days |-> Days30, ime |-> Days30]
MinuteBarArchive   == [tree |-> "archive", tasks |-> Funds,
                       raises |-> "task", days |-> Days3, ime |-> NumDays]
DailyArchive       == [tree |-> "archive", tasks |-> Snapshots,
                       raises |-> "task", days |-> 0, ime |-> 0]
ImeCdcArchive      == [tree |-> "archive", tasks |-> Dailies,
                       raises |-> "task", days |-> 0, ime |-> NumDays]
RunAll             == [tree |-> "archive", tasks |-> Dailies \o Snapshots \o Funds,
                       raises |-> "step", days |-> Days3, ime |-> NumDays]
MergeMissingData   == [tree |-> "archive", tasks |-> TasksOn("merge", Series),
                       raises |-> "run", days |-> 0, ime |-> 0]

Scripts == [collect_data |-> CollectData, collect_missing_data |-> CollectMissingData,
            minute_bar_archive |-> MinuteBarArchive, daily_archive |-> DailyArchive,
            ime_cdc_archive |-> ImeCdcArchive, run_all |-> RunAll,
            merge_missing_data_archive |-> MergeMissingData]

Plan == Scripts[run.script]
Task == Head(run.tasks)
Target == file[Plan.tree][Task.of]

Floor(d) == IF d > 1 THEN d ELSE 1

\* the run with these tasks left, and the day its next request will begin with.
\* The end of the range is a date read once for all series of a kind, but by
\* the scripts that take every series by itself
Onto(r, tasks) ==
  LET plan == Scripts[r.script]
      more == /\ plan.raises # "task" /\ r.tasks # <<>> /\ tasks # <<>>
              /\ Head(tasks).kind = Head(r.tasks).kind
      end  == IF more THEN r.end ELSE today
  IN [r EXCEPT !.tasks = tasks, !.rows = <<>>, !.end = end, !.next = Floor(end - plan.days)]

Begin(script) ==
  /\ run = Idle
  /\ LET snaps == \E i \in DOMAIN Scripts[script].tasks :
                    Scripts[script].tasks[i].kind = "snapshot"
     IN /\ snaps => runs < MaxRuns
        /\ runs' = IF snaps THEN runs + 1 ELSE runs
        /\ run' = Onto([Idle EXCEPT !.script = script, !.stamp = runs'], Scripts[script].tasks)
  /\ UNCHANGED <<file, failures>>

Busy(kinds) == run # Idle /\ run.tasks # <<>> /\ Task.kind \in kinds

\* the files a task reads before anything else decode
Readable == Target.decodes /\ (Task.kind = "merge" => file["missing"][Task.of].decodes)

\* candles: minute bars are asked for chunk by chunk
FetchChunk ==
  /\ Busy({"bars"}) /\ Readable /\ run.next <= run.end
  /\ LET to == ChunkEnd(run.next, run.end, Span)
     IN run' = [run EXCEPT !.rows = @ \o Served(Task.of, run.next, to), !.next = to + 1]
  /\ UNCHANGED <<file, runs, failures>>

\* ime_cdc_stats: a number of days back from the date of the request
FetchStats ==
  /\ Busy({"daily"}) /\ Readable /\ run.next <= run.end
  /\ run' = [run EXCEPT !.rows = Served(Task.of, Floor(today - Plan.ime), today),
                        !.next = today + 1]
  /\ UNCHANGED <<file, runs, failures>>

\* the days the coverage item of a task is about
Asked == LET back == IF Task.kind = "daily" THEN Plan.ime ELSE Plan.days
         IN ((run.end - back) .. run.end) \cap Days

\* a mutant of Unexplained: the rows the file had before the run do not count
UnexplainedNewOnly(new) == Asked \ UNION {DaysOf(new), KnownClosed, {today}}

\* _classify_missing_days: the days with no row, known or new, that are neither
\* today nor known to be closed
Unexplained(new) ==
  Asked \ UNION {DaysOf(new), DaysOf(Parsed(Target)), KnownClosed, {today}}

\* the report of collect_missing_data: the days without a new row
NewMissing(new) == Asked \ DaysOf(new)

\* the new rows are appended and the series is reported on
AppendRows(missing) ==
  LET new == NewRows(Target, run.rows)
  IN /\ run.next > run.end
     /\ file' = [file EXCEPT ![Plan.tree][Task.of] = Appended(@, new)]
     /\ run' = Onto([run EXCEPT !.items =
                       CASE missing = "all" ->
                              Assigned(@, Task.of, [asked |-> Asked, missing |-> Unexplained(new)])
                         [] missing = "new" ->
                              Assigned(@, Task.of, [asked |-> Asked, missing |-> NewMissing(new)])
                         [] OTHER -> @],
                    Tail(run.tasks))
     /\ UNCHANGED <<runs, failures>>

\* a snapshot is a record of its own for every run, filed under captured_at
Snapshot == [day |-> run.stamp, slot |-> 0, over |-> TRUE]

AppendSnapshot ==
  /\ file' = [file EXCEPT ![Plan.tree][Task.of] = Appended(@, <<Snapshot>>)]
  /\ run' = Onto(run, Tail(run.tasks))
  /\ UNCHANGED <<runs, failures>>

Of(script, kind) == Busy({kind}) /\ run.script = script

\* collect_data.py
CollectFundBars      == Of("collect_data", "bars") /\ AppendRows("all")
CollectFundSnapshots == Of("collect_data", "snapshot") /\ AppendSnapshot
CollectImeDaily      == Of("collect_data", "daily") /\ AppendRows("all")

\* collect_missing_data.py
CollectMissingBars      == Of("collect_missing_data", "bars") /\ AppendRows("new")
CollectMissingSnapshots == Of("collect_missing_data", "snapshot") /\ AppendSnapshot
CollectMissingDaily     == Of("collect_missing_data", "daily") /\ AppendRows("new")

\* minute_bar_archive.py, ime_cdc_archive.py and daily_archive.py
CaptureSymbol   == Of("minute_bar_archive", "bars") /\ AppendRows("none")
CaptureContract == Of("ime_cdc_archive", "daily") /\ AppendRows("none")
CaptureOnce     == Of("daily_archive", "snapshot") /\ AppendSnapshot

\* run_all.py, which has a copy of each of the three
CaptureMinuteBarArchive == Of("run_all", "bars") /\ AppendRows("none")
CaptureImeCdcArchive    == Of("run_all", "daily") /\ AppendRows("none")
CaptureDailyArchive     == Of("run_all", "snapshot") /\ AppendSnapshot

\* the run when its task raised: what is skipped depends on the script
Raised ==
  IF Task.kind = "snapshot" \/ Plan.raises = "task" THEN Onto(run, Tail(run.tasks))
  ELSE IF Plan.raises = "run" THEN Idle
  ELSE Onto(run, Picked(run.tasks, {i \in DOMAIN run.tasks : run.tasks[i].kind # Task.kind}))

RequestFails ==
  /\ Busy({"bars", "daily", "snapshot"}) /\ failures < MaxFailures
  /\ Task.kind \in {"bars", "daily"} => Readable /\ run.next <= run.end
  /\ run' = Raised /\ failures' = failures + 1
  /\ UNCHANGED <<file, runs>>

\* reading raises UnicodeDecodeError, of which no reader is aware
ReadRaises ==
  /\ Busy({"bars", "daily", "merge"}) /\ ~Readable
  /\ run' = Raised
  /\ UNCHANGED <<file, runs, failures>>

\* merge_by_key and merge_snapshots: the canonical rows, the others that have a
\* new key, sorted
Merged(s) ==
  Sorted(Range(Parsed(file["archive"][s]))
         \cup Range(NewRows(file["archive"][s], Parsed(file["missing"][s]))))

\* a series with no line to merge may have no file to look for it in
MergeSeries ==
  /\ Busy({"merge"}) /\ (Readable \/ file["missing"][Task.of].lines = <<>>)
  /\ IF Parsed(file["missing"][Task.of]) = <<>> THEN UNCHANGED file
     ELSE file' = [file EXCEPT !["archive"][Task.of] = Appended(NoFile, Merged(Task.of))]
  /\ run' = Onto(run, Tail(run.tasks))
  /\ UNCHANGED <<runs, failures>>

\* the items are written as the coverage report of the run
Finish ==
  /\ run # Idle /\ run.tasks = <<>>
  /\ run' = Idle
  /\ UNCHANGED <<file, runs, failures>>

\* the process dies while it writes: any number of records reached the disk. A
\* merge has truncated the canonical file before it writes the first of them.
\* The records of a contract are plain ASCII, no cut makes them undecodable
Die ==
  /\ run # Idle /\ run.tasks # <<>> /\ failures < MaxFailures
  /\ LET merging == Task.kind = "merge"
         rows == CASE merging -> Merged(Task.of)
                   [] Task.kind = "snapshot" -> <<Snapshot>>
                   [] OTHER -> NewRows(Target, run.rows)
     IN /\ Task.kind \in {"bars", "daily"} => run.next > run.end
        /\ merging => Readable /\ Parsed(file["missing"][Task.of]) # <<>>
        /\ \E n \in 0 .. Len(rows), how \in {"whole", "torn", "garbled", "no newline"} :
             /\ how = "garbled" => Task.of \notin Contracts
             /\ file' = [file EXCEPT ![Plan.tree][Task.of] =
                          Cut(IF merging THEN NoFile ELSE @, SubSeq(rows, 1, n), how)]
  /\ run' = Idle /\ failures' = failures + 1
  /\ UNCHANGED runs

RunStep == \/ FetchChunk \/ FetchStats \/ ReadRaises
           \/ CollectFundBars \/ CollectFundSnapshots \/ CollectImeDaily
           \/ CollectMissingBars \/ CollectMissingSnapshots \/ CollectMissingDaily
           \/ CaptureSymbol \/ CaptureContract \/ CaptureOnce
           \/ CaptureMinuteBarArchive \/ CaptureImeCdcArchive \/ CaptureDailyArchive
           \/ MergeSeries \/ Finish
=============================================================================
