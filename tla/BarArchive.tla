----------------------------- MODULE BarArchive -----------------------------
(* The platform with one of the two kinds of archive filled from it: a       *)
(* dataset directory with a manifest (goldarb.archive), or the JSON-lines    *)
(* tree of the cron scripts (fetch_data/). Both run against the same moving  *)
(* calendar: days end and bars are published while a request is answered,    *)
(* while a file is written and between two runs.                             *)
EXTENDS DatasetStore, Collector

CONSTANTS Directories,   \* the kinds of archive to try
          Downloads      \* what download_symbol_bars is asked for: symbols, days, incremental

ASSUME ArchiveAssumption ==
  /\ Directories \subseteq {"dataset", "collected"} /\ Formats \subseteq {"jsonl", "parquet"}
  /\ Downloads \subseteq (SUBSET Symbols) \X (Nat \ {0}) \X BOOLEAN

VARIABLE directory       \* which of the two this archive is

vars == <<directory, platformVars, storeVars, collectorVars>>

Init == /\ directory \in Directories
        /\ PlatformInit /\ StoreInit /\ CollectorInit
        /\ directory = "collected" => format = "jsonl"

Platform == PlatformNext /\ UNCHANGED <<directory, storeVars, collectorVars>>

Dataset(A) == directory = "dataset" /\ A /\ UNCHANGED <<directory, platformVars, collectorVars>>
Cron(A)    == directory = "collected" /\ A /\ UNCHANGED <<directory, platformVars, storeVars>>

StartDownload == \E d \in Downloads : Start(d[1], d[2], d[3])

DatasetNext == \/ StartDownload \/ FetchDay \/ FetchFails \/ BeginWrite \/ WriteSymbol
               \/ FinishParquet \/ TornRaises \/ CommitManifest \/ Crash

CollectorNext == \/ \E script \in DOMAIN Scripts : Begin(script)
                 \/ RunStep \/ RequestFails \/ Die

Next == Platform \/ Dataset(DatasetNext) \/ Cron(CollectorNext)

\* a process that runs comes to its end, and the incremental download of all
\* symbols and the two cron captures are started again and again
Fairness ==
  /\ WF_vars(Dataset(JobStep)) /\ SF_vars(Dataset(Start(Symbols, NumDays, TRUE)))
  /\ WF_vars(Cron(RunStep))
  /\ SF_vars(Cron(Begin("minute_bar_archive"))) /\ SF_vars(Cron(Begin("ime_cdc_archive")))

Spec == Init /\ [][Next]_vars /\ Fairness

-----------------------------------------------------------------------------
\* No file, of either kind, ever holds two rows of one bar (archive.py _normalized,
\* the existing keys of the collectors), whatever was fetched twice, merged, read
\* while a bar was being formed or cut short.
Once(rows) == Cardinality(KeysOf(rows)) = Len(rows)

OneRowPerBar == /\ \A s \in Symbols : Once(store[s])
                /\ \A t \in Trees, s \in Series : Once(Parsed(file[t][s]))

\* A file that does not match the manifest, or a manifest that misstates the days
\* the file lacks, is the mark of a writer that died between its first file and
\* the manifest; nothing else, not a crash before or after, a failed request or a
\* download of other symbols, leaves one (archive.py write, read_manifest).
DamageIsInterruption ==
  job.pc \notin {"write", "tearing"} =>
    /\ damaged = {} => Verified
    /\ \A s \in manifest.symbols \ damaged :
         manifest.missing[s] = (manifest.first .. manifest.last) \ DaysOf(store[s])

\* What a dataset holds of a day is one answer of the platform: every bar of the
\* day if it was over when it was asked for, otherwise the first bars of it, which
\* then stay all there is, because an incremental download never asks for that day
\* again (download_symbol_bars). It is never a mixture of two answers, not even when
\* a writer died before the manifest and the days it wrote are fetched once more
\* (write, _normalized).
DayFromOneAnswer ==
  \A s \in Symbols : ~IsTorn(s) => \A d \in DaysOf(store[s]) :
    LET rows == {r \in Range(store[s]) : r.day = d}
    IN \/ d < today /\ rows = Range(Served(s, d, d))
       \/ \E n \in 1 .. published[s][d] :
            rows = {[day |-> d, slot |-> k, over |-> FALSE] : k \in 1 .. n}

\* An incremental download keeps every row the file had. A collector that appends
\* takes away no record of the file, whatever fails and wherever a record is cut,
\* but for the one whose newline was lost, on whose line the next one is written; a
\* merge that does not die writes the union. The exceptions are a merge that dies,
\* which has truncated the file, and a download that replaces the dataset.
RowsLostOnlyByFault ==
  [][/\ format = "jsonl" /\ job.incremental /\ job'.pc = "write" =>
          \A s \in Symbols : KeysOf(store[s]) \subseteq KeysOf(store'[s])
     /\ failures' = failures \/ run.script # "merge_missing_data_archive" =>
          \A t \in Trees, s \in Series :
            KeysOf(Parsed(file[t][s])) \ KeysOf(Parsed(file'[t][s])) \subseteq
              IF file[t][s].open THEN {Key(Last(file[t][s].lines))} ELSE {}]_vars

\* The coverage report is right about every series at the moment the series is
\* reported on: the days without a row that are neither today nor known to be
\* closed, and no others (collect_data.py). Of a series of minute bars the file then
\* has every bar of the days that were over when the step began, whatever chunks
\* they were asked for in (iter_date_chunks), so that a day with bars is not reported
\* missing. Only the record that was written behind a line cut short is counted
\* although it cannot be read.
ReportTrue ==
  [][run.script = "collect_data" =>
     \A s \in DOMAIN run'.items \ DOMAIN run.items : ~file["archive"][s].open =>
       LET item == run'.items[s]
           have == Parsed(file'["archive"][s])
       IN /\ item.missing = item.asked \ UNION {DaysOf(have), KnownClosed, {today}}
          /\ Task.kind = "bars" => \A d \in item.asked :
               d < run.end => KeysOf(Served(s, d, d)) \subseteq KeysOf(have)]_vars

\* Every past day with bars is in the dataset, with all of them unless it was
\* asked for while it was not over: its first bars then are all there ever is.
DatasetCovers ==
  \A s \in Symbols, d \in Days : d < today =>
    LET rows == {r \in Range(store[s]) : r.day = d}
    IN (\A r \in rows : r.over) => rows = Range(Served(s, d, d))

\* The collected files of these series have every bar of the past days that the
\* scripts still ask for.
CronCovers(S) ==
  \A s \in S, d \in Days :
    d < today /\ (s \in Contracts \/ d >= today - Days3) =>
      KeysOf(Served(s, d, d)) \subseteq KeysOf(Parsed(file["archive"][s]))

\* Whatever failed before, the archive catches up again and again. Rerunning the
\* incremental download brings every past day into a dataset, unless a writer died
\* between its files; the days it asked for before they were over stay as they were
\* then. A collected series gets every bar of a past day as long as its script
\* still asks for the day, even when records were glued to one another, unless one
\* was cut within a character: no script can read that file any more.
CatchesUp ==
  /\ directory = "dataset" => []<>(damaged # {} \/ DatasetCovers)
  /\ directory = "collected" =>
       []<>CronCovers({s \in Symbols : file["archive"][s].decodes})

\* docs/sdk-usage-fa.md: running the download again fetches only the days each
\* symbol lacks, so running it often enough completes the archive.
RerunCompletes == directory = "dataset" => []<>DatasetCovers
=============================================================================
