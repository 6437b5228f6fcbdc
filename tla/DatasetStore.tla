---------------------------- MODULE DatasetStore ----------------------------
(* archive.py: one file per symbol and a manifest that holds their checksums *)
(* and coverage, downloaded into by one process at a time.                   *)
(* A checksum is the contents it was taken of. A JSONL file is replaced      *)
(* whole; a Parquet file is written where it stands. The process may die     *)
(* between any two writes, and any request may fail.                         *)
EXTENDS BarFiles

CONSTANTS
  Formats,      \* the stores to try: "jsonl", "parquet"
  MaxFaults     \* bound: crashes and failed requests

VARIABLES
  format,       \* the store of this directory
  store,        \* store[s]: the rows of the symbol's file, empty when there is none
  manifest,     \* manifest.json; no symbols: there is none
  job,          \* the running download_symbol_bars
  faults,
  damaged       \* history: the symbols a writer died on that no write has replaced since

storeVars == <<format, store, manifest, job, faults, damaged>>

Torn       == [day |-> 0, slot |-> 0, over |-> FALSE]
IsTorn(s)  == store[s] = <<Torn>>
NoManifest == [symbols |-> {}, first |-> 0, last |-> 0, sums |-> <<>>, missing |-> <<>>]
NoJob      == [pc |-> "idle", incremental |-> TRUE, first |-> 0, last |-> 0, todo |-> {},
               raw |-> <<>>, symbols |-> {}, sums |-> <<>>]
HasManifest == manifest.symbols # {}

StoreInit ==
  /\ format \in Formats
  /\ store = [s \in Symbols |-> <<>>]
  /\ manifest = NoManifest /\ job = NoJob
  /\ faults = 0 /\ damaged = {}

\* read_manifest compares every file with the checksum the manifest holds
Verified == \A s \in manifest.symbols : store[s] = manifest.sums[s]

\* a mutant of KnownDays: the days the manifest spans, whether or not they have bars
KnownDaysOfManifest(s, incremental) ==
  IF incremental /\ s \in manifest.symbols THEN manifest.first .. manifest.last ELSE {}

\* the days an incremental download does not ask for again
KnownDays(s, incremental) ==
  IF incremental /\ HasManifest THEN DaysOf(store[s]) ELSE {}

Start(universe, days, incremental) ==
  LET first == IF today - days + 1 > 0 THEN today - days + 1 ELSE 1
  IN /\ job.pc = "idle"
     /\ incremental /\ HasManifest => \A s \in universe : ~IsTorn(s)
     /\ job' = [NoJob EXCEPT !.pc = "fetch", !.incremental = incremental,
                  !.first = first, !.last = today, !.raw = [s \in universe |-> <<>>],
                  !.todo = {k \in universe \X (first .. today) :
                              k[2] \notin KnownDays(k[1], incremental)}]
     /\ UNCHANGED <<format, store, manifest, faults, damaged>>

\* one request per symbol and day, in that order
FetchDay ==
  /\ job.pc = "fetch" /\ job.todo # {}
  /\ LET s == LeastOf({k[1] : k \in job.todo})
         d == LeastOf({k[2] : k \in {q \in job.todo : q[1] = s}})
     IN job' = [job EXCEPT !.raw[s] = @ \o Served(s, d, d), !.todo = @ \ {<<s, d>>}]
  /\ UNCHANGED <<format, store, manifest, faults, damaged>>

\* a request that raises ends the download before anything is written
FetchFails ==
  /\ job.pc = "fetch" /\ job.todo # {} /\ faults < MaxFaults
  /\ job' = NoJob /\ faults' = faults + 1
  /\ UNCHANGED <<format, store, manifest, damaged>>

\* write() with a manifest to extend: a checksum that does not match raises
BeginWrite ==
  /\ job.pc = "fetch" /\ job.todo = {}
  /\ LET extends == job.incremental /\ HasManifest
     IN job' = IF extends /\ ~Verified THEN NoJob
               ELSE [job EXCEPT !.pc = "write",
                       !.symbols = DOMAIN job.raw \cup IF extends THEN manifest.symbols ELSE {}]
  /\ UNCHANGED <<format, store, manifest, faults, damaged>>

\* a mutant of MergedRows: of two rows of one bar the older one wins
MergedRowsSwapped(s) ==
  Normalized((IF s \in DOMAIN job.raw THEN job.raw[s] ELSE <<>>)
             \o (IF job.incremental THEN store[s] ELSE <<>>))

\* a mutant of MergedRows: an incremental write forgets the rows of the file
MergedRowsNew(s) == Normalized(IF s \in DOMAIN job.raw THEN job.raw[s] ELSE <<>>)

MergedRows(s) ==
  Normalized((IF job.incremental THEN store[s] ELSE <<>>)
             \o (IF s \in DOMAIN job.raw THEN job.raw[s] ELSE <<>>))

Unwritten == job.symbols \ DOMAIN job.sums

\* the next symbol: a JSONL file is replaced whole, a Parquet file is torn open
WriteSymbol ==
  /\ job.pc = "write" /\ Unwritten # {} /\ ~(job.incremental /\ IsTorn(LeastOf(Unwritten)))
  /\ LET s == LeastOf(Unwritten)
     IN /\ job' = [job EXCEPT !.sums = Assigned(@, s, MergedRows(s)),
                              !.pc = IF format = "jsonl" THEN @ ELSE "tearing"]
        /\ store' = [store EXCEPT ![s] = IF format = "jsonl" THEN MergedRows(s) ELSE <<Torn>>]
  /\ UNCHANGED <<format, manifest, faults, damaged>>

\* the file to extend is one a Parquet writer died in: reading it raises
TornRaises ==
  /\ job.pc = "write" /\ Unwritten # {} /\ job.incremental /\ IsTorn(LeastOf(Unwritten))
  /\ job' = NoJob
  /\ UNCHANGED <<format, store, manifest, faults, damaged>>

FinishParquet ==
  /\ job.pc = "tearing"
  /\ LET s == CHOOSE x \in DOMAIN job.sums : IsTorn(x)
     IN store' = [store EXCEPT ![s] = job.sums[s]]
  /\ job' = [job EXCEPT !.pc = "write"]
  /\ UNCHANGED <<format, manifest, faults, damaged>>

\* a mutant of CommitManifest: the checksums of the previous manifest are kept
CommitManifestStale ==
  /\ job.pc = "write" /\ Unwritten = {}
  /\ manifest' = [manifest EXCEPT !.symbols = job.symbols, !.first = job.first, !.last = job.last,
                    !.sums = @ @@ job.sums, !.missing = [s \in job.symbols |-> {}]]
  /\ job' = NoJob /\ damaged' = damaged \ DOMAIN job.sums
  /\ UNCHANGED <<format, store, faults>>

\* the manifest replaces the old one whole: the range it claims only grows when
\* the write extends it, and _coverage lists the days of it without a bar
CommitManifest ==
  /\ job.pc = "write" /\ Unwritten = {}
  /\ LET extends == job.incremental /\ HasManifest
         first == IF extends THEN LeastOf({manifest.first, job.first}) ELSE job.first
         last  == IF extends THEN GreatestOf({manifest.last, job.last}) ELSE job.last
     IN manifest' = [symbols |-> job.symbols, first |-> first, last |-> last, sums |-> job.sums,
                     missing |-> [s \in job.symbols |-> (first .. last) \ DaysOf(job.sums[s])]]
  /\ job' = NoJob /\ damaged' = damaged \ DOMAIN job.sums
  /\ UNCHANGED <<format, store, faults>>

Crash ==
  /\ job.pc # "idle" /\ faults < MaxFaults
  /\ job' = NoJob /\ faults' = faults + 1
  /\ damaged' = damaged \cup DOMAIN job.sums
  /\ UNCHANGED <<format, store, manifest>>

JobStep == FetchDay \/ BeginWrite \/ WriteSymbol \/ FinishParquet \/ CommitManifest
           \/ TornRaises
=============================================================================
