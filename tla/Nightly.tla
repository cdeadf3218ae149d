-------------------------------- MODULE Nightly --------------------------------
(***************************************************************************)
(* The nightly workflow (.github/workflows/catalog.yml): it restores the   *)
(* cached catalog, runs the crawler into the parser through a pipe, checks *)
(* what they left, publishes the catalog and saves it for the next run.    *)
(***************************************************************************)
EXTENDS Parser, CatalogPatch

VARIABLE flow     \* the workflow and what it keeps between its runs

FlowLabels == {"idle", "build", "publish", "materialize"}
Kept == {None} \union Databases
Flows == [pc       : FlowLabels,
          base     : Kept,       \* the catalog in the runner's cache directory
          cache    : Kept,       \* the newest entry of the catalog cache
          today    : BOOLEAN,    \* whether that has the date of the run for its key
          released : Kept]       \* the snapshot in the object store

vars == <<upstream, crawl, parse, catalog, day, flow>>

Init ==
    /\ upstream = [i \in Ids |-> Unlisted]
    /\ crawl = NoCrawl
    /\ parse = NoParse
    /\ catalog = None
    /\ day = 0
    /\ flow = [pc |-> "idle", base |-> None, cache |-> None, today |-> FALSE,
             released |-> None]

\* The runner is discarded with everything on it.
RunnerGone ==
    /\ upstream' = [i \in Ids |-> Unlisted]
    /\ crawl' = NoCrawl
    /\ parse' = NoParse
    /\ catalog' = None
    /\ UNCHANGED day

\* A run, scheduled or dispatched, on the same date as the last one or later:
\* it restores the newest entry, unless that was evicted.
StartJob(sameDate, evicted) ==
    /\ flow.pc = "idle"
    /\ day < MaxRuns
    /\ day' = day + 1
    /\ upstream' \in Feeds
    /\ crawl' = StartedCrawl
    /\ parse' = [NoParse EXCEPT !.pc = "open"]
    /\ LET base == IF evicted THEN None ELSE flow.cache
       IN /\ catalog' = base
          /\ flow' = [flow EXCEPT !.pc = "build", !.base = base, !.cache = base,
                                  !.today = flow.today /\ sameDate /\ ~evicted]

--------------------------------------------------------------------------------
(* The pipe between crawler and parser. *)

\* A line gets through for as long as the parser is there to read it.
PipeLine(i) ==
    /\ flow.pc = "build"
    /\ parse.pc # "failed"
    /\ WriteScoopLine(i)
    /\ UNCHANGED <<parse, catalog, day, flow>>

\* A write to a pipe that nobody reads ends the Scoop goroutine.
PipeBreaks ==
    /\ flow.pc = "build"
    /\ parse.pc = "failed"
    /\ crawl.scoop = "write"
    /\ crawl' = [crawl EXCEPT !.scoop = "failed"]
    /\ UNCHANGED <<upstream, parse, catalog, day, flow>>

CrawlerStep ==
    \/ flow.pc = "build" /\ CrawlStep /\ UNCHANGED <<parse, catalog, day, flow>>
    \/ \E i \in Ids : PipeLine(i)
    \/ PipeBreaks

ParserStep == flow.pc = "build" /\ ParseStep /\ UNCHANGED flow

BuildFault ==
    /\ flow.pc = "build"
    /\ \/ CrawlFault /\ UNCHANGED <<parse, catalog, day>>
       \/ ParserFails
    /\ UNCHANGED flow

--------------------------------------------------------------------------------
(* The rest of the job. *)

\* Mutant: the status of the pipeline is that of its last command.
BuildPassesUnpiped ==
    /\ parse.pc = "done"
    /\ crawl.sent # {}
    /\ crawl.file \notin {None, {}}

\* set -euo pipefail over crawler | tee | parser, then the four -s checks.
BuildPasses ==
    /\ CrawlSucceeded
    /\ parse.pc = "done"
    /\ crawl.sent # {}
    /\ crawl.file \notin {None, {}}

\* The build step is over when both ends of the pipe are.  If it passed, the
\* catalog is copied to the cache directory.
EndBuild ==
    /\ flow.pc = "build"
    /\ CrawlEnded
    /\ parse.pc \in {"done", "failed"}
    /\ \/ /\ BuildPasses
          /\ flow' = [flow EXCEPT !.pc = "publish", !.base = catalog]
          /\ crawl' = NoCrawl
          /\ parse' = NoParse
          /\ UNCHANGED <<upstream, catalog, day>>
       \/ /\ ~BuildPasses
          /\ flow' = [flow EXCEPT !.pc = "idle", !.base = None]
          /\ RunnerGone

\* The publisher uploads the snapshot, with or without a patch.
PublishRelease ==
    /\ flow.pc = "publish"
    /\ flow' = [flow EXCEPT !.pc = "materialize", !.released = catalog]
    /\ UNCHANGED <<upstream, crawl, parse, catalog, day>>

\* The plans are in D1 and the job succeeds: the cache directory is saved under
\* the date, unless the date has an entry already.
CompleteJob ==
    /\ flow.pc = "materialize"
    /\ flow' = IF flow.today
               THEN [flow EXCEPT !.pc = "idle", !.base = None]
               ELSE [flow EXCEPT !.pc = "idle", !.base = None, !.cache = flow.base,
                                 !.today = TRUE]
    /\ RunnerGone

\* The job times out, is cancelled, or a step fails: nothing is saved.
JobFails ==
    /\ flow.pc # "idle"
    /\ flow' = [flow EXCEPT !.pc = "idle", !.base = None]
    /\ RunnerGone

JobStep == EndBuild \/ PublishRelease \/ CompleteJob

Next ==
    \/ \E sameDate, evicted \in BOOLEAN : StartJob(sameDate, evicted)
    \/ CrawlerStep \/ ParserStep \/ JobStep
    \/ BuildFault \/ JobFails

Spec == Init /\ [][Next]_vars
FairSpec == Spec /\ WF_vars(CrawlerStep) /\ WF_vars(ParserStep) /\ WF_vars(JobStep)

--------------------------------------------------------------------------------
(* Properties. *)

TypeOK ==
    /\ upstream \in Manifests
    /\ crawl \in Crawls
    /\ parse \in Parses
    /\ catalog \in Kept
    /\ day \in 0..MaxRuns
    /\ flow \in Flows

Readable(i) == upstream[i] \in Contents

\* A catalog that is published holds every package whose manifest could be read
\* when it was crawled, as it was then, and no other: a crawl that failed half
\* way, whose lines the parser commits like any others, never gets through
\* (pipefail in catalog.yml; EndOfStream against the end of the crawler).
WholeCatalog ==
    flow.pc \in {"publish", "materialize"} =>
        /\ Held(catalog) = {i \in Ids : Readable(i)}
        /\ \A i \in Held(catalog) : catalog.pkgs[i].content = upstream[i]
        /\ InstallersMatch(catalog)

Catalogs == {catalog, flow.base, flow.cache, flow.released} \ {None}

\* In every catalog that is kept anywhere the full-text index has one entry for
\* each package, and rowids and installer ids name one row, over any number of
\* nights of upserts, deletions and reused rowids (the triggers of catalog.sql).
TablesAgree ==
    \A c \in Catalogs : IndexMatches(c) /\ RowidsAreKeys(c) /\ InstallersAreKeys(c)

\* A build never drifts from the catalog it was built on, so that a patch from
\* that one can be made: packages keep their rowid, installers their id (sync_installers).
DeltasFollow ==
    parse.pc = "done" /\ flow.base # None => ~Drifted(flow.base, catalog)

\* Executed on the release before, the statements of a patch give the new one's
\* packages and installers in every column that the publisher knows, whatever
\* base that was built on (buildCatalogPatchSQLFromSnapshots).  The lists it does
\* not know are lost with every row that is written.
PatchGivesTheRelease ==
    flow.pc = "publish" /\ flow.released # None =>
        \/ Drifted(flow.released, catalog)
        \/ SameRows(ApplyPatch(flow.released, PatchBetween(flow.released, catalog)), catalog)

\* Every build comes to an end: neither program waits for ever for the other,
\* whichever of them fails, and no retry goes on for ever.
BuildEnds == flow.pc = "build" ~> flow.pc # "build"
================================================================================
