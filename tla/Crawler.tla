-------------------------------- MODULE Crawler --------------------------------
(***************************************************************************)
(* One run of the crawler (infra/crawler): two goroutines of one errgroup, *)
(* of which the first brings every Scoop bucket up to date and then writes *)
(* a line for each of its packages to stdout, and the second stages the    *)
(* winget index, creates the winget file and writes it.  The first error   *)
(* cancels the group.                                                      *)
(***************************************************************************)
EXTENDS CatalogTables

CONSTANTS
    Buckets,      \* the configured Scoop buckets
    Home,         \* where a package comes from: a bucket, or Winget
    Winget,       \* the winget source
    Unlisted,     \* no manifest, or one that the crawler skips
    Refused,      \* a manifest that is written and that the parser skips
    Feeds         \* what the manifests of all packages may hold in one run

ASSUME CrawlerAssumption ==
    /\ Winget \notin Buckets
    /\ Home \in [Ids -> Buckets \union {Winget}]
    /\ {Unlisted, Refused, None} \intersect Contents = {}
    /\ Unlisted # Refused
    /\ Feeds \subseteq [Ids -> Contents \union {Unlisted, Refused}]
    /\ \A s \in SUBSET Ids : s # None

VARIABLES
    upstream,     \* what each package's manifest holds while the crawl runs
    crawl         \* the run: its goroutines and what they have written

ScoopLabels == {"off", "sync", "write", "done", "failed"}
WingetLabels == {"off", "stage", "write", "done", "failed"}

Manifests == [Ids -> Contents \union {Unlisted, Refused}]
Crawls == [scoop  : ScoopLabels,
           winget : WingetLabels,
           synced : SUBSET Buckets,      \* buckets brought up to date
           broken : SUBSET Buckets,      \* buckets that could not be written
           sent   : SUBSET Ids,          \* lines written to stdout
           file   : {None} \union SUBSET Ids]  \* lines of the winget file

NoCrawl == [scoop |-> "off", winget |-> "off", synced |-> {}, broken |-> {},
            sent |-> {}, file |-> None]

StartedCrawl == [NoCrawl EXCEPT !.scoop = "sync", !.winget = "stage"]

\* The packages that an origin lists with a manifest the crawler can read.
Listed(o) == {i \in Ids : Home[i] = o /\ upstream[i] # Unlisted}
ScoopListed == {i \in Ids : Home[i] # Winget /\ upstream[i] # Unlisted}

\* errgroup: the context of both goroutines is cancelled by the first error.
Cancelled == crawl.scoop = "failed" \/ crawl.winget = "failed"

\* group.Wait has returned; the process then exits, and only then does the
\* parser see the end of the stream.
CrawlEnded == /\ crawl.scoop \in {"done", "failed"}
              /\ crawl.winget \in {"done", "failed"}
CrawlSucceeded == crawl.scoop = "done" /\ crawl.winget = "done"

--------------------------------------------------------------------------------
(* The Scoop goroutine. *)

SyncBucket(b) ==
    /\ crawl.scoop = "sync"
    /\ b \notin crawl.synced
    /\ crawl' = [crawl EXCEPT !.synced = @ \union {b}]
    /\ UNCHANGED upstream

\* One bucket that cannot be synced, after all attempts at it, ends the source
\* before it writes a line.
SyncFails ==
    /\ crawl.scoop = "sync"
    /\ crawl.synced # Buckets
    /\ crawl' = [crawl EXCEPT !.scoop = "failed"]
    /\ UNCHANGED upstream

StartWriting ==
    /\ crawl.scoop = "sync"
    /\ crawl.synced = Buckets
    /\ crawl' = [crawl EXCEPT !.scoop = "write"]
    /\ UNCHANGED upstream

\* The lines of a bucket whose writing has not failed reach stdout.
WriteScoopLine(i) ==
    /\ crawl.scoop = "write"
    /\ i \in ScoopListed \ crawl.sent
    /\ Home[i] \notin crawl.broken
    /\ crawl' = [crawl EXCEPT !.sent = @ \union {i}]
    /\ UNCHANGED upstream

\* A bucket that cannot be read or written is counted, and the next one goes on.
BucketBreaks(b) ==
    /\ crawl.scoop = "write"
    /\ ~(Listed(b) \subseteq crawl.sent)
    /\ crawl' = [crawl EXCEPT !.broken = @ \union {b}]
    /\ UNCHANGED upstream

\* "partial failure" if any bucket was counted.
FinishScoop ==
    /\ crawl.scoop = "write"
    /\ \A b \in Buckets : b \in crawl.broken \/ Listed(b) \subseteq crawl.sent
    /\ crawl' = [crawl EXCEPT !.scoop = IF crawl.broken = {} THEN "done" ELSE "failed"]
    /\ UNCHANGED upstream

\* The context was cancelled by the other goroutine.
CancelScoop ==
    /\ crawl.scoop \in {"sync", "write"}
    /\ Cancelled
    /\ crawl' = [crawl EXCEPT !.scoop = "failed"]
    /\ UNCHANGED upstream

--------------------------------------------------------------------------------
(* The winget goroutine. *)

\* DownloadSourceDB, then os.Create, which empties the file.
StageWinget ==
    /\ crawl.winget = "stage"
    /\ crawl' = [crawl EXCEPT !.winget = "write", !.file = {}]
    /\ UNCHANGED upstream

WriteWingetLine(i) ==
    /\ crawl.winget = "write"
    /\ i \in Listed(Winget) \ crawl.file
    /\ crawl' = [crawl EXCEPT !.file = @ \union {i}]
    /\ UNCHANGED upstream

FinishWinget ==
    /\ crawl.winget = "write"
    /\ Listed(Winget) \subseteq crawl.file
    /\ crawl' = [crawl EXCEPT !.winget = "done"]
    /\ UNCHANGED upstream

\* The index cannot be downloaded, after all attempts, or not queried, a line
\* cannot be written, or the group is cancelled.  What was written stays.
WingetFails ==
    /\ crawl.winget \in {"stage", "write"}
    /\ crawl' = [crawl EXCEPT !.winget = "failed"]
    /\ UNCHANGED upstream

\* What the goroutines do by themselves, and what may befall them.
CrawlStep ==
    \/ \E b \in Buckets : SyncBucket(b)
    \/ \E i \in Ids : WriteWingetLine(i)
    \/ StartWriting \/ FinishScoop \/ StageWinget \/ FinishWinget
CrawlFault ==
    \/ \E b \in Buckets : BucketBreaks(b)
    \/ SyncFails \/ CancelScoop \/ WingetFails
================================================================================
