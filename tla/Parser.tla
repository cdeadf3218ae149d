--------------------------------- MODULE Parser --------------------------------
(***************************************************************************)
(* One run of the parser (infra/parser): it opens the catalog at its       *)
(* output path, reusing what is there or starting anew, takes the lines of *)
(* stdin, then those of the winget file, prunes what it has not seen, and  *)
(* commits it all as one transaction.                                      *)
(***************************************************************************)
EXTENDS Crawler

CONSTANT MaxRuns   \* bound: runs of the workflow

ASSUME ParserAssumption == MaxRuns \in Nat

VARIABLES
    parse,        \* the run: where it is, its transaction, the ids it has seen
    catalog,      \* the catalog at the output path, as committed, or None
    day           \* the number of the workflow run, which is also its clock

ParseLabels == {"off", "open", "scoop", "winget", "done", "failed"}
Parses == [pc : ParseLabels, db : Databases, seen : SUBSET Ids, read : SUBSET Ids]

NoParse == [pc |-> "off", db |-> EmptyDb, seen |-> {}, read |-> {}]

Parsing == parse.pc \in {"open", "scoop", "winget"}

\* CatalogWriter::open: the catalog that is there, or a fresh one; BEGIN IMMEDIATE.
OpenCatalog ==
    /\ parse.pc = "open"
    /\ parse' = [parse EXCEPT !.pc = "scoop", !.db = IF catalog = None THEN EmptyDb ELSE catalog]
    /\ UNCHANGED <<upstream, crawl, catalog, day>>

\* A line: parse_package skips what it refuses, and the rest is written.
TakeLine(i, r) ==
    /\ UNCHANGED <<upstream, crawl, catalog, day>>
    /\ IF upstream[i] = Refused
       THEN r = 1 /\ parse' = [parse EXCEPT !.read = @ \union {i}]
       ELSE /\ IsNextRowid(parse.db, r)
            /\ parse' = [parse EXCEPT !.read = @ \union {i}, !.seen = @ \union {i},
                                      !.db = WritePackage(parse.db, i, upstream[i], day, r)]

TakeScoopLine(i, r) ==
    /\ parse.pc = "scoop"
    /\ i \in crawl.sent \ parse.read
    /\ TakeLine(i, r)

\* Mutant: the parser waits for a sign that the crawl is complete.
EndOfWholeStream ==
    /\ parse.pc = "scoop"
    /\ CrawlSucceeded
    /\ crawl.sent \subseteq parse.read
    /\ parse' = [parse EXCEPT !.pc = "winget"]
    /\ UNCHANGED <<upstream, crawl, catalog, day>>

\* The end of the stream, which comes when the crawler has exited, however it did.
EndOfStream ==
    /\ parse.pc = "scoop"
    /\ CrawlEnded
    /\ crawl.sent \subseteq parse.read
    /\ crawl.file # None
    /\ parse' = [parse EXCEPT !.pc = "winget"]
    /\ UNCHANGED <<upstream, crawl, catalog, day>>

TakeWingetLine(i, r) ==
    /\ parse.pc = "winget"
    /\ i \in crawl.file \ parse.read
    /\ TakeLine(i, r)

\* CatalogWriter::finish: prune and COMMIT; then the hash and the metadata.
Finish ==
    /\ parse.pc = "winget"
    /\ crawl.file \subseteq parse.read
    /\ LET pruned == Prune(parse.db, parse.seen)
       IN /\ parse' = [parse EXCEPT !.pc = "done", !.db = pruned]
          /\ catalog' = pruned
    /\ UNCHANGED <<upstream, crawl, day>>

\* The crawler ended before it created the winget file.
NoWingetFile ==
    /\ parse.pc = "scoop"
    /\ CrawlEnded
    /\ crawl.file = None
    /\ parse' = [parse EXCEPT !.pc = "failed"]
    /\ UNCHANGED <<upstream, crawl, catalog, day>>

\* Any error drops the writer, which rolls back: a line that does not decode, a
\* statement that fails.
ParserFails ==
    /\ Parsing
    /\ parse' = [parse EXCEPT !.pc = "failed"]
    /\ UNCHANGED <<upstream, crawl, catalog, day>>

ParseStep ==
    \/ \E i \in Ids, r \in 1..MaxRowid : TakeScoopLine(i, r) \/ TakeWingetLine(i, r)
    \/ OpenCatalog \/ EndOfStream \/ NoWingetFile \/ Finish
================================================================================
