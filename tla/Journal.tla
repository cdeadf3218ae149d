------------------------------ MODULE Journal ------------------------------
(***************************************************************************)
(* The recovery journal of one package version: data/pkgdb/<key>/          *)
(* journal.jsonl, written by crates/database/src/journal/writer.rs and     *)
(* read by reader.rs and replay.rs.                                        *)
(*                                                                         *)
(* A journal is a text file of JSON lines.  What the readers can tell      *)
(* apart is kept: whether the file exists, for each non-blank line whether *)
(* it parses and as which entry, whether the last line is terminated by a  *)
(* newline, and whether the whole is UTF-8.  The third point matters       *)
(* because open_at appends: bytes written after an unterminated line join  *)
(* that line.  The last one because read_to_string fails on a file that is *)
(* not UTF-8, which a write cut inside a character leaves: of such a file  *)
(* no reader sees a line, and only the last one is kept here.              *)
(***************************************************************************)
EXTENDS Integers, Sequences

CONSTANTS Commands,     \* the command names packages expose
          None          \* a value that is no package, version or metadata

ASSUME NoneIsNoCommand == None \notin Commands

(* How the engine of a package removes it (remove/execution.rs): "staged"  *)
(* is zip and portable, whose directory is first renamed to a trash        *)
(* directory; "native" is msi, msix, nativeexe and font.                   *)
EngineKinds == {"staged", "native"}

(* The part of a Metadata entry that replay and doctor act on.  The name   *)
(* and the version of the package are the journal's key.                   *)
Metas == [kind : EngineKinds, cmds : SUBSET Commands]

MetaLine(m) == [tag |-> "meta", meta |-> m]
CommitLine  == [tag |-> "commit", meta |-> None]
BadLine     == [tag |-> "bad", meta |-> None]      \* does not parse as JSON

Lines == [tag : {"meta"}, meta : Metas] \cup {CommitLine, BadLine}

NoFile    == [exists |-> FALSE, lines |-> <<>>, ended |-> TRUE, utf8 |-> TRUE]
EmptyFile == [exists |-> TRUE, lines |-> <<>>, ended |-> TRUE, utf8 |-> TRUE]

Files == {NoFile} \cup
         [exists : {TRUE}, lines : Seq(Lines), ended : BOOLEAN, utf8 : BOOLEAN]
----------------------------------------------------------------------------
(* The verdicts of JournalReader::read_committed, which reads the whole    *)
(* file first: one that is not UTF-8 is a read error, like an I/O error.   *)

AllMeta(f, n) == \A i \in 1 .. n : f.lines[i].tag = "meta"

Committed(f) ==
  /\ f.utf8 /\ f.lines # <<>>
  /\ AllMeta(f, Len(f.lines) - 1)
  /\ f.lines[Len(f.lines)].tag = "commit"

Incomplete(f) == f.exists /\ f.utf8 /\ AllMeta(f, Len(f.lines))

TrailingEntries(f) ==
  f.utf8 /\ \E i \in 1 .. Len(f.lines) - 1 : AllMeta(f, i - 1) /\ f.lines[i].tag = "commit"

Malformed(f) ==
  f.utf8 /\ \E i \in 1 .. Len(f.lines) : AllMeta(f, i - 1) /\ f.lines[i].tag = "bad"

(* A weaker fact than Committed: the last line is a whole Commit entry.    *)
EndsInCommit(f) ==
  f.lines # <<>> /\ f.lines[Len(f.lines)].tag = "commit"

(* What read_committed_package accepts: a committed journal, or the prefix *)
(* up to the first Commit of one with trailing entries; and the metadata   *)
(* it takes from it, the first Metadata entry.                             *)
Replayable(f) ==
  (Committed(f) \/ TrailingEntries(f)) /\ f.lines[1].tag = "meta"

FirstMeta(f) == f.lines[1].meta

(* What shows that a version was committed: its journal ends in a Commit,  *)
(* or is one that repair replays.                                          *)
Evidence(f) == EndsInCommit(f) \/ Replayable(f)
----------------------------------------------------------------------------
(* Mutant of Openable: a committed journal is opened like any other.       *)
OpenableUnlessMalformed(f) == ~Malformed(f)

(* JournalWriter::open_at: refuses a committed, malformed or trailing      *)
(* journal, continues an incomplete one and one that is not UTF-8, creates *)
(* a missing one.  It also continues any journal, a committed one too, if  *)
(* an I/O error kept it from reading it: OpenJournal in Install.           *)
Openable(f) == ~f.exists \/ ~f.utf8 \/ Incomplete(f)

Opened(f) == IF f.exists THEN f ELSE EmptyFile

(* Bytes holding the lines s arrive at the end of f; "ended" says whether  *)
(* the last newline arrived.  A line that joins an unterminated one no     *)
(* longer parses.                                                          *)
Extend(f, s, ended) ==
  LET joined == IF f.ended THEN f.lines \o s
                ELSE SubSeq(f.lines, 1, Len(f.lines) - 1) \o <<BadLine>> \o Tail(s)
  IN  [exists |-> TRUE,
       lines  |-> IF f.utf8 THEN joined ELSE <<joined[Len(joined)]>>,
       ended  |-> ended,
       utf8   |-> f.utf8]

(* The Metadata line was cut inside a character of more than one byte.     *)
Garbled == [exists |-> TRUE, lines |-> <<BadLine>>, ended |-> FALSE, utf8 |-> FALSE]

(* Mutant of Written: the Commit entry is never appended.                  *)
WrittenUncommitted(f, m) == Extend(f, <<MetaLine(m)>>, TRUE)

(* append(Metadata), append(Commit), flush: all of it is on disk.          *)
Written(f, m) == Extend(f, <<MetaLine(m), CommitLine>>, TRUE)

(* The files an interrupted or failed append .. flush can leave: any       *)
(* prefix of the bytes, none and all of them included.                     *)
TornWrites(f, m) ==
  {f, Written(f, m), Garbled,
   Extend(f, <<BadLine>>, FALSE),
   Extend(f, <<MetaLine(m)>>, FALSE),
   Extend(f, <<MetaLine(m)>>, TRUE),
   Extend(f, <<MetaLine(m), BadLine>>, FALSE),
   Extend(f, <<MetaLine(m), CommitLine>>, FALSE)}
=============================================================================
