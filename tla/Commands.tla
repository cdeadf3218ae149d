-------------------------------- MODULE Commands --------------------------------
(***************************************************************************)
(* Which commands a package exposes, the fingerprint of that decision and  *)
(* the test for a decision that is out of date (command_resolution.rs,     *)
(* replay.rs).                                                             *)
(*                                                                         *)
(* A text is a path: [dir, stem, dotted, upper], of which the last segment *)
(* is a command's name.  The stem Marker stands for "." and "..", and for  *)
(* what holds a colon or a null; Nothing is the empty stem.  A raw catalog *)
(* field is [json, texts]: what its text parses to, and the strings in it. *)
(***************************************************************************)
EXTENDS Integers, Sequences, SequencesExt

CONSTANTS Marker, Nothing, Unset

JsonKinds == {"absent", "blank", "malformed", "array", "string", "other"}

NameOf(text) == [stem |-> text.stem, dotted |-> text.dotted, upper |-> text.upper]
Folded(name) == [stem |-> name.stem, dotted |-> name.dotted, upper |-> FALSE]
FoldedAll(names) == {Folded(n) : n \in names}

\* sanitize_command_name keeps the last segment of these.
SafeName(name) == /\ name.stem # Marker
                  /\ name.stem = Nothing => name.dotted

\* command_name_from_bin_entry: without the extension, unless there is no more.
BinName(text) == [text EXCEPT !.dotted = (@ /\ text.stem = Nothing)]

\* The first spelling of every safe name.
NormalizeCommandNames(texts) ==
    LET safe == {n \in DOMAIN texts : SafeName(NameOf(texts[n]))}
        Lower(n) == Folded(NameOf(texts[n]))
    IN {NameOf(texts[n]) : n \in {n \in safe : \A m \in safe : m < n => Lower(m) # Lower(n)}}

ParseCommandList(raw) == NormalizeCommandNames(raw.texts)
ListParses(raw) == raw.json \in {"absent", "array"}

CommandsFromBin(bin) ==
    NormalizeCommandNames([n \in DOMAIN bin.texts |-> BinName(bin.texts[n])])

\* The package's own commands, then the installer's, then its executables.
SourceOf(entry) ==
    IF ParseCommandList(entry.package) # {} THEN "package"
    ELSE IF ParseCommandList(entry.installer) # {} THEN "installer"
    ELSE IF CommandsFromBin(entry.bin) # {} THEN "inferred" ELSE "none"

CommandsAt(entry, source) ==
    CASE source = "package"   -> ParseCommandList(entry.package)
      [] source = "installer" -> ParseCommandList(entry.installer)
      [] source = "inferred"  -> CommandsFromBin(entry.bin)
      [] source = "none"      -> {}

\* A list that does not parse is an error, the executables only when they are
\* read: for the commands, where blank is no JSON, or for the fingerprint.
ResolutionFails(entry) ==
    \/ ~ListParses(entry.package) \/ ~ListParses(entry.installer)
    \/ entry.bin.json = "malformed"
    \/ entry.bin.json = "blank" /\ SourceOf(entry) = "none"

\* Mutant: the fingerprint of a decision covers only what was looked at.
FingerprintOfSource(entry) ==
    [commands |-> FoldedAll(CommandsAt(entry, SourceOf(entry))), identity |-> entry.identity]

\* Commands up to case and order, executables as the catalog has them, and the
\* identity of the installer, the package's moniker included.
CatalogFingerprint(entry) ==
    [package   |-> FoldedAll(ParseCommandList(entry.package)),
     installer |-> FoldedAll(ParseCommandList(entry.installer)),
     bin       |-> IF entry.bin.json \in {"absent", "blank"} THEN Unset ELSE entry.bin,
     identity  |-> entry.identity]

ResolveCommandExposure(entry) ==
    LET source == SourceOf(entry)
    IN IF ResolutionFails(entry) THEN [is |-> "error"]
       ELSE IF source = "none" THEN [is |-> "unresolved"]
       ELSE [is |-> "resolved", source |-> source, commands |-> CommandsAt(entry, source),
             fingerprint |-> CatalogFingerprint(entry)]

\* What repair reports of a committed journal's decision, given today's.
CommandStatus(committed, current) ==
    IF committed.is # "resolved" \/ current.is # "resolved" THEN "unknown"
    ELSE IF committed.fingerprint = current.fingerprint THEN "fresh" ELSE "stale"
================================================================================
