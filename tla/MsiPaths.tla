-------------------------------- MODULE MsiPaths --------------------------------
(***************************************************************************)
(* The paths of an MSI package's directories (directory.rs): a walk from   *)
(* each row of the Directory table to its ancestors, in the order of a     *)
(* hash map's keys, with the paths found so far remembered.                *)
(***************************************************************************)
EXTENDS FiniteSets, Sequences, SequencesExt

CONSTANTS
    Directories,   \* identifiers that a row or a parent may have
    Top            \* the parent of a row that has none

VARIABLES
    rows,   \* the Directory table: [parent, named]
    scan    \* the walk: [status, visiting, resolved]

\* A row's directory is named, or stands for its parent ("." or nothing).
DirectoryRows == [parent : Directories \union {Top}, named : BOOLEAN]

NoScan == [status |-> "running", visiting |-> <<>>, resolved |-> <<>>]

Running == scan.status = "running"
Resolved == DOMAIN scan.resolved
Visiting == scan.visiting # <<>>

\* The walk starts again at any row that has no path yet.
VisitRow ==
    /\ Running /\ ~Visiting
    /\ \E d \in DOMAIN rows \ Resolved : scan' = [scan EXCEPT !.visiting = <<d>>]

\* Mutant: a parent without a row is taken for the install root.
ParentOrRoot(d) == IF rows[d].parent \in DOMAIN rows THEN rows[d].parent ELSE Top

\* Whom the walk asks next.
ParentOf(d) == rows[d].parent

ScanFails(why) == scan' = [scan EXCEPT !.status = why]

\* To the parent, which must have a row and not be on the way already.
VisitParent ==
    /\ Running /\ Visiting
    /\ LET parent == ParentOf(Last(scan.visiting))
       IN /\ parent # Top /\ parent \notin Resolved
          /\ IF parent \in ToSet(scan.visiting) THEN ScanFails("cycle")
             ELSE IF parent \notin DOMAIN rows THEN ScanFails("missing")
             ELSE scan' = [scan EXCEPT !.visiting = Append(@, parent)]

\* A path is the parent's, or the install root, and the directory's own name.
PathFrom(base, d) == IF rows[d].named THEN Append(base, d) ELSE base

Remembering(paths, d, path) ==
    [e \in DOMAIN paths \union {d} |-> IF e = d THEN path ELSE paths[e]]

\* The path of the directory the walk stands at is known: remember it, go back.
Join ==
    /\ Running /\ Visiting
    /\ LET d      == Last(scan.visiting)
           parent == ParentOf(d)
           base   == IF parent = Top THEN <<>> ELSE scan.resolved[parent]
       IN /\ parent \in Resolved \union {Top}
          /\ scan' = [scan EXCEPT !.visiting = Front(@),
                                  !.resolved = Remembering(@, d, PathFrom(base, d))]

ScanEnds ==
    /\ Running /\ ~Visiting /\ DOMAIN rows \subseteq Resolved
    /\ scan' = [scan EXCEPT !.status = "done"]

ScanStep ==
    /\ VisitRow \/ VisitParent \/ Join \/ ScanEnds
    /\ UNCHANGED rows

--------------------------------------------------------------------------------

\* Rows whose ancestors never come to an end: each has a parent without a row, or
\* one among them.
Endless(S) ==
    /\ S # {}
    /\ \A d \in S : rows[d].parent # Top /\ rows[d].parent \in S \union (Directories \ DOMAIN rows)

\* Whatever order the rows are visited in, the walk succeeds exactly when every
\* row has a root, each path is then the parent's with the directory's own name,
\* and no path is invented for a table with a cycle or a missing row.
DirectoriesResolve ==
    /\ scan.status = "done" =>
         /\ Resolved = DOMAIN rows
         /\ ~\E S \in SUBSET DOMAIN rows : Endless(S)
         /\ \A d \in DOMAIN rows :
               scan.resolved[d] =
                  PathFrom(IF rows[d].parent = Top THEN <<>>
                           ELSE scan.resolved[rows[d].parent], d)
    /\ scan.status \in {"cycle", "missing"} =>
         \E S \in SUBSET DOMAIN rows : Endless(S)
================================================================================
