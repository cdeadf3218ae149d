------------------------------ MODULE Replacement ------------------------------
(***************************************************************************)
(* Directory trees and their replacement (cleanup.rs, move_or_copy.rs): a  *)
(* staged tree takes the place of the tree in a slot, whose old content is *)
(* moved aside to <slot>.old first where a plain rename cannot do it.      *)
(***************************************************************************)
EXTENDS Naturals, FiniteSets

CONSTANTS
  Procs,      \* winbrew processes
  Packages,   \* packages, each with its install directory
  None        \* no tree, no value

Runtime == "7zip"   \* the slot of the 7-Zip runtime, and its one payload
Slots == Packages \union {Runtime}
OldRuntime == "7zip old"   \* a runtime of an earlier version
Parts(of) == IF of \in Packages THEN {"bin", "lib"} ELSE {"bin", "VERSION"}

\* One file of a tree: what it belongs to, and whether its end is missing.
Piece(of, part, cut) == [of |-> of, part |-> part, cut |-> cut]
Pieces ==
    UNION {{Piece(of, part, cut) : part \in Parts(of), cut \in BOOLEAN} :
             of \in Slots \union {OldRuntime}}
Trees == {None} \union SUBSET Pieces

WholeTree(of) == {Piece(of, part, FALSE) : part \in Parts(of)}

\* The runtime lies beside the package directories.
ASSUME SlotsAssumption == /\ Runtime \notin Packages /\ OldRuntime \notin Packages
                          /\ None \notin Slots

VARIABLES
  disk,   \* the trees: in the slots, moved aside, in the shared staging directory
          \* and in a process's own one, which may be on another volume (far)
  job     \* the install that each process is at

\* What cleanup_path can leave of a tree, and whether it succeeds: it is gone
\* (deleted, or renamed for later), or deleting it failed before or after its
\* files were.
Cleaned(tree) ==
    {[ok |-> TRUE, tree |-> None]}
      \union (IF tree = None THEN {}
              ELSE {[ok |-> FALSE, tree |-> rest] : rest \in {tree, {}}})

\* A process replaces the runtime from its own staging directory, and a
\* package from the one next to the package directories.
Target(p) == IF job[p].src = "boot" THEN Runtime ELSE job[p].pkg
Source(p) == IF job[p].src = "boot" THEN disk.boot[p] ELSE disk.stage

\* Disk d with another tree for the source.
WithSource(d, p, tree) ==
    IF job[p].src = "boot" THEN [d EXCEPT !.boot[p] = tree] ELSE [d EXCEPT !.stage = tree]

OtherVolume(p) == job[p].src = "boot" /\ disk.far

Goto(p, pc) == job' = [job EXCEPT ![p].pc = pc]

--------------------------------------------------------------------------------
(* replace_directory, system call by system call. *)

\* A backup that an earlier replacement left is removed first.
SweepBackup(p) ==
    /\ job[p].pc = "sweep"
    /\ \E left \in Cleaned(disk.old[Target(p)]) :
        /\ disk' = [disk EXCEPT !.old[Target(p)] = left.tree]
        /\ job' = [job EXCEPT ![p].pc = IF left.ok THEN "move" ELSE "unwound",
                              ![p].before = disk.at[Target(p)]]

\* rename(source, target), which cannot replace a directory or cross volumes.
MoveIn(p) ==
    /\ job[p].pc = "move"
    /\ \/ /\ ~OtherVolume(p)
          /\ Source(p) # None
          /\ disk.at[Target(p)] = None
          /\ disk' = WithSource([disk EXCEPT !.at[Target(p)] = Source(p)], p, None)
          /\ Goto(p, "replaced")
       \/ /\ OtherVolume(p) \/ disk.at[Target(p)] # None
          /\ Goto(p, "aside")
          /\ UNCHANGED disk
       \/ Goto(p, "unwound") /\ UNCHANGED disk

\* rename(target, backup); with no target there is nothing to move aside, and a
\* copy goes ahead without a backup.
MoveAside(p) ==
    /\ job[p].pc = "aside"
    /\ \/ /\ disk.at[Target(p)] # None
          /\ disk' = [disk EXCEPT !.at[Target(p)] = None,
                                  !.old[Target(p)] = disk.at[Target(p)]]
          /\ Goto(p, "finish")
       \/ /\ disk.at[Target(p)] = None
          /\ disk' = IF OtherVolume(p) THEN [disk EXCEPT !.at[Target(p)] = {}] ELSE disk
          /\ Goto(p, IF OtherVolume(p) THEN "copyfresh" ELSE "unwound")
       \/ Goto(p, "unwound") /\ UNCHANGED disk

\* The second rename(source, target).
Finish(p) ==
    /\ job[p].pc = "finish"
    /\ \/ /\ ~OtherVolume(p)
          /\ Source(p) # None
          /\ disk' = WithSource([disk EXCEPT !.at[Target(p)] = Source(p)], p, None)
          /\ Goto(p, "forget")
       \/ /\ OtherVolume(p)
          /\ disk' = [disk EXCEPT !.at[Target(p)] = {}]
          /\ Goto(p, "copy")
       \/ ~OtherVolume(p) /\ Goto(p, "restore") /\ UNCHANGED disk

\* copy_dir_all, file by file in any order; a copy that fails leaves its file short.
CopyPiece(p) ==
    /\ job[p].pc \in {"copy", "copyfresh"}
    /\ \E piece \in Source(p) \ disk.at[Target(p)], cut \in BOOLEAN :
        /\ disk' = [disk EXCEPT !.at[Target(p)] =
                        @ \union {[piece EXCEPT !.cut = cut \/ piece.cut]}]
        /\ Goto(p, IF ~cut THEN job[p].pc
                   ELSE IF job[p].pc = "copy" THEN "uncopy" ELSE "unwound")

\* After the last file the source goes, if it can be removed.
CopyDone(p) ==
    /\ job[p].pc \in {"copy", "copyfresh"}
    /\ Source(p) \subseteq disk.at[Target(p)]
    /\ \E left \in Cleaned(Source(p)) : disk' = WithSource(disk, p, left.tree)
    /\ Goto(p, IF job[p].pc = "copy" THEN "forget" ELSE "replaced")

\* Half a copy is removed before the backup is put back.
RemoveCopy(p) ==
    /\ job[p].pc = "uncopy"
    /\ \E left \in Cleaned(disk.at[Target(p)]) :
        disk' = [disk EXCEPT !.at[Target(p)] = left.tree]
    /\ Goto(p, "restore")

\* Mutant: an error after the move aside is reported as it is.
RestoreNothing(p) ==
    /\ job[p].pc = "restore"
    /\ Goto(p, "unwound")
    /\ UNCHANGED disk

\* rename(backup, target); if that fails too, the error says so.
Restore(p) ==
    /\ job[p].pc = "restore"
    /\ \/ /\ disk.at[Target(p)] = None
          /\ disk' = [disk EXCEPT !.at[Target(p)] = disk.old[Target(p)],
                                  !.old[Target(p)] = None]
          /\ Goto(p, "unwound")
       \/ Goto(p, "torn") /\ UNCHANGED disk

\* The backup of a replacement that succeeded is removed, if it can be.
ForgetBackup(p) ==
    /\ job[p].pc = "forget"
    /\ \E left \in Cleaned(disk.old[Target(p)]) :
        disk' = [disk EXCEPT !.old[Target(p)] = left.tree]
    /\ Goto(p, "replaced")

ReplaceStep(p) ==
    \/ SweepBackup(p) \/ MoveIn(p) \/ MoveAside(p) \/ Finish(p)
    \/ CopyPiece(p) \/ CopyDone(p) \/ RemoveCopy(p) \/ Restore(p) \/ ForgetBackup(p)
================================================================================
