------------------------------- MODULE Remove ------------------------------
(***************************************************************************)
(* winbrew remove: crates/cli/src/commands/remove.rs and crates/app/src/   *)
(* operations/remove (plan.rs, execution.rs).  The plan is a snapshot of   *)
(* the row; the execution acts on the snapshot's name and version.         *)
(*                                                                         *)
(*   staged:  ready -> confirm -> [stage] -> delete_row -> remove_shims -> *)
(*            remove_journal -> [remove_trash]                             *)
(*   native:  ready -> confirm -> uninstall -> delete_row -> ...           *)
(*                                                                         *)
(* The check for dependent packages never refuses: every row is written    *)
(* with an empty dependency list (state.rs installing_package).            *)
(***************************************************************************)
EXTENDS Store

PlanRemoval(c) ==
  /\ At(c, "ready")
  /\ \E p \in Packages :
       /\ Present(p)
       /\ proc' = [proc EXCEPT ![c].pc = "confirm", ![c].pkg = p,
                               ![c].ver = rows[p].ver, ![c].kind = rows[p].kind]
  /\ UNCHANGED <<db, disk>>

DeclineRemoval(c) == At(c, "confirm") /\ Exit(c) /\ UNCHANGED <<db, disk>>

(* The commands whose shims will go are read before anything is removed.   *)
StartRemoval(c) ==
  /\ At(c, "confirm")
  /\ \E cs \in CommandsRead(proc[c].pkg) :
       proc' = [proc EXCEPT
         ![c].cmds = cs,
         ![c].pc   = IF proc[c].kind = "native" THEN "uninstall"
                     ELSE IF dirs[Live(c)] # None THEN "stage" ELSE "delete_row"]
  /\ UNCHANGED <<db, disk>>

(* A leftover trash directory is cleaned, then the live directory renamed. *)
(* proc[c].paths remembers that there is a trash directory to remove.      *)
StageForRemoval(c) ==
  /\ At(c, "stage")
  /\ \/ /\ dirs[Live(c)] # None
        /\ dirs' = [dirs EXCEPT ![Trash(c)] = dirs[Live(c)], ![Live(c)] = None]
        /\ proc' = [proc EXCEPT ![c].pc = "delete_row", ![c].paths = {Trash(c)}]
     \/ /\ "fs" \in Faults \/ dirs[Live(c)] = None
        /\ \/ dirs' = [dirs EXCEPT ![Trash(c)] = None]
           \/ CleanupFails(Trash(c))
        /\ Exit(c)
  /\ UNCHANGED <<db, journals, shims>>

(* The engine's own uninstaller, which may fail half way, then whatever it *)
(* left of the directory.                                                  *)
Uninstall(c) ==
  /\ At(c, "uninstall")
  /\ \/ (Cleanup(Live(c)) \/ CleanupFails(Live(c))) /\ Goto(c, "delete_row")
     \/ /\ \/ UNCHANGED dirs
           \/ dirs[Live(c)] # None /\ dirs' = [dirs EXCEPT ![Live(c)] = Partial]
        /\ Exit(c)
  /\ UNCHANGED <<db, journals, shims>>

DeleteRemovedRow(c) ==
  /\ At(c, "delete_row")
  /\ LockFree
  /\ DeleteRow(proc[c].pkg)
  /\ Goto(c, "remove_shims")
  /\ UNCHANGED <<writer, disk>>

(* Mutant of DeleteRemovedRowFails: the error is logged and removal goes   *)
(* on.                                                                     *)
DeleteRemovedRowIgnored(c) ==
  /\ At(c, "delete_row")
  /\ WriteFails(c)
  /\ Goto(c, "remove_shims")
  /\ UNCHANGED <<db, disk>>

(* The row could not be deleted: a staged directory is renamed back, if    *)
(* nothing has taken its place.                                            *)
DeleteRemovedRowFails(c) ==
  /\ At(c, "delete_row")
  /\ WriteFails(c)
  /\ \/ /\ proc[c].paths # {} /\ dirs[Live(c)] = None
        /\ dirs' = [dirs EXCEPT ![Live(c)] = dirs[Trash(c)], ![Trash(c)] = None]
     \/ /\ proc[c].paths = {} \/ dirs[Live(c)] # None \/ "fs" \in Faults
        /\ UNCHANGED dirs
  /\ Exit(c)
  /\ UNCHANGED <<db, journals, shims>>

RemoveShims(c) ==
  /\ At(c, "remove_shims")
  /\ \E done \in SUBSET proc[c].cmds :
       /\ "fs" \in Faults \/ done = proc[c].cmds
       /\ WriteShims(done, None)
  /\ Goto(c, "remove_journal")
  /\ UNCHANGED <<db, dirs, journals>>

(* cleanup_committed_journal deletes the planned version's journal.        *)
RemoveJournal(c) ==
  /\ At(c, "remove_journal")
  /\ \/ journals' = [journals EXCEPT ![<<proc[c].pkg, proc[c].ver>>] = NoFile]
     \/ "fs" \in Faults /\ UNCHANGED journals
  /\ IF proc[c].paths = {} THEN Exit(c) ELSE Goto(c, "remove_trash")
  /\ UNCHANGED <<db, dirs, shims>>

RemoveTrash(c) ==
  /\ At(c, "remove_trash")
  /\ Cleanup(Trash(c)) \/ CleanupFails(Trash(c))
  /\ Exit(c)
  /\ UNCHANGED <<db, journals, shims>>

RemoveStep(c) ==
  \/ PlanRemoval(c) \/ DeclineRemoval(c) \/ StartRemoval(c)
  \/ StageForRemoval(c) \/ Uninstall(c)
  \/ DeleteRemovedRow(c) \/ DeleteRemovedRowFails(c)
  \/ RemoveShims(c) \/ RemoveJournal(c) \/ RemoveTrash(c)
=============================================================================
