------------------------------ MODULE Install ------------------------------
(***************************************************************************)
(* winbrew install: crates/app/src/operations/install (mod.rs run and      *)
(* commit_install, state.rs, flow.rs) over commit_install_with_journal     *)
(* (crates/database/src/installed_packages.rs) and JournalWriter.          *)
(*                                                                         *)
(*   ready -> [drop_row] -> [clear_dir] -> mark -> download -> engine ->   *)
(*   begin -> open -> journal -> commit -> read_commands -> write_shims    *)
(*                                                                         *)
(* The transaction of the commit spans open, journal and commit: its first *)
(* statement is the UPDATE of the row, which takes the write lock.         *)
(***************************************************************************)
EXTENDS Store

Key(c) == <<proc[c].pkg, proc[c].ver>>

(* resolve_install_target chooses a version; inspect_install_target reads  *)
(* the row, the directory and the owners of the commands, in that order.   *)
ResolveAndInspect(c) ==
  /\ At(c, "ready")
  /\ \E k \in Keys :
       LET status  == rows[k[1]].status
           blocked == Claimed(k[1], Exposes[k])
           next    == IF status = "failed" THEN "drop_row"
                      ELSE IF dirs[<<k[1], "live">>] # None THEN "clear_dir"
                      ELSE "mark"
           refused == status \in {"ok", "installing"} \/ (next = "mark" /\ blocked)
       IN  \/ (refused \/ ReadFails) /\ Exit(c)
           \/ /\ ~refused
              /\ proc' = [proc EXCEPT ![c].pc = next, ![c].pkg = k[1], ![c].ver = k[2],
                                      ![c].kind = Manifest[k[1]],
                                      ![c].cmds = Exposes[k], ![c].blocked = blocked]
  /\ UNCHANGED <<db, disk>>

(* prepare_install_target: the failed row goes, by name.                   *)
DropFailedRow(c) ==
  /\ At(c, "drop_row")
  /\ \/ LockFree /\ DeleteRow(proc[c].pkg) /\ Goto(c, "clear_dir")
     \/ WriteFails(c) /\ Exit(c) /\ UNCHANGED <<rows, owner>>
  /\ UNCHANGED <<writer, disk>>

(* Then its directory; only after that is a command conflict reported.     *)
ClearInstallDir(c) ==
  /\ At(c, "clear_dir")
  /\ \/ Cleanup(Live(c)) /\ (IF proc[c].blocked THEN Exit(c) ELSE Goto(c, "mark"))
     \/ CleanupFails(Live(c)) /\ Exit(c)
  /\ UNCHANGED <<db, journals, shims>>

(* The 7-Zip bootstrap is declined or fails, or a directory cannot be made.*)
Abandon(c) == At(c, "mark") /\ Exit(c) /\ UNCHANGED <<db, disk>>

(* mark_installing inserts the row; an existing row is a primary key error.*)
MarkInstalling(c) ==
  /\ At(c, "mark")
  /\ \/ /\ LockFree /\ ~Present(proc[c].pkg)
        /\ InsertRow(proc[c].pkg, proc[c].ver, proc[c].kind, "installing")
        /\ Goto(c, "download")
     \/ (WriteFails(c) \/ Present(proc[c].pkg)) /\ Exit(c) /\ UNCHANGED rows
  /\ UNCHANGED <<owner, writer, disk>>

(* build_client's error returns at once: no rollback, the row stays.       *)
BuildClientFails(c) == At(c, "download") /\ Exit(c) /\ UNCHANGED <<db, disk>>

(* The download is done; the payload's own kind wins over the manifest's.  *)
(* update_installing_identity writes by name and checks no row count.      *)
ProbeAndReclassify(c) ==
  /\ At(c, "download")
  /\ \E k \in Probe[proc[c].pkg] :
       \/ /\ k = proc[c].kind \/ LockFree
          /\ rows' = [rows EXCEPT ![proc[c].pkg] =
                        IF k # proc[c].kind /\ @.status # "absent"
                        THEN [@ EXCEPT !.kind = k] ELSE @]
          /\ proc' = [proc EXCEPT ![c].pc = "engine", ![c].kind = k]
       \/ /\ k # proc[c].kind /\ WriteFails(c)
          /\ Goto(c, "rollback_row") /\ UNCHANGED rows
  /\ UNCHANGED <<owner, writer, disk>>

(* The directory an engine leaves when it does not finish: a staged engine *)
(* swaps a whole directory in, a native installer writes in place.         *)
EngineDebris(c) ==
  {dirs[Live(c)], proc[c].ver} \cup (IF proc[c].kind = "staged" THEN {None} ELSE {Partial})

EngineInstalls(c) ==
  /\ At(c, "engine")
  /\ dirs' = [dirs EXCEPT ![Live(c)] = proc[c].ver]
  /\ Goto(c, "begin")
  /\ UNCHANGED <<db, journals, shims>>

(* A failed or cancelled download, probe or engine, or Ctrl+C during an    *)
(* engine that finished, seen right after.                                 *)
InstallFails(c) ==
  /\ proc[c].pc \in {"download", "engine"}
  /\ IF At(c, "engine")
     THEN \E content \in EngineDebris(c) : dirs' = [dirs EXCEPT ![Live(c)] = content]
     ELSE UNCHANGED dirs
  /\ Goto(c, "rollback_row")
  /\ UNCHANGED <<db, journals, shims>>

(* rollback_failed_install: mark_failed by name, failure only logged, then *)
(* cleanup_install_artifacts.                                              *)
RollbackRow(c) ==
  /\ At(c, "rollback_row")
  /\ \/ LockFree /\ SetStatus(proc[c].pkg, "failed")
     \/ WriteFails(c) /\ UNCHANGED rows
  /\ Goto(c, "rollback_dir")
  /\ UNCHANGED <<owner, writer, disk>>

(* Mutant of RollbackDir: only the database is rolled back.                *)
RollbackNoDir(c) == At(c, "rollback_dir") /\ Exit(c) /\ UNCHANGED <<db, disk>>

RollbackDir(c) ==
  /\ At(c, "rollback_dir")
  /\ Cleanup(Live(c)) \/ CleanupFails(Live(c))
  /\ Exit(c)
  /\ UNCHANGED <<db, journals, shims>>
----------------------------------------------------------------------------
(* The commit.  Until CommitTx the other processes see the old rows.       *)

(* Mutants: the transaction begins with its reads and takes no lock yet;   *)
(* the conflict found at inspection is relied on, or nothing is checked.   *)
TakeNoLock(c) == UNCHANGED writer

NoCommandConflict(c) == FALSE

(* The transaction's UPDATE keeps the write lock until it ends.            *)
TakeLock(c) == writer' = c

(* sync_package_commands meets the UNIQUE constraint on command_name.      *)
CommandConflict(c) == Claimed(proc[c].pkg, proc[c].cmds)

BeginCommit(c) ==
  /\ At(c, "begin")
  /\ \/ /\ LockFree /\ Present(proc[c].pkg) /\ ~CommandConflict(c)
        /\ TakeLock(c) /\ Goto(c, "open")
     \/ /\ \/ WriteFails(c) \/ ReadFails
           \/ LockFree /\ (~Present(proc[c].pkg) \/ CommandConflict(c))
        /\ Goto(c, "commit_failed") /\ UNCHANGED writer
  /\ UNCHANGED <<rows, owner, disk>>

(* The journal is that of the row's version, with the row's engine.        *)
JournalKey(c)  == <<proc[c].pkg, rows[proc[c].pkg].ver>>
JournalMeta(c) == [kind |-> rows[proc[c].pkg].kind, cmds |-> proc[c].cmds]

(* An error inside the transaction drops it: rollback, lock released.      *)
AbortTx(c) == writer' = None /\ Goto(c, "commit_failed")

(* A refusal leaves the file alone; another error may come after create.   *)
(* A journal that could not be read is opened all the same ("blind").      *)
OpenJournal(c) ==
  /\ At(c, "open")
  /\ LET f      == journals[JournalKey(c)]
         opened == [journals EXCEPT ![JournalKey(c)] = Opened(f)]
     IN  \/ Openable(f) /\ journals' = opened /\ Goto(c, "journal") /\ UNCHANGED writer
         \/ /\ JournalReadFails /\ f.exists /\ Len(f.lines) <= MaxLines
            /\ Goto(c, "blind") /\ UNCHANGED <<journals, writer>>
         \/ "journal" \in Faults /\ journals' \in {journals, opened} /\ AbortTx(c)
         \/ ~Openable(f) /\ AbortTx(c) /\ UNCHANGED journals
  /\ UNCHANGED <<rows, owner, dirs, shims>>

(* An open journal, checked or not.                                        *)
WriteLabels == {"journal", "blind"}

(* The files a write through the open handle may leave; a journal that was *)
(* deleted meanwhile stays deleted.                                        *)
JournalDebris(c) ==
  LET f == journals[JournalKey(c)]
  IN  IF f.exists
      THEN {g \in TornWrites(f, JournalMeta(c)) :
              Len(g.lines) <= MaxLines \/ g = Extend(f, <<BadLine>>, FALSE)}
      ELSE {f}

WriteJournal(c) ==
  /\ proc[c].pc \in WriteLabels
  /\ \/ /\ journals' = [journals EXCEPT ![JournalKey(c)] =
                          IF @.exists THEN Written(@, JournalMeta(c)) ELSE @]
        /\ Goto(c, "commit") /\ UNCHANGED writer
     \/ /\ "journal" \in Faults
        /\ \E g \in JournalDebris(c) : journals' = [journals EXCEPT ![JournalKey(c)] = g]
        /\ AbortTx(c)
  /\ UNCHANGED <<rows, owner, dirs, shims>>

CommitTx(c) ==
  /\ At(c, "commit")
  /\ \/ /\ SetStatus(proc[c].pkg, "ok")
        /\ SyncCommands(proc[c].pkg, proc[c].cmds)
        /\ writer' = None /\ Goto(c, "read_commands")
     \/ "db" \in Faults /\ AbortTx(c) /\ UNCHANGED <<rows, owner>>
  /\ UNCHANGED disk

(* commit_install's error path: the row fails, the directory stays.        *)
MarkCommitFailed(c) ==
  /\ At(c, "commit_failed")
  /\ \/ LockFree /\ SetStatus(proc[c].pkg, "failed")
     \/ WriteFails(c) /\ UNCHANGED rows
  /\ Exit(c)
  /\ UNCHANGED <<owner, writer, disk>>

(* publish_package_shims reads the row and its commands afresh.            *)
ReadCommands(c) ==
  /\ At(c, "read_commands")
  /\ \/ /\ Present(proc[c].pkg)
        /\ proc' = [proc EXCEPT ![c].pc = "write_shims", ![c].cmds = Owned(proc[c].pkg)]
     \/ (ReadFails \/ ~Present(proc[c].pkg)) /\ Exit(c)
  /\ UNCHANGED <<db, disk>>

(* One file per command; an error leaves the rest unwritten and is logged. *)
PublishShims(c) ==
  /\ At(c, "write_shims")
  /\ \E done \in SUBSET proc[c].cmds :
       /\ "fs" \in Faults \/ done = proc[c].cmds
       /\ WriteShims(done, proc[c].pkg)
  /\ Exit(c)
  /\ UNCHANGED <<db, dirs, journals>>

InstallStep(c) ==
  \/ ResolveAndInspect(c) \/ DropFailedRow(c) \/ ClearInstallDir(c) \/ Abandon(c)
  \/ MarkInstalling(c) \/ BuildClientFails(c) \/ ProbeAndReclassify(c)
  \/ EngineInstalls(c) \/ InstallFails(c)
  \/ RollbackRow(c) \/ RollbackDir(c)
  \/ BeginCommit(c) \/ OpenJournal(c) \/ WriteJournal(c) \/ CommitTx(c)
  \/ MarkCommitFailed(c) \/ ReadCommands(c) \/ PublishShims(c)
=============================================================================
