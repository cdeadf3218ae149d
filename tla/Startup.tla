------------------------------ MODULE Startup ------------------------------
(***************************************************************************)
(* What every winbrew process does before its command:                     *)
(* cleanup_stale_installations (crates/cli/src/services/bootstrap/         *)
(* cleanup.rs).  The rows still Installing are listed once; then, for each,*)
(* the row is marked failed by name and the install directory removed.     *)
(***************************************************************************)
EXTENDS Store

(* Mutants of InstallingRows: rows with nothing on disk are passed over;   *)
(* every row that has not failed is taken for unfinished.                  *)
InstallingRowsWithFiles ==
  {p \in Packages : rows[p].status = "installing" /\ dirs[<<p, "live">>] # None}

UnfailedRows == {p \in Packages : rows[p].status \in {"installing", "ok"}}

InstallingRows == {p \in Packages : rows[p].status = "installing"}

Launch(c) ==
  /\ At(c, "idle")
  /\ proc' = [proc EXCEPT
       ![c].pc    = IF InstallingRows = {} THEN "ready" ELSE "stale_row",
       ![c].paths = InstallingRows \X {"live"}]
  /\ UNCHANGED <<db, disk>>

(* A failure to update the row is only logged.                             *)
MarkStaleFailed(c) ==
  /\ At(c, "stale_row")
  /\ \E d \in proc[c].paths :
       /\ \/ LockFree /\ SetStatus(d[1], "failed")
          \/ WriteFails(c) /\ UNCHANGED rows
       /\ proc' = [proc EXCEPT ![c].pc = "stale_dir", ![c].pkg = d[1]]
  /\ UNCHANGED <<owner, writer, disk>>

(* Mutant of RemoveStaleDir: startup goes round until no row is Installing.*)
RemoveStaleDirAndLook(c) ==
  /\ At(c, "stale_dir")
  /\ Cleanup(Live(c)) \/ CleanupFails(Live(c))
  /\ LET rest == InstallingRows \X {"live"}
     IN  proc' = [proc EXCEPT ![c].pc    = IF rest = {} THEN "ready" ELSE "stale_row",
                              ![c].paths = rest,
                              ![c].pkg   = None]
  /\ UNCHANGED <<db, journals, shims>>

(* So is a failure to remove the directory.                                *)
RemoveStaleDir(c) ==
  /\ At(c, "stale_dir")
  /\ Cleanup(Live(c)) \/ CleanupFails(Live(c))
  /\ LET rest == proc[c].paths \ {Live(c)}
     IN  proc' = [proc EXCEPT ![c].pc    = IF rest = {} THEN "ready" ELSE "stale_row",
                              ![c].paths = rest,
                              ![c].pkg   = None]
  /\ UNCHANGED <<db, journals, shims>>

StartupStep(c) == Launch(c) \/ MarkStaleFailed(c) \/ RemoveStaleDir(c)
=============================================================================
