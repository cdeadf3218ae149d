-------------------------------- MODULE Cli --------------------------------
(***************************************************************************)
(* WinBrew as its users run it: any number of winbrew processes over one   *)
(* managed root, each starting up (Startup) and then running install       *)
(* (Install), remove (Remove) or repair (Repair), any of which may be      *)
(* killed between two steps.                                               *)
(***************************************************************************)
EXTENDS Startup, Install, Remove, Repair

(* A process is killed.  Its transaction is rolled back and its handles    *)
(* close; a write or an engine in progress may be half done.               *)
Crash(c) ==
  /\ "crash" \in Faults
  /\ ~At(c, "idle")
  /\ writer' = IF writer = c THEN None ELSE writer
  /\ IF proc[c].pc \in WriteLabels
     THEN \E g \in JournalDebris(c) : journals' = [journals EXCEPT ![JournalKey(c)] = g]
     ELSE UNCHANGED journals
  /\ IF At(c, "engine")
     THEN \E content \in EngineDebris(c) : dirs' = [dirs EXCEPT ![Live(c)] = content]
     ELSE UNCHANGED dirs
  /\ Exit(c)
  /\ UNCHANGED <<rows, owner, shims>>

Step(c) == StartupStep(c) \/ InstallStep(c) \/ RemoveStep(c) \/ RepairStep(c)

Next == \E c \in Procs : Step(c) \/ Crash(c)

(* A started command goes on: prompts are answered, engines return.        *)
Fairness == \A c \in Procs : WF_vars(Step(c) /\ ~At(c, "idle"))

Spec == Init /\ [][Next]_vars

FairSpec == Spec /\ Fairness
----------------------------------------------------------------------------
(* The invariant that keeps the commits of several processes apart.        *)

(* Where a process acts on one package: every local of the plan is set.    *)
PlannedLabels ==
  {"drop_row", "clear_dir", "mark", "download", "engine",
   "rollback_row", "rollback_dir", "begin", "open", "journal", "blind", "commit",
   "commit_failed", "read_commands", "write_shims", "confirm", "stage",
   "uninstall", "delete_row", "remove_shims", "remove_journal", "remove_trash"}

TxLabels == {"open", "journal", "blind", "commit"}

PlanIsSet(l) ==
  l.pc \in PlannedLabels
  => l.pkg \in Packages /\ l.ver \in Versions /\ l.kind \in EngineKinds

(* A process is inside its commit transaction exactly while it holds the   *)
(* write lock; until it leaves, the row it updates stays there and its     *)
(* commands stay free for it, and from open_at's check, when the journal   *)
(* could be read, to the flush it stays one that may be written.           *)
CommitIsExclusive ==
  /\ \A c \in Procs : PlanIsSet(proc[c])
  /\ writer # None => proc[writer].pc \in TxLabels
  /\ \A c \in Procs : proc[c].pc \in TxLabels
                       => writer = c /\ Present(proc[c].pkg) /\ ~CommandConflict(c)
  /\ \A c \in Procs : At(c, "journal") => Openable(journals[JournalKey(c)])
----------------------------------------------------------------------------
(* Properties of any number of processes.                                  *)

(* A committed journal is authoritative, so nothing may write to it again: *)
(* a step leaves it as it is or deletes it, unless it is the write of a    *)
(* commit whose own check could not read that journal.  open_at checks     *)
(* before it opens and writes later; what keeps a second writer away       *)
(* between the two is that the commit's UPDATE already took SQLite's lock. *)
OpenedUnread(k) == \E c \in Procs : At(c, "blind") /\ JournalKey(c) = k

CommittedJournalIsFinal ==
  [][\A k \in Keys :
       Committed(journals[k]) /\ ~OpenedUnread(k)
       => journals'[k] \in {journals[k], NoFile}]_vars

(* While journals can be read, none ever holds entries after a Commit: the *)
(* corruption that the comment in open_at is about.                        *)
NoTrailingEntries == \A k \in Keys : ~TrailingEntries(journals[k])

(* A command passes from one package to another only by way of no owner:   *)
(* install checks for conflicts long before it commits, and replay never   *)
(* does, so only the re-check inside the transaction can ensure it.        *)
CommandsAreNotStolen ==
  [][\A x \in Commands : owner[x] # None => owner'[x] \in {owner[x], None}]_vars

(* The registry names only packages that were once installed: never one    *)
(* whose row is gone or whose install has not committed.                   *)
OwnersWereInstalled ==
  \A x \in Commands : owner[x] # None => rows[owner[x]].status \in {"ok", "failed"}

(* Every command that starts comes to an end, whatever the others do: a    *)
(* process that meets SQLite's lock waits for it or gives up, and gives it *)
(* back, since every error inside the commit transaction drops it.         *)
EveryCommandEnds == \A c \in Procs : []<>(At(c, "idle") /\ writer # c)
----------------------------------------------------------------------------
(* Properties of one process at a time.                                    *)

InstallLabels ==
  {"download", "engine", "rollback_row", "begin", "open", "journal", "blind",
   "commit", "commit_failed"}

(* By the time a command runs, startup has failed every row a dead process *)
(* left Installing: the only such row is that of the install in progress.  *)
NoStaleRows ==
  \A c \in Procs : \A p \in Packages :
    /\ proc[c].pc \notin {"idle", "stale_row", "stale_dir"}
    /\ rows[p].status = "installing"
    => proc[c].pkg = p /\ proc[c].pc \in InstallLabels

(* An installed package stops being installed only when a remove deletes   *)
(* its row: every other write by name finds another status there.          *)
InstalledUntilRemoved ==
  [][\A p \in Packages :
       Installed(p) /\ rows'[p].status # "ok"
       => \E c \in Procs : At(c, "delete_row") /\ proc[c].pkg = p]_vars

(* A package visible as installed has a journal that ends in a Commit      *)
(* (commit_install_with_journal), or one that repair replays, through      *)
(* every crash and failure, and while it is being removed.                 *)
JournalTrail ==
  \A p \in Packages : Installed(p) => Evidence(journals[<<p, rows[p].ver>>])

(* The index and the journals implement the write-ahead log.               *)
Log == INSTANCE WriteAhead WITH
         installed <- [p \in Packages |-> IF Installed(p) THEN rows[p].ver ELSE None],
         evidence  <- {k \in Keys : Evidence(journals[k])}

WriteAheadLog == Log!Spec

(* What the parts of the store agree on about a package between commands:  *)
(* one that is installed has its files (or what a native uninstaller that  *)
(* failed left of them), one journal, its commands and its shims; one that *)
(* is not has left nothing replayable, owned or reachable behind.          *)
NoTrash(p) == dirs[<<p, "trash">>] = None
Shimmed(p) == {x \in Commands : shims[x] = p}
OnlyVersion(p, v) == \A u \in Versions \ {v} : ~journals[<<p, u>>].exists

Bare(p) ==
  /\ Owned(p) = {} /\ Shimmed(p) = {}
  /\ \A v \in Versions : ~journals[<<p, v>>].exists

OnRecord(p, kind, cmds) ==
  /\ Committed(journals[<<p, rows[p].ver>>])
  /\ FirstMeta(journals[<<p, rows[p].ver>>]) = [kind |-> kind, cmds |-> cmds]
  /\ OnlyVersion(p, rows[p].ver)

Whole(p) ==
  /\ dirs[<<p, "live">>] \in {rows[p].ver, Partial}
  /\ dirs[<<p, "live">>] = Partial => rows[p].kind = "native"
  /\ OnRecord(p, rows[p].kind, Owned(p))
  /\ Owned(p) = Exposes[<<p, rows[p].ver>>]

AtRest(p) ==
  /\ NoTrash(p)
  /\ IF Installed(p) THEN Whole(p) /\ Shimmed(p) = Owned(p)
     ELSE dirs[<<p, "live">>] = None /\ Bare(p)

(* When nothing fails but downloads, engines and users, then between two   *)
(* commands every part of the store agrees about every package.            *)
Settled ==
  (\A c \in Procs : At(c, "idle")) => \A p \in Packages : AtRest(p)
----------------------------------------------------------------------------
(* What the repository says of itself and the code does not do: TLC finds  *)
(* each of these violated, ReplayFindsTheFiles in the run LostFiles.       *)

(* cleanup.rs: the rows that startup fails were left "by a previous crash  *)
(* or forced termination", not by an install that is still running.        *)
StartupSparesTheLiving ==
  [][\A c, d \in Procs :
       /\ proc[d].pc \in InstallLabels /\ rows[proc[d].pkg].status = "installing"
       /\ MarkStaleFailed(c)
       => rows'[proc[d].pkg] = rows[proc[d].pkg]]_vars

(* installed_packages.rs: "either both the journal and the SQLite row end  *)
(* up durable, or neither does": an installed package's journal can be     *)
(* read back as committed.                                                 *)
TrailIsReadable ==
  \A p \in Packages : Installed(p) => Committed(journals[<<p, rows[p].ver>>])

(* installed_packages.rs: a committed journal with no row is "the          *)
(* documented Incomplete install recovery case that repair replays from    *)
(* the journal": what repair brings back is the package, files included.   *)
ReplayFindsTheFiles ==
  [][\A c \in Procs :
       Replay(c) => \A p \in Packages :
         ~Installed(p) /\ rows'[p].status = "ok" => dirs[<<p, "live">>] = rows'[p].ver]_vars

(* recovery-policy.md: orphan cleanup is for what "can be removed without  *)
(* touching live content".                                                 *)
OrphanCleanupSparesInstalled ==
  [][\A c \in Procs :
       RemoveOrphan(c) => \A p \in Packages :
         Installed(p) => dirs'[<<p, "live">>] = dirs[<<p, "live">>]]_vars

(* state.rs: after prepare_install_target "the next attempt starts from a  *)
(* known-good state": nothing of an earlier attempt stops it at the commit.*)
CleanStart == \A c \in Procs : At(c, "mark") => Openable(journals[Key(c)])
=============================================================================
