------------------------------- MODULE Repair ------------------------------
(***************************************************************************)
(* winbrew repair: crates/cli/src/commands/repair.rs over the doctor's     *)
(* report (operations/doctor), repair/plan.rs, repair/replay.rs,           *)
(* replay_committed_journal and repair/cleanup.rs.                         *)
(*                                                                         *)
(*   ready -> prepare -> (replay -> replay_shims)* -> prepare -> ... ->    *)
(*   orphans                                                               *)
(*                                                                         *)
(* The report is taken once, before the first group, and never refreshed.  *)
(* "batch" is the group of journals with no installed package, confirmed   *)
(* together; "conflict" the group of those that disagree with one,         *)
(* confirmed one by one.  File restore and reinstall are not in this       *)
(* module.                                                                 *)
(***************************************************************************)
EXTENDS Store

Installed(p) == rows[p].status = "ok"

(* What the doctor takes for the installed packages: collect_packages      *)
(* turns a list that cannot be read into an empty one.                     *)
PackagesSeen ==
  {{p \in Packages : Installed(p)}} \cup (IF ReadFails THEN {{}} ELSE {})

(* scan/journal.rs: orphan_package_journal.                                *)
ReplayCandidates(seen) == {k \in Keys : Committed(journals[k]) /\ k[1] \notin seen}

(* scan/journal.rs: trailing_package_journal and stale_package_journal.    *)
ConflictingJournals(seen) ==
  {k \in Keys :
     \/ TrailingEntries(journals[k])
     \/ /\ Committed(journals[k]) /\ k[1] \in seen
        /\ \/ rows[k[1]].ver # k[2]
           \/ rows[k[1]].kind # FirstMeta(journals[k]).kind}

(* scan/orphan.rs: every directory that no installed package is named by.  *)
OrphanDirs(seen) ==
  {d \in Paths : dirs[d] # None /\ (d[2] = "trash" \/ d[1] \notin seen)}

(* The groups in their order; one with nothing to do is passed over, and   *)
(* with the orphans done the command ends.                                 *)
Group(label, group, keys, paths) ==
  [Fresh EXCEPT !.pc = label, !.group = group, !.keys = keys, !.paths = paths]

ToOrphans(l) == IF l.paths = {} THEN Fresh ELSE Group("orphans", "batch", {}, l.paths)

ToConflicts(l) == IF l.conflicts = {} THEN ToOrphans(l)
                  ELSE Group("prepare", "conflict", l.conflicts, l.paths)

ToBatch(l) == IF l.keys = {} THEN ToConflicts(l) ELSE l

NextGroup(c) ==
  proc' = [proc EXCEPT ![c] = IF @.group = "batch" THEN ToConflicts(@) ELSE ToOrphans(@)]

(* The journals that the scan can read: one it cannot is reported, and     *)
(* nothing is planned for it.                                              *)
JournalsRead == IF JournalReadFails THEN SUBSET Keys ELSE {Keys}

Inspect(c) ==
  /\ At(c, "ready")
  /\ \E seen \in PackagesSeen, read \in JournalsRead :
       proc' = [proc EXCEPT ![c] =
                  ToBatch([Fresh EXCEPT !.pc = "prepare",
                                        !.keys = read \cap ReplayCandidates(seen),
                                        !.conflicts = read \cap ConflictingJournals(seen),
                                        !.paths = OrphanDirs(seen)])]
  /\ UNCHANGED <<db, disk>>

(* prepare_journal_replay_targets reads every journal of the group into    *)
(* memory; one that cannot be read or replayed ends the command.  The      *)
(* batch is then confirmed as a whole.                                     *)
Prepare(c) ==
  LET replayable == \A k \in proc[c].keys : Replayable(journals[k])
  IN  /\ At(c, "prepare")
      /\ \/ replayable /\ proc[c].group = "batch" /\ NextGroup(c)
         \/ /\ replayable
            /\ proc' = [proc EXCEPT
                 ![c].pc = "replay", ![c].keys = {},
                 ![c].targets = {[pkg |-> k[1], ver |-> k[2],
                                  meta |-> FirstMeta(journals[k])] : k \in proc[c].keys}]
         \/ (~replayable \/ JournalReadFails) /\ Exit(c)
      /\ UNCHANGED <<db, disk>>

(* A conflicting journal is confirmed, or skipped, on its own.             *)
SkipConflict(c) ==
  /\ At(c, "replay") /\ proc[c].group = "conflict"
  /\ \E t \in proc[c].targets :
       IF proc[c].targets = {t} THEN NextGroup(c)
       ELSE proc' = [proc EXCEPT ![c].targets = @ \ {t}]
  /\ UNCHANGED <<db, disk>>

(* replay_committed_journal: delete the row, insert the journal's as ok,   *)
(* claim its commands, all in one transaction; an error ends the command.  *)
(* proc[c].cmds remembers the commands the package had before.             *)
Replay(c) ==
  /\ At(c, "replay")
  /\ \E t \in proc[c].targets :
       \/ /\ LockFree /\ ~Claimed(t.pkg, t.meta.cmds)
          /\ InsertRow(t.pkg, t.ver, t.meta.kind, "ok")
          /\ SyncCommands(t.pkg, t.meta.cmds)
          /\ \E cs \in CommandsRead(t.pkg) :
               proc' = [proc EXCEPT ![c].pc = "replay_shims", ![c].pkg = t.pkg,
                                    ![c].ver = t.ver, ![c].cmds = cs]
       \/ /\ WriteFails(c) \/ Claimed(t.pkg, t.meta.cmds)
          /\ Exit(c) /\ UNCHANGED <<rows, owner>>
  /\ UNCHANGED <<writer, disk>>

(* Publish the journal's shims and, only if that went well, remove those   *)
(* of the commands the package no longer has.                              *)
ReplayShims(c) ==
  /\ At(c, "replay_shims")
  /\ \E t \in proc[c].targets :
       LET want  == t.meta.cmds
           stale == proc[c].cmds \ want
       IN  /\ t.pkg = proc[c].pkg /\ t.ver = proc[c].ver
           /\ \/ shims' = [x \in Commands |-> IF x \in want THEN t.pkg
                                              ELSE IF x \in stale THEN None ELSE shims[x]]
              \/ "fs" \in Faults /\ \E done \in SUBSET want : WriteShims(done, t.pkg)
           /\ IF proc[c].targets = {t} THEN NextGroup(c)
              ELSE proc' = [proc EXCEPT ![c].pc = "replay", ![c].targets = @ \ {t}]
  /\ UNCHANGED <<db, dirs, journals>>

ConfirmOrphans(c) ==
  /\ At(c, "orphans")
  /\ \/ Exit(c)
     \/ Goto(c, "remove_orphans")
  /\ UNCHANGED <<db, disk>>

(* cleanup_orphan_install_dirs goes on after a failure.                    *)
RemoveOrphan(c) ==
  /\ At(c, "remove_orphans")
  /\ \E d \in proc[c].paths :
       /\ Cleanup(d) \/ CleanupFails(d)
       /\ IF proc[c].paths = {d} THEN Exit(c)
          ELSE proc' = [proc EXCEPT ![c].paths = @ \ {d}]
  /\ UNCHANGED <<db, journals, shims>>

RepairStep(c) ==
  \/ Inspect(c) \/ Prepare(c) \/ SkipConflict(c) \/ Replay(c) \/ ReplayShims(c)
  \/ ConfirmOrphans(c) \/ RemoveOrphan(c)
=============================================================================
