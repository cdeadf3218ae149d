--------------------------------- MODULE Drift ---------------------------------
(***************************************************************************)
(* What becomes of an installed package whose files go missing: the        *)
(* doctor's report on directories and MSI inventories (doctor/scan), the   *)
(* plan that repair makes of it (repair/plan.rs), and the groups orphan    *)
(* cleanup, file restore and reinstall (commands/repair.rs, restore.rs,    *)
(* resolution.rs).  Journal replay, which comes before them, is in Repair; *)
(* the steps of the remove and the install that a reinstall consists of    *)
(* are in Remove, Install and Payload, and each is one step here.          *)
(*                                                                         *)
(* A row and a directory go by the name of a package, which is all that    *)
(* repair knows of it; the catalog may have several entries of one name.   *)
(* The names here differ by more than the case of their letters.           *)
(***************************************************************************)
EXTENDS Naturals, FiniteSets

CONSTANTS
    Packages,      \* the names of packages
    Entries,       \* the packages of the catalog, by their ids
    Name,          \* [Entries -> Packages]
    Versions,      \* numbers, the catalog moves to higher ones
    Files,         \* the files of a package
    Engines,       \* [Entries -> SUBSET EngineKinds]: those of an entry's installers
    Elsewhere,     \* entries that publish an InstallLocation of their own
    Entered,       \* packages with an uninstall entry of their name
    Lookalikes,    \* [Packages -> SUBSET Entries]: what else a search by the name finds
    Withdrawable,  \* entries that may leave the catalog
    MaxChanges,    \* how often files are lost and the catalog changes
    Cut,           \* the content of a file whose copy was cut short
    None

EngineKinds == {"msi", "exe", "archive", "font"}

ASSUME DriftAssumption ==
    /\ Versions \subseteq Nat
    /\ Name \in [Entries -> Packages]
    /\ Engines \in [Entries -> SUBSET EngineKinds]
    /\ Elsewhere \subseteq Entries /\ Entered \subseteq Packages
    /\ Lookalikes \in [Packages -> SUBSET Entries]
    /\ Withdrawable \subseteq Entries
    /\ MaxChanges \in Nat

VARIABLES
    catalog,    \* the version that the catalog offers of an entry, or None
    row,        \* the installed row of a package, or None
    tree,       \* the files of a package under packages\ ("here") and elsewhere
    snapshot,   \* the packages with an MSI inventory
    job,        \* the repair that is running
    changes

store == <<catalog, row, tree, snapshot, changes>>
vars == <<store, job>>

Homes == {"here", "away"}
Contents == Entries \X Versions        \* a file of a version of an entry
Trees == {None} \union [Files -> Contents \union {Cut, None}]
Rows == [version : Versions, engine : EngineKinds, home : Homes]

EmptyTree == [f \in Files |-> None]
WholeTree(e, v) == [f \in Files |-> <<e, v>>]

\* Where an engine says it has installed: an MSI's InstallLocation wins over the
\* directory it was given, and a font's is the file among the user's fonts.
HomeOf(e, engine) ==
    IF engine = "font" \/ (engine = "msi" /\ e \in Elsewhere) THEN "away" ELSE "here"

\* The directory under packages\ is made by every engine but the font's.
TreesOf(e, v, engine) ==
    CASE HomeOf(e, engine) = "here" -> [here |-> WholeTree(e, v), away |-> None]
      [] engine = "font"            -> [here |-> None, away |-> WholeTree(e, v)]
      [] OTHER                      -> [here |-> EmptyTree, away |-> WholeTree(e, v)]

\* None stands for the absence of a version, a row, a file and a directory.
ASSUME NoneAssumption ==
    /\ None \notin Versions \union Contents
    /\ \A r \in Rows : r # None
    /\ None \notin [Files -> Contents \union {Cut, None}]

NewRow(e, v, engine) == [version |-> v, engine |-> engine, home |-> HomeOf(e, engine)]

--------------------------------------------------------------------------------
(* The doctor.                                                             *)

Installed == {p \in Packages : row[p] # None}

\* The metadata of the install directory; a font's is a file.  A program with an
\* uninstall entry of its name is not looked at.
DirectoryDrifts(p) ==
    /\ ~(row[p].engine = "exe" /\ p \in Entered)
    /\ row[p].engine = "font" \/ tree[p][row[p].home] = None

\* Inventories are made for the directory an MSI was given, and record no hash.
LostFiles(p) ==
    IF p \in Installed /\ row[p].engine = "msi" /\ p \in snapshot
    THEN {f \in Files : tree[p].here = None \/ tree[p].here[f] = None}
    ELSE {}

OrphanDirs == {p \in Packages \ Installed : tree[p].here # None}

\* What repair makes of the report: a package is known by the first component of
\* a path under packages\, and one whose files are restored is not reinstalled.
Restores == {p \in Installed : LostFiles(p) # {}}
Reinstalls == {p \in Installed : DirectoryDrifts(p) /\ row[p].home = "here"} \ Restores

--------------------------------------------------------------------------------
(* Repair.                                                                 *)

Modes == {"ask", "yes", "default_yes", "force"}
LowRisk == "orphans"

\* Mutant: -y stands for the user in every group.
ApprovedByYes(group) == job.mode \in {"force", "yes"}

\* A group that is pre-approved is not asked about.
Approved(group) ==
    job.mode = "force" \/ (group = LowRisk /\ job.mode \in {"yes", "default_yes"})

Idle == [state |-> "idle", mode |-> "ask", orphans |-> {}, restores |-> {},
         reinstalls |-> {}, reported |-> {}, lost |-> [p \in Packages |-> {}], target |-> None,
         pick |-> None, version |-> None, stage |-> None, left |-> {},
         agreed |-> FALSE, declined |-> FALSE]

\* The groups in their order, each package of a group in its turn.
Onwards(j) ==
    [j EXCEPT !.state = IF j.orphans # {} THEN "orphans"
                        ELSE IF j.restores # {} THEN "restores"
                        ELSE IF j.reinstalls # {} THEN "reinstalls" ELSE "done",
              !.target = None, !.pick = None, !.version = None, !.stage = None,
              !.left = {}, !.agreed = FALSE]

\* An error ends the command, whatever is left of the plan.
Failed(j) == [j EXCEPT !.state = "failed", !.stage = None]

StartRepair ==
    /\ job.state = "idle"
    /\ \E mode \in Modes :
         job' = Onwards([Idle EXCEPT !.mode = mode, !.orphans = OrphanDirs,
                                     !.restores = Restores, !.reinstalls = Reinstalls,
                                     !.reported = OrphanDirs \union Restores \union Reinstalls,
                                     !.lost = [p \in Packages |-> LostFiles(p)]])
    /\ UNCHANGED store

\* The prompts: approved in advance, or answered by the user; agreed is what the
\* user has said to this question, with --force to every one.
Ask(group, agree, decline) ==
    \/ Approved(group) /\ job.mode # "force" /\ job' = [agree EXCEPT !.agreed = FALSE]
    \/ (job.mode = "force" \/ ~Approved(group)) /\ job' = [agree EXCEPT !.agreed = TRUE]
    \/ ~Approved(group) /\ job' = decline

AskOrphans ==
    /\ job.state = "orphans"
    /\ Ask("orphans",
           [job EXCEPT !.state = "clean"],
           Onwards([job EXCEPT !.orphans = {}, !.declined = TRUE]))
    /\ UNCHANGED store

\* A directory that cannot be removed does not keep the others, but the command
\* ends after them.
CleanOrphan ==
    /\ job.state \in {"clean", "unclean"} /\ job.orphans # {}
    /\ \E p \in job.orphans :
         \/ tree' = [tree EXCEPT ![p].here = None] /\ job' = [job EXCEPT !.orphans = @ \ {p}]
         \/ UNCHANGED tree /\ job' = [job EXCEPT !.orphans = @ \ {p}, !.state = "unclean"]
    /\ UNCHANGED <<catalog, row, snapshot, changes>>

EndOrphans ==
    /\ job.state \in {"clean", "unclean"} /\ job.orphans = {}
    /\ job' = IF job.state = "clean" THEN Onwards(job) ELSE Failed(job)
    /\ UNCHANGED store

AskRestore ==
    /\ job.state = "restores"
    /\ \E p \in job.restores :
         Ask("restores",
             [job EXCEPT !.state = "resolve", !.target = p, !.restores = @ \ {p}],
             Onwards([job EXCEPT !.restores = @ \ {p}, !.declined = TRUE]))
    /\ UNCHANGED store

AskReinstall ==
    /\ job.state = "reinstalls"
    /\ \E p \in job.reinstalls :
         Ask("reinstalls",
             [job EXCEPT !.state = "find", !.target = p, !.reinstalls = @ \ {p}],
             Onwards([job EXCEPT !.reinstalls = @ \ {p}, !.declined = TRUE]))
    /\ UNCHANGED store

Own(p) == {e \in Entries : Name[e] = p}

\* A full-text search for the name.
Matches(p) == {e \in Own(p) \union Lookalikes[p] : catalog[e] # None}

\* Mutant: any match will do.
AnyMatch(p) == Matches(p)

\* The only match; of several, the best ranked one of the very name, which may be
\* any of these; where none has it, the one that the user chooses.
Resolutions(p) ==
    LET exact == Matches(p) \intersect Own(p)
    IN IF exact # {} THEN exact ELSE Matches(p)

FindReplacement ==
    /\ job.state = "find"
    /\ \/ \E e \in Resolutions(job.target) :
            job' = [job EXCEPT !.state = "uninstall", !.pick = e]
       \/ job' = Failed(job)      \* no match, or no catalog
    /\ UNCHANGED store

\* Mutant: the catalog's version is not compared with the installed one.
SameVersionOrNot(p, e) == TRUE

SameVersion(p, e) == catalog[e] = row[p].version

Replace(e) == [job EXCEPT !.state = "fallback", !.pick = e]
Restore(e) == [job EXCEPT !.state = "fetch", !.pick = e, !.version = catalog[e]]

\* Files are restored from an entry of the same version, whatever package it is,
\* else the entry replaces the package; and a font always does.
ResolveRestore ==
    /\ job.state = "resolve"
    /\ \/ /\ job.target \in Installed
          /\ \E e \in Resolutions(job.target) :
               \/ ~SameVersion(job.target, e) /\ job' = Replace(e)
               \/ /\ SameVersion(job.target, e)
                  /\ \E engine \in Engines[e] :
                       job' = IF engine = "font" THEN Replace(e) ELSE Restore(e)
       \/ job' = Failed(job)      \* no match, no catalog, or no installer for the host
    /\ UNCHANGED store

AskFallback ==
    /\ job.state = "fallback"
    /\ Ask("fallback",
           [job EXCEPT !.state = "uninstall"],
           Onwards([job EXCEPT !.declined = TRUE]))
    /\ UNCHANGED store

\* The payload is downloaded to a fresh workspace and installed in its stage
\* directory.  Windows Installer does nothing for a product it has installed.
StagePackage ==
    /\ job.state = "fetch"
    /\ \/ \E stage \in {WholeTree(job.pick, job.version), EmptyTree} :
            job' = [job EXCEPT !.state = "copy", !.stage = stage,
                               !.left = job.lost[job.target]]
       \/ job' = Failed(job)
    /\ UNCHANGED store

WithFile(p, f, content) ==
    [tree EXCEPT ![p].here = [(IF @ = None THEN EmptyTree ELSE @) EXCEPT ![f] = content]]

\* The reported paths are taken relative to the install directory of the row.
Restorable(f) == row[job.target].home = "here" /\ job.stage[f] # None

RestoreFile ==
    /\ job.state = "copy"
    /\ \E f \in job.left :
         /\ Restorable(f)
         /\ tree' = WithFile(job.target, f, job.stage[f])
         /\ job' = [job EXCEPT !.left = @ \ {f}]
    /\ UNCHANGED <<catalog, row, snapshot, changes>>

\* Mutant: a failed copy is tried again from a new download.
RestoreRetries ==
    /\ job.state = "copy" /\ job.left # {}
    /\ job' = [job EXCEPT !.state = "fetch", !.stage = None]
    /\ UNCHANGED store

\* The paths are copied in order; the first error ends the command.
RestoreFails ==
    /\ job.state = "copy" /\ job.left # {}
    /\ job' = Failed(job)
    /\ \/ UNCHANGED tree
       \/ \E f \in job.left : Restorable(f) /\ tree' = WithFile(job.target, f, Cut)
    /\ UNCHANGED <<catalog, row, snapshot, changes>>

\* Mutant: one restored file is enough.
EndRestoreEarly ==
    /\ job.state = "copy" /\ job.left # job.lost[job.target]
    /\ job' = Onwards(job)
    /\ UNCHANGED store

EndRestore ==
    /\ job.state = "copy" /\ job.left = {}
    /\ job' = Onwards(job)
    /\ UNCHANGED store

InventoryWithout(p) == snapshot \ {p}       \* ON DELETE CASCADE
InventoryWith(p) == snapshot \union {p}      \* its files as the package's database has them

\* remove::remove of the name that the picked entry has, if that is installed.
Uninstalled(p) == [tree EXCEPT ![p][row[p].home] = None]

Uninstall ==
    /\ job.state = "uninstall"
    /\ LET p == Name[job.pick]
       IN \/ /\ p \notin Installed
             /\ job' = [job EXCEPT !.state = "install"]
             /\ UNCHANGED <<row, tree, snapshot>>
          \/ /\ p \in Installed
             /\ row' = [row EXCEPT ![p] = None]
             /\ snapshot' = InventoryWithout(p)
             /\ tree' = Uninstalled(p) \/ (row[p].engine # "archive" /\ UNCHANGED tree)
             /\ job' = [job EXCEPT !.state = "install"]
          \/ /\ p \in Installed
             /\ tree' = Uninstalled(p) \/ UNCHANGED tree
             /\ job' = Failed(job)
             /\ UNCHANGED <<row, snapshot>>
    /\ UNCHANGED <<catalog, changes>>

\* install::run of the catalog id, which looks the package up once more.  The
\* commit replaces the inventory that an MSI had, with the row.
Reinstall ==
    /\ job.state = "install"
    /\ LET e == job.pick
           p == Name[e]
       IN \/ \E engine \in Engines[e] :
               /\ catalog[e] # None
               /\ row' = [row EXCEPT ![p] = NewRow(e, catalog[e], engine)]
               /\ tree' = [tree EXCEPT ![p] = TreesOf(e, catalog[e], engine)]
               /\ snapshot' = IF engine = "msi" THEN InventoryWith(p) ELSE InventoryWithout(p)
               /\ job' = Onwards(job)
          \/ /\ tree' = [tree EXCEPT ![p].here = None] \/ UNCHANGED tree
             /\ job' = Failed(job)
             /\ UNCHANGED <<row, snapshot>>
    /\ UNCHANGED <<catalog, changes>>

EndRepair ==
    /\ job.state \in {"done", "failed"}
    /\ job' = Idle
    /\ UNCHANGED store

RepairStep ==
    \/ AskOrphans \/ CleanOrphan \/ EndOrphans
    \/ AskRestore \/ ResolveRestore \/ AskFallback \/ StagePackage
    \/ RestoreFile \/ RestoreFails \/ EndRestore
    \/ AskReinstall \/ FindReplacement \/ Uninstall \/ Reinstall
    \/ EndRepair

--------------------------------------------------------------------------------
(* The world.                                                              *)

\* The process dies; what it has done to the disk and the database stays.
Killed ==
    /\ job.state \notin {"idle", "done", "failed"}
    /\ job' = Idle
    /\ \/ UNCHANGED tree
       \/ /\ job.state = "copy"
          /\ \E f \in job.left : Restorable(f) /\ tree' = WithFile(job.target, f, Cut)
    /\ UNCHANGED <<catalog, row, snapshot, changes>>

\* Files get lost while no repair is running.
LoseFiles ==
    /\ job.state = "idle" /\ changes < MaxChanges
    /\ changes' = changes + 1
    /\ \E p \in Installed :
         LET home == row[p].home
         IN /\ tree[p][home] # None
            /\ \/ tree' = [tree EXCEPT ![p][home] = None]
               \/ \E f \in Files : tree' = [tree EXCEPT ![p][home][f] = None]
    /\ UNCHANGED <<catalog, row, snapshot, job>>

\* The catalog is refreshed, at any time.
CatalogMoves ==
    /\ changes < MaxChanges
    /\ changes' = changes + 1
    /\ \E e \in Entries :
         \/ \E v \in Versions : catalog[e] # None /\ v > catalog[e]
                                /\ catalog' = [catalog EXCEPT ![e] = v]
         \/ e \in Withdrawable /\ catalog' = [catalog EXCEPT ![e] = None]
    /\ UNCHANGED <<row, tree, snapshot, job>>

\* Each package is installed and whole, from any entry of its name and at a version
\* that the catalog has or had, or it is not and may have left a directory.
Init ==
    /\ catalog \in [Entries -> Versions]
    /\ \E first \in [Packages -> {None} \union (Entries \X Versions \X EngineKinds)] :
         /\ \A p \in Packages : first[p] # None =>
              /\ first[p][1] \in Own(p) /\ first[p][2] <= catalog[first[p][1]]
              /\ first[p][3] \in Engines[first[p][1]]
         /\ row = [p \in Packages |->
                     IF first[p] = None THEN None
                     ELSE NewRow(first[p][1], first[p][2], first[p][3])]
         /\ \E stray \in SUBSET {p \in Packages : first[p] = None} :
              tree = [p \in Packages |->
                        IF first[p] # None THEN TreesOf(first[p][1], first[p][2], first[p][3])
                        ELSE [here |-> IF p \in stray THEN EmptyTree ELSE None, away |-> None]]
         /\ snapshot = {p \in Packages : first[p] # None /\ first[p][3] = "msi"}
    /\ job = Idle
    /\ changes = 0

Next == StartRepair \/ RepairStep \/ Killed \/ LoseFiles \/ CatalogMoves

Spec == Init /\ [][Next]_vars

\* The user answers, and every step of a running repair ends.
FairSpec == Spec /\ WF_vars(RepairStep)

--------------------------------------------------------------------------------
(* Properties.                                                             *)

\* The types of the variables; an inventory belongs to an installed package.
TypeOK ==
    /\ catalog \in [Entries -> Versions \union {None}]
    /\ row \in [Packages -> Rows \union {None}]
    /\ tree \in [Packages -> [Homes -> Trees]]
    /\ snapshot \subseteq Installed
    /\ changes \in 0..MaxChanges
    /\ job.mode \in Modes
    /\ job.orphans \subseteq Packages
    /\ job.restores \subseteq Packages /\ job.reinstalls \subseteq Packages
    /\ job.target \in Packages \union {None} /\ job.pick \in Entries \union {None}
    /\ job.stage \in Trees
    /\ job.left \subseteq Files

\* What a name may be taken for: the entries that have it, and what resembles it
\* only where all of these may be gone.
Candidates(p) == Own(p) \union (IF Own(p) \subseteq Withdrawable THEN Lookalikes[p] ELSE {})

\* What the files of an installed package may be.
Legitimate(p) == {None, Cut} \union (Candidates(p) \X {row[p].version})

\* Whatever repair copies or installs, a package has no file of another version than
\* its row says, and none of an entry that its name cannot be taken for; of several
\* entries that have the name it may get the files of any, even side by side
\* (resolve_catalog_package; resolve_file_restore_target compares the versions before
\* restore_target_files copies).
FilesAreTheirRows ==
    \A p \in Installed : \A home \in Homes :
        tree[p][home] # None =>
            \A f \in Files : tree[p][home][f] \in Legitimate(p)

\* The packages that the repair of the reported ones may reach.
Affected(reported) == reported \union {Name[e] : e \in UNION {Candidates(p) : p \in reported}}

\* Repair changes nothing of a package that its report did not name, but for one that
\* the name of a reported package may be taken for (build_repair_plan,
\* package_name_from_target_path, resolve_catalog_package, reinstall_package).
RepairsOnlyReported ==
    [][job.state # "idle" =>
         \A p \in Packages :
             row'[p] # row[p] \/ tree'[p] # tree[p] => p \in Affected(job.reported)]_vars

\* Files are restored and packages reinstalled only after the user said so to this
\* very question, or gave --force (confirm_group).
HighRiskNeedsConsent ==
    [][job.state \notin {"idle", "clean", "unclean"} /\ (row' # row \/ tree' # tree)
         => job.agreed]_vars

\* Packages that repair may come back to again and again: those that are installed
\* elsewhere, and those whose name can be taken for another, which repair then
\* reinstalls instead.
Incurable == {p \in Packages : \/ p \in Installed /\ row[p].home = "away"
                               \/ Candidates(p) # Own(p)}

\* A repair of which nothing was declined and nothing failed leaves nothing for the
\* next one to do, but for the incurable: which of several entries of one name it was
\* that the search ranked first makes no difference.
RepairHeals ==
    job.state = "done" /\ ~job.declined =>
        (OrphanDirs \union Restores \union Reinstalls) \subseteq Incurable

\* Every repair comes to an end, whatever the user answers and whatever fails.
EveryRepairEnds == (job.state # "idle") ~> (job.state = "idle")

\* docs/recovery-policy.md: core.default_yes does not approve what removes data.
DefaultYesRemovesNothing ==
    [][job.state # "idle" /\ job.mode = "default_yes" /\ tree' # tree => job.agreed]_vars
================================================================================
