----------------------------- MODULE SoloProofs -----------------------------
(***************************************************************************)
(* Theorems about Cli where one winbrew process runs at a time, for any    *)
(* packages, versions and commands, through every crash and failure: the   *)
(* index and the journals are the write-ahead log that recovery-policy.md  *)
(* describes.  With several processes these do not hold (README.md).       *)
(*                                                                         *)
(* The invariant says of each place in an install, a remove or a repair    *)
(* what the rows and journals of its packages are there (Plan).  From it   *)
(* follows what a step does to the index and to the journals (Kind).       *)
(*                                                                         *)
(* The last part adds files, shims and owners: where nothing fails, a      *)
(* package that no command is at work on is at rest (Settling).            *)
(***************************************************************************)
EXTENDS CliProofs

(* No second process runs meanwhile.                                       *)
Alone == \A c, d \in Procs : c = d

Status(c) == rows[proc[c].pkg].status

Plan(c) ==
  LET at == proc[c].pc
  IN  /\ at \in InstallLabels => Status(c) = "installing"
      /\ at = "drop_row" => Status(c) = "failed"
      /\ at \in {"stale_row", "stale_dir"} => proc[c].paths \subseteq Packages \X {"live"}
      /\ at = "stale_row" => \A d \in proc[c].paths : rows[d[1]].status = "installing"
      /\ at = "stale_dir" =>
           \A d \in proc[c].paths : d = Live(c) \/ rows[d[1]].status = "installing"
      /\ at \in {"remove_shims", "remove_journal"} => Status(c) = "absent"
      /\ at \in WriteLabels => journals[JournalKey(c)].exists
      /\ at = "commit" => EndsInCommit(journals[JournalKey(c)])
      /\ at \in {"replay", "replay_shims"} =>
           \A t \in proc[c].targets : Evidence(journals[<<t.pkg, t.ver>>])

Solo == Inv /\ JournalTrail /\ \A c \in Procs : Plan(c)

(* Outside these places there is nothing to show of the plan.              *)
Planning == InstallLabels \cup {"drop_row", "stale_row", "stale_dir", "remove_shims",
                                "remove_journal", "replay", "replay_shims"}

(* What a step does to the index and the journals: nothing that shows; a   *)
(* package withdrawn by its removal; one installed from what is on record; *)
(* a journal changed or deleted whose version is not installed.            *)
SameIndex(S) ==
  \A p \in Packages \ S :
    /\ Installed(p)' <=> Installed(p)
    /\ Installed(p) => rows'[p].ver = rows[p].ver

Kind(c) ==
  \/ UNCHANGED journals /\ SameIndex({})
  \/ /\ UNCHANGED journals /\ At(c, "delete_row")
     /\ SameIndex({proc[c].pkg}) /\ rows'[proc[c].pkg].status # "ok"
  \/ /\ UNCHANGED journals
     /\ \E p \in Packages :
          /\ SameIndex({p}) /\ Installed(p)' /\ rows'[p].ver \in Versions
          /\ Evidence(journals[<<p, rows'[p].ver>>])
  \/ /\ SameIndex({})
     /\ \E k \in Keys, g \in Files :
          /\ journals' = [journals EXCEPT ![k] = g]
          /\ ~(Installed(k[1]) /\ rows[k[1]].ver = k[2])
----------------------------------------------------------------------------
(* Journals.                                                               *)

(* What a commit has written ends in a Commit, whatever it was added to.   *)
LEMMA WrittenEnds ==
  ASSUME NEW f \in Files, NEW m \in Metas
  PROVE  EndsInCommit(Written(f, m))
<1>1. f.lines \in Seq(Lines) BY FileLines
<1>2. MetaLine(m) \in Lines /\ CommitLine \in Lines /\ BadLine \in Lines
  BY DEF Lines, MetaLine
<1> DEFINE s == <<MetaLine(m), CommitLine>>
<1>3. s \in Seq(Lines) /\ Len(s) = 2 /\ s[2] = CommitLine /\ Tail(s) = <<CommitLine>>
  BY <1>2
<1>4. CommitLine.tag = "commit" BY DEF CommitLine
<1> DEFINE a == IF f.ended THEN f.lines \o <<MetaLine(m)>>
                ELSE SubSeq(f.lines, 1, Len(f.lines) - 1) \o <<BadLine>>
<1>5. a \in Seq(Lines)
  <2>1. \A i \in 1 .. Len(f.lines) - 1 : f.lines[i] \in Lines BY <1>1
  <2>2. SubSeq(f.lines, 1, Len(f.lines) - 1) \in Seq(Lines) BY <1>1, <2>1, SubSeqProperties
  <2> QED BY <1>1, <1>2, <2>2
<1> DEFINE joined == IF f.ended THEN f.lines \o s
                     ELSE SubSeq(f.lines, 1, Len(f.lines) - 1) \o <<BadLine>> \o Tail(s)
<1>6. joined = a \o <<CommitLine>>
  <2>1. CASE f.ended
    <3>1. f.lines \o s = (f.lines \o <<MetaLine(m)>>) \o <<CommitLine>> BY <1>1, <1>2
    <3> QED BY <2>1, <3>1
  <2>2. CASE ~f.ended BY <1>3, <2>2
  <2> QED BY <2>1, <2>2
<1>7. Written(f, m).lines = IF f.utf8 THEN joined ELSE <<joined[Len(joined)]>>
  BY DEF Written, Extend
<1> HIDE DEF a, joined
<1>8. joined # <<>> /\ joined[Len(joined)] = CommitLine
  <2>1. Len(a \o <<CommitLine>>) = Len(a) + 1 /\ (a \o <<CommitLine>>)[Len(a) + 1] = CommitLine
    BY <1>2, <1>5
  <2> QED BY <1>5, <1>6, <2>1
<1>9. /\ <<joined[Len(joined)]>> # <<>> /\ Len(<<joined[Len(joined)]>>) = 1
      /\ <<joined[Len(joined)]>>[1] = joined[Len(joined)]
  OBVIOUS
<1> QED BY <1>4, <1>7, <1>8, <1>9 DEF EndsInCommit
----------------------------------------------------------------------------
(* Rows.                                                                   *)
LEMMA StatusFacts ==
  ASSUME TypeOK, NEW p \in Packages, NEW s, SetStatus(p, s)
  PROVE  /\ Present(p) => rows'[p].status = s /\ rows'[p].ver = rows[p].ver
         /\ ~Present(p) => rows'[p] = rows[p]
         /\ \A q \in Packages \ {p} : rows'[q] = rows[q]
<1>1. rows[p] \in Rows BY DEF TypeOK
<1>2. rows' = [rows EXCEPT ![p] = IF Present(p) THEN [rows[p] EXCEPT !.status = s] ELSE rows[p]]
  BY DEF SetStatus, TypeOK
<1>3. Present(p) => /\ [rows[p] EXCEPT !.status = s].status = s
                    /\ [rows[p] EXCEPT !.status = s].ver = rows[p].ver
  BY <1>1 DEF Rows, NoRow, Present
<1> QED BY <1>2, <1>3 DEF TypeOK

(* A row that is not installed before nor after makes no difference.       *)
LEMMA SilentRow ==
  ASSUME UNCHANGED journals, NEW c, NEW p, \A q \in Packages \ {p} : rows'[q] = rows[q],
         p \in Packages => ~Installed(p) /\ ~Installed(p)'
  PROVE  Kind(c)
  BY DEF Kind, SameIndex, Installed

LEMMA SilentStep ==
  ASSUME UNCHANGED <<rows, journals>>, NEW c
  PROVE  Kind(c)
  BY DEF Kind, SameIndex, Installed

LEMMA SilentStatus ==
  ASSUME TypeOK, NEW c \in Procs, NEW p \in Packages, ~Installed(p), UNCHANGED journals,
         \/ LockFree /\ SetStatus(p, "failed")
         \/ WriteFails(c) /\ UNCHANGED rows
  PROVE  Kind(c)
<1>1. CASE SetStatus(p, "failed")
  BY <1>1, StatusFacts, SilentRow DEF Installed
<1> QED BY <1>1, SilentStep
----------------------------------------------------------------------------
(* What each command does to the index and the journals.                   *)
LEMMA PlannedFacts ==
  ASSUME Inv, NEW c \in Procs, proc[c].pc \in PlannedLabels
  PROVE  proc[c].pkg \in Packages /\ proc[c].ver \in Versions
  BY DEF Inv, CommitIsExclusive, PlanIsSet

LEMMA StartupKind ==
  ASSUME Solo, NEW c \in Procs, StartupStep(c)
  PROVE  Kind(c)
<1>1. CASE Launch(c) \/ RemoveStaleDir(c)
  BY <1>1, SilentStep DEF Launch, RemoveStaleDir, db, disk
<1>2. CASE MarkStaleFailed(c)
  <2>1. PICK d \in proc[c].paths : \/ LockFree /\ SetStatus(d[1], "failed")
                                   \/ WriteFails(c) /\ UNCHANGED rows
    BY <1>2 DEF MarkStaleFailed
  <2>2. d[1] \in Packages /\ ~Installed(d[1])
    BY <1>2 DEF MarkStaleFailed, At, Solo, Plan, Installed
  <2> QED BY <1>2, <2>1, <2>2, SilentStatus DEF MarkStaleFailed, disk, Solo, Inv
<1> QED BY <1>1, <1>2 DEF StartupStep

LEMMA InstallKind ==
  ASSUME Solo, NEW c \in Procs, InstallStep(c)
  PROVE  Kind(c)
<1> DEFINE p == proc[c].pkg
<1>1. TypeOK /\ Plan(c) BY DEF Solo, Inv
<1>2. proc[c].pc \in PlannedLabels => p \in Packages BY PlannedFacts DEF Solo
<1>3. CASE \/ ResolveAndInspect(c) \/ ClearInstallDir(c) \/ Abandon(c) \/ BuildClientFails(c)
           \/ EngineInstalls(c) \/ InstallFails(c) \/ RollbackDir(c) \/ BeginCommit(c)
           \/ ReadCommands(c) \/ PublishShims(c)
  BY <1>3, SilentStep
     DEF ResolveAndInspect, ClearInstallDir, Abandon, BuildClientFails, EngineInstalls,
         InstallFails, RollbackDir, BeginCommit, ReadCommands, PublishShims, db, disk
<1>4. CASE DropFailedRow(c)
  <2>1. p \in Packages /\ rows[p].status = "failed" /\ UNCHANGED journals
    BY <1>1, <1>2, <1>4 DEF DropFailedRow, At, Plan, Status, PlannedLabels, disk
  <2>2. CASE DeleteRow(p)
    BY <1>1, <2>1, <2>2, SilentRow DEF DeleteRow, NoRow, Installed, TypeOK
  <2>3. CASE UNCHANGED rows BY <2>1, <2>3, SilentStep
  <2> QED BY <1>4, <2>2, <2>3 DEF DropFailedRow
<1>5. CASE MarkInstalling(c)
  <2>1. p \in Packages /\ UNCHANGED journals
    BY <1>2, <1>5 DEF MarkInstalling, At, PlannedLabels, disk
  <2>2. CASE ~Present(p) /\ InsertRow(p, proc[c].ver, proc[c].kind, "installing")
    BY <1>1, <2>1, <2>2, SilentRow DEF InsertRow, Present, Installed, TypeOK
  <2>3. CASE UNCHANGED rows BY <2>1, <2>3, SilentStep
  <2> QED BY <1>5, <2>2, <2>3 DEF MarkInstalling
<1>6. CASE ProbeAndReclassify(c)
  <2>1. p \in Packages /\ rows[p].status = "installing" /\ UNCHANGED journals
    BY <1>1, <1>2, <1>6
       DEF ProbeAndReclassify, At, Plan, Status, InstallLabels, PlannedLabels, disk
  <2>2. PICK k, r : /\ rows' = [rows EXCEPT ![p] = r]
                    /\ r \in {rows[p], [rows[p] EXCEPT !.kind = k]}
    BY <1>1, <1>6, <2>1 DEF ProbeAndReclassify, TypeOK
  <2>3. r.status = "installing" BY <1>1, <2>1, <2>2 DEF TypeOK, Rows, NoRow
  <2> QED BY <1>1, <2>1, <2>2, <2>3, SilentRow DEF Installed, TypeOK
<1>7. CASE RollbackRow(c) \/ MarkCommitFailed(c)
  <2>1. p \in Packages /\ ~Installed(p) /\ UNCHANGED journals
    BY <1>1, <1>2, <1>7
       DEF RollbackRow, MarkCommitFailed, At, Plan, Status, InstallLabels, PlannedLabels, disk,
           Installed
  <2> QED BY <1>1, <1>7, <2>1, SilentStatus DEF RollbackRow, MarkCommitFailed
<1>8. CASE OpenJournal(c) \/ WriteJournal(c)
  <2> DEFINE k == JournalKey(c)
             f == journals[k]
  <2>1. proc[c].pc \in TxLabels /\ UNCHANGED rows
    BY <1>8 DEF OpenJournal, WriteJournal, WriteLabels, At, TxLabels
  <2>2. k \in Keys /\ f \in Files /\ JournalMeta(c) \in Metas /\ JournalDebris(c) \subseteq Files
    BY <2>1, TxFacts DEF Solo
  <2>3. SameIndex({}) BY <2>1 DEF SameIndex, Installed
  <2>4. CASE UNCHANGED journals BY <2>1, <2>4, SilentStep
  <2>5. ASSUME NEW g \in Files, journals' = [journals EXCEPT ![k] = g]
        PROVE  Kind(c)
    <3>1. proc[c].pc \in InstallLabels
      BY <1>8 DEF OpenJournal, WriteJournal, WriteLabels, At, InstallLabels
    <3>2. k[1] = p /\ ~Installed(p) BY <1>1, <3>1 DEF Plan, Status, Installed, JournalKey
    <3> QED BY <2>2, <2>3, <2>5, <3>2 DEF Kind
  <2>6. CASE OpenJournal(c)
    <3>1. Opened(f) \in Files BY <2>2, OpenedType
    <3> QED BY <2>2, <2>4, <2>5, <2>6, <3>1 DEF OpenJournal
  <2>7. CASE WriteJournal(c)
    <3>2. Written(f, JournalMeta(c)) \in Files BY <2>2, WriteType
    <3>3. CASE journals' = [journals EXCEPT ![k] = IF f.exists THEN Written(f, JournalMeta(c)) ELSE f]
      BY <2>2, <2>5, <3>2, <3>3
    <3>4. CASE \E g \in JournalDebris(c) : journals' = [journals EXCEPT ![k] = g]
      BY <2>2, <2>5, <3>4
    <3> QED BY <1>1, <2>2, <2>7, <3>3, <3>4 DEF WriteJournal, TypeOK
  <2> QED BY <1>8, <2>6, <2>7
<1>9. CASE CommitTx(c)
  <2>1. proc[c].pc = "commit" /\ proc[c].pc \in TxLabels /\ UNCHANGED journals
    BY <1>9 DEF CommitTx, At, TxLabels, disk
  <2>2. p \in Packages /\ Present(p) /\ Evidence(journals[<<p, rows[p].ver>>])
        /\ rows[p].ver \in Versions
    BY <1>1, <2>1, TxFacts DEF Plan, JournalKey, Solo, Keys, Evidence
  <2>3. CASE SetStatus(p, "ok")
    <3>1. rows'[p].status = "ok" /\ rows'[p].ver = rows[p].ver
          /\ \A q \in Packages \ {p} : rows'[q] = rows[q]
      BY <1>1, <2>2, <2>3, StatusFacts
    <3> QED BY <2>1, <2>2, <3>1 DEF Kind, SameIndex, Installed
  <2>4. CASE UNCHANGED rows BY <2>1, <2>4, SilentStep
  <2> QED BY <1>9, <2>3, <2>4 DEF CommitTx
<1> QED BY <1>3, <1>4, <1>5, <1>6, <1>7, <1>8, <1>9 DEF InstallStep

LEMMA RemoveKind ==
  ASSUME Solo, NEW c \in Procs, RemoveStep(c)
  PROVE  Kind(c)
<1> DEFINE p == proc[c].pkg
<1>1. TypeOK /\ Plan(c) BY DEF Solo, Inv
<1>2. CASE \/ PlanRemoval(c) \/ DeclineRemoval(c) \/ StartRemoval(c) \/ StageForRemoval(c)
           \/ Uninstall(c) \/ DeleteRemovedRowFails(c) \/ RemoveShims(c) \/ RemoveTrash(c)
  BY <1>2, SilentStep
     DEF PlanRemoval, DeclineRemoval, StartRemoval, StageForRemoval, Uninstall,
         DeleteRemovedRowFails, RemoveShims, RemoveTrash, db, disk
<1>3. CASE DeleteRemovedRow(c)
  <2>1. At(c, "delete_row") /\ DeleteRow(p) /\ UNCHANGED journals
    BY <1>3 DEF DeleteRemovedRow, disk
  <2>2. p \in Packages BY <2>1, PlannedFacts DEF At, PlannedLabels, Solo
  <2>3. rows'[p].status = "absent" /\ \A q \in Packages \ {p} : rows'[q] = rows[q]
    BY <1>1, <2>1, <2>2 DEF DeleteRow, NoRow, TypeOK
  <2> QED BY <2>1, <2>2, <2>3 DEF Kind, SameIndex, Installed
<1>4. CASE RemoveJournal(c)
  <2>1. /\ proc[c].pc = "remove_journal" /\ UNCHANGED rows
        /\ \/ journals' = [journals EXCEPT ![<<p, proc[c].ver>>] = NoFile]
           \/ UNCHANGED journals
    BY <1>4 DEF RemoveJournal, At, db
  <2>2. <<p, proc[c].ver>> \in Keys /\ ~Installed(p)
    BY <1>1, <2>1, PlannedFacts DEF PlannedLabels, Solo, Keys, Plan, Status, Installed
  <2>3. PICK k \in Keys : k = <<p, proc[c].ver>> /\ k[1] = p
    BY <2>2
  <2>4. SameIndex({}) BY <2>1 DEF SameIndex, Installed
  <2>5. CASE journals' = [journals EXCEPT ![k] = NoFile]
    <3>1. ~(Installed(k[1]) /\ rows[k[1]].ver = k[2]) BY <2>2, <2>3
    <3>2. NoFile \in Files BY DEF Files
    <3> QED BY <2>4, <2>5, <3>1, <3>2 DEF Kind
  <2>6. CASE UNCHANGED journals BY <2>1, <2>6, SilentStep
  <2> QED BY <2>1, <2>3, <2>5, <2>6
<1> QED BY <1>2, <1>3, <1>4 DEF RemoveStep

(* A replayed journal is one that was read as committed.                   *)
LEMMA RepairKind ==
  ASSUME Solo, NEW c \in Procs, RepairStep(c)
  PROVE  Kind(c)
<1>1. TypeOK /\ Plan(c) BY DEF Solo, Inv
<1>2. CASE \/ Inspect(c) \/ Prepare(c) \/ SkipConflict(c) \/ ReplayShims(c)
           \/ ConfirmOrphans(c) \/ RemoveOrphan(c)
  BY <1>2, SilentStep
     DEF Inspect, Prepare, SkipConflict, ReplayShims, ConfirmOrphans, RemoveOrphan, db, disk
<1>3. CASE Replay(c)
  <2>1. PICK t \in proc[c].targets : \/ InsertRow(t.pkg, t.ver, t.meta.kind, "ok")
                                     \/ UNCHANGED rows
    BY <1>3 DEF Replay
  <2>2. t \in Targets /\ UNCHANGED journals
    BY <1>1, <1>3 DEF TypeOK, Locals, Replay, disk
  <2>3. t.pkg \in Packages /\ t.ver \in Versions /\ Evidence(journals[<<t.pkg, t.ver>>])
    BY <1>1, <1>3, <2>2 DEF Targets, Plan, Replay, At
  <2>4. CASE InsertRow(t.pkg, t.ver, t.meta.kind, "ok")
    <3>1. rows'[t.pkg].status = "ok" /\ rows'[t.pkg].ver = t.ver
          /\ \A q \in Packages \ {t.pkg} : rows'[q] = rows[q]
      BY <1>1, <2>3, <2>4 DEF InsertRow, TypeOK
    <3> QED BY <2>2, <2>3, <3>1 DEF Kind, SameIndex, Installed
  <2> QED BY <2>1, <2>2, <2>4, SilentStep
<1> QED BY <1>2, <1>3 DEF RepairStep

LEMMA CrashKind ==
  ASSUME Solo, NEW c \in Procs, Crash(c)
  PROVE  Kind(c)
<1>1. UNCHANGED rows BY DEF Crash
<1>2. SameIndex({}) BY <1>1 DEF SameIndex, Installed
<1>3. CASE proc[c].pc \in WriteLabels
  <2>1. PICK g \in JournalDebris(c) : journals' = [journals EXCEPT ![JournalKey(c)] = g]
    BY <1>3 DEF Crash
  <2>2. JournalKey(c) \in Keys /\ JournalDebris(c) \subseteq Files
    BY <1>3, TxFacts DEF WriteLabels, TxLabels, Solo
  <2>3. ~Installed(JournalKey(c)[1])
    BY <1>3 DEF Solo, Plan, Status, Installed, JournalKey, WriteLabels, InstallLabels
  <2> QED BY <1>2, <2>1, <2>2, <2>3 DEF Kind
<1>4. CASE proc[c].pc \notin WriteLabels
  BY <1>1, <1>4, SilentStep DEF Crash
<1> QED BY <1>3, <1>4

LEMMA StepKind ==
  ASSUME Solo, Next
  PROVE  \E c \in Procs : Kind(c)
  BY StartupKind, InstallKind, RemoveKind, RepairKind, CrashKind DEF Next, Step
----------------------------------------------------------------------------
(* What is installed stays on record.                                      *)
LEMMA KindKeepsTrail ==
  ASSUME Solo, NEW c \in Procs, Kind(c)
  PROVE  JournalTrail'
<1> SUFFICES ASSUME NEW p \in Packages, Installed(p)'
             PROVE  Evidence(journals'[<<p, rows'[p].ver>>])
  BY DEF JournalTrail
<1>1. ASSUME NEW q \in Packages, Installed(q)
      PROVE  Evidence(journals[<<q, rows[q].ver>>]) /\ <<q, rows[q].ver>> \in Keys
  <2>1. rows[q] \in Rows /\ rows[q].status = "ok" BY <1>1 DEF Solo, Inv, TypeOK, Installed
  <2>2. rows[q].ver \in Versions BY <2>1 DEF Rows, NoRow
  <2> QED BY <1>1, <2>2 DEF Solo, JournalTrail, Keys
<1>2. ASSUME SameIndex({}) PROVE Installed(p) /\ rows'[p].ver = rows[p].ver
  BY <1>2 DEF SameIndex
<1>3. CASE UNCHANGED journals /\ SameIndex({})
  BY <1>1, <1>2, <1>3
<1>4. CASE /\ UNCHANGED journals
           /\ SameIndex({proc[c].pkg}) /\ rows'[proc[c].pkg].status # "ok"
  <2>1. p # proc[c].pkg BY <1>4 DEF Installed
  <2> QED BY <1>1, <1>4, <2>1 DEF SameIndex
<1>5. CASE /\ UNCHANGED journals
           /\ \E q \in Packages :
                /\ SameIndex({q}) /\ Installed(q)'
                /\ Evidence(journals[<<q, rows'[q].ver>>])
  BY <1>1, <1>5 DEF SameIndex
<1>6. ASSUME SameIndex({}), NEW k \in Keys, NEW g \in Files,
             journals' = [journals EXCEPT ![k] = g],
             ~(Installed(k[1]) /\ rows[k[1]].ver = k[2])
      PROVE  Evidence(journals'[<<p, rows'[p].ver>>])
  <2>1. k # <<p, rows[p].ver>> BY <1>2, <1>6
  <2> QED BY <1>1, <1>2, <1>6, <2>1 DEF Solo, Inv, TypeOK
<1> QED BY <1>3, <1>4, <1>5, <1>6 DEF Kind
----------------------------------------------------------------------------
(* Where a step leads: to a place that fits its plan, and out of startup.  *)
Onward(c) == Plan(c)' /\ proc'[c].pc \notin {"stale_row", "stale_dir"}

LEMMA PlanElsewhere ==
  ASSUME NEW c, proc'[c].pc \notin Planning
  PROVE  Onward(c)
  BY DEF Onward, Plan, Planning, InstallLabels, WriteLabels

LEMMA PlanExit ==
  ASSUME TypeOK, NEW c \in Procs, Exit(c)
  PROVE  Onward(c)
<1>1. proc'[c].pc = "idle" BY ExitFacts DEF TypeOK
<1> QED BY <1>1, PlanElsewhere DEF Planning, InstallLabels

LEMMA PlanGoto ==
  ASSUME TypeOK, NEW c \in Procs, NEW label \in Labels \ Planning, Goto(c, label)
  PROVE  Onward(c)
<1>1. proc'[c].pc = label BY GotoFacts DEF TypeOK
<1> QED BY <1>1, PlanElsewhere

(* An install that goes on finds its row Installing.                       *)
LEMMA PlanInstalling ==
  ASSUME TypeOK, NEW c \in Procs, NEW label \in Labels \cap InstallLabels, Goto(c, label),
         rows'[proc[c].pkg].status = "installing",
         label \in WriteLabels => journals'[<<proc[c].pkg, rows'[proc[c].pkg].ver>>].exists,
         label = "commit" => EndsInCommit(journals'[<<proc[c].pkg, rows'[proc[c].pkg].ver>>])
  PROVE  Onward(c)
<1>1. proc'[c].pc = label /\ proc'[c].pkg = proc[c].pkg BY GotoFacts DEF TypeOK
<1>2. JournalKey(c)' = <<proc[c].pkg, rows'[proc[c].pkg].ver>> BY <1>1 DEF JournalKey
<1>3. Status(c)' = "installing" BY <1>1 DEF Status
<1> QED BY <1>1, <1>2, <1>3 DEF Onward, Plan, InstallLabels, WriteLabels

LEMMA StartupPlan ==
  ASSUME Solo, NEW c \in Procs, StartupStep(c)
  PROVE  Plan(c)'
<1>1. TypeOK /\ Plan(c) /\ proc \in [Procs -> Locals] /\ proc[c] \in Locals
  BY DEF Solo, Inv, TypeOK
<1>2. CASE Launch(c)
  <2>1. rows' = rows BY <1>2 DEF Launch, db
  <2>2. proc' = [proc EXCEPT ![c] = [proc[c] EXCEPT
                   !.pc = IF InstallingRows = {} THEN "ready" ELSE "stale_row",
                   !.paths = InstallingRows \X {"live"}]]
    BY <1>1, <1>2 DEF Launch
  <2>3. PICK to \in {"ready", "stale_row"} :
          proc'[c] = [proc[c] EXCEPT !.pc = to, !.paths = InstallingRows \X {"live"}]
    BY <1>1, <2>2
  <2>4. proc'[c].pc = to /\ proc'[c].paths = InstallingRows \X {"live"}
    BY <1>1, <2>3 DEF Locals
  <2>5. CASE to = "ready" BY <2>4, <2>5, PlanElsewhere DEF Onward, Planning, InstallLabels
  <2>6. CASE to = "stale_row"
    <3>1. InstallingRows \X {"live"} \subseteq Packages \X {"live"} BY DEF InstallingRows
    <3>2. \A d \in InstallingRows \X {"live"} : rows[d[1]].status = "installing"
      BY DEF InstallingRows
    <3> QED BY <2>1, <2>4, <2>6, <3>1, <3>2 DEF Plan, InstallLabels, WriteLabels
  <2> QED BY <2>5, <2>6
<1>3. CASE MarkStaleFailed(c)
  <2>1. PICK d \in proc[c].paths :
          /\ \/ LockFree /\ SetStatus(d[1], "failed")
             \/ WriteFails(c) /\ UNCHANGED rows
          /\ proc' = [proc EXCEPT ![c].pc = "stale_dir", ![c].pkg = d[1]]
    BY <1>3 DEF MarkStaleFailed
  <2>2. proc[c].pc = "stale_row" BY <1>3 DEF MarkStaleFailed, At
  <2>3. /\ proc[c].paths \subseteq Packages \X {"live"}
        /\ \A e \in proc[c].paths : rows[e[1]].status = "installing"
    BY <1>1, <2>2 DEF Plan
  <2>4. proc' = [proc EXCEPT ![c] = [proc[c] EXCEPT !.pc = "stale_dir", !.pkg = d[1]]]
    BY <1>1, <2>1
  <2>5. proc'[c].pc = "stale_dir" /\ proc'[c].pkg = d[1] /\ proc'[c].paths = proc[c].paths
    BY <1>1, <2>4 DEF Locals
  <2>6. \A q \in Packages \ {d[1]} : rows'[q] = rows[q]
    BY <1>1, <2>1, <2>3, StatusFacts
  <2>7. Live(c)' = <<d[1], "live">> BY <2>5 DEF Live
  <2>8. ASSUME NEW e \in proc[c].paths, e # <<d[1], "live">>
        PROVE  rows'[e[1]].status = "installing"
    <3>1. e[1] \in Packages \ {d[1]} BY <2>3, <2>8
    <3> QED BY <2>3, <2>6, <3>1
  <2> QED BY <2>3, <2>5, <2>7, <2>8 DEF Plan, InstallLabels, WriteLabels
<1>4. CASE RemoveStaleDir(c)
  <2> DEFINE rest == proc[c].paths \ {Live(c)}
  <2>1. proc[c].pc = "stale_dir" /\ rows' = rows BY <1>4 DEF RemoveStaleDir, At, db
  <2>2. /\ rest \subseteq Packages \X {"live"}
        /\ \A d \in rest : rows[d[1]].status = "installing"
    BY <1>1, <2>1 DEF Plan
  <2>3. proc' = [proc EXCEPT ![c] = [proc[c] EXCEPT
                   !.pc = IF rest = {} THEN "ready" ELSE "stale_row",
                   !.paths = rest, !.pkg = None]]
    BY <1>1, <1>4 DEF RemoveStaleDir
  <2>4. PICK to \in {"ready", "stale_row"} :
          proc'[c] = [proc[c] EXCEPT !.pc = to, !.paths = rest, !.pkg = None]
    BY <1>1, <2>3
  <2>5. proc'[c].pc = to /\ proc'[c].paths = rest BY <1>1, <2>4 DEF Locals
  <2> HIDE DEF rest
  <2> QED BY <2>1, <2>2, <2>5 DEF Plan, InstallLabels, WriteLabels
<1> QED BY <1>2, <1>3, <1>4 DEF StartupStep

LEMMA InstallPlan ==
  ASSUME Solo, NEW c \in Procs, InstallStep(c)
  PROVE  Onward(c)
<1> DEFINE p == proc[c].pkg
           k == JournalKey(c)
<1>1. TypeOK /\ Plan(c) /\ proc \in [Procs -> Locals] /\ proc[c] \in Locals
  BY DEF Solo, Inv, TypeOK
<1>2. proc[c].pc \in PlannedLabels => p \in Packages /\ proc[c].ver \in Versions
  BY PlannedFacts DEF Solo
<1>3. CASE Exit(c) BY <1>1, <1>3, PlanExit
<1>4. ASSUME NEW l \in {"clear_dir", "mark", "rollback_dir", "read_commands"}, Goto(c, l)
      PROVE  Onward(c)
  BY <1>1, <1>4, PlanGoto DEF Planning, InstallLabels, Labels
<1>5. CASE ResolveAndInspect(c) /\ ~Exit(c)
  <2>1. PICK q \in Keys, b \in BOOLEAN, next \in {"drop_row", "clear_dir", "mark"} :
          /\ next = "drop_row" => rows[q[1]].status = "failed"
          /\ proc' = [proc EXCEPT ![c].pc = next, ![c].pkg = q[1], ![c].ver = q[2],
                                  ![c].kind = Manifest[q[1]],
                                  ![c].cmds = Exposes[q], ![c].blocked = b]
    <3>1. PICK q \in Keys :
            LET status  == rows[q[1]].status
                blocked == Claimed(q[1], Exposes[q])
                next    == IF status = "failed" THEN "drop_row"
                           ELSE IF dirs[<<q[1], "live">>] # None THEN "clear_dir"
                           ELSE "mark"
            IN  proc' = [proc EXCEPT ![c].pc = next, ![c].pkg = q[1], ![c].ver = q[2],
                                     ![c].kind = Manifest[q[1]],
                                     ![c].cmds = Exposes[q], ![c].blocked = blocked]
      BY <1>5 DEF ResolveAndInspect
    <3>2. Claimed(q[1], Exposes[q]) \in BOOLEAN BY DEF Claimed
    <3> QED BY <3>1, <3>2
  <2>2. proc' = [proc EXCEPT ![c] = [proc[c] EXCEPT
                   !.pc = next, !.pkg = q[1], !.ver = q[2], !.kind = Manifest[q[1]],
                   !.cmds = Exposes[q], !.blocked = b]]
    BY <1>1, <2>1
  <2>3. proc'[c].pc = next /\ proc'[c].pkg = q[1] BY <1>1, <2>2 DEF Locals
  <2>4. rows' = rows BY <1>5 DEF ResolveAndInspect, db
  <2>5. CASE next = "drop_row"
    BY <2>1, <2>3, <2>4, <2>5 DEF Onward, Plan, Status, InstallLabels, WriteLabels
  <2>6. CASE next # "drop_row"
    BY <2>3, <2>6, PlanElsewhere DEF Planning, InstallLabels
  <2> QED BY <2>5, <2>6
<1>6. CASE DropFailedRow(c) \/ ClearInstallDir(c) \/ Abandon(c) \/ BuildClientFails(c)
           \/ RollbackRow(c) \/ RollbackDir(c) \/ MarkCommitFailed(c) \/ PublishShims(c)
  BY <1>3, <1>4, <1>6
     DEF DropFailedRow, ClearInstallDir, Abandon, BuildClientFails, RollbackRow, RollbackDir,
         MarkCommitFailed, PublishShims
<1>7. CASE MarkInstalling(c)
  <2>1. p \in Packages BY <1>2, <1>7 DEF MarkInstalling, At, PlannedLabels
  <2>2. CASE InsertRow(p, proc[c].ver, proc[c].kind, "installing") /\ Goto(c, "download")
    <3>1. rows'[p].status = "installing" BY <1>1, <2>1, <2>2 DEF InsertRow, TypeOK
    <3> QED BY <1>1, <2>2, <3>1, PlanInstalling DEF InstallLabels, WriteLabels, Labels
  <2> QED BY <1>3, <1>7, <2>2 DEF MarkInstalling
<1>8. ASSUME proc[c].pc \in InstallLabels
      PROVE  rows[p].status = "installing" /\ p \in Packages
  BY <1>1, <1>2, <1>8 DEF Onward, Plan, Status, InstallLabels, PlannedLabels
<1>9. ASSUME proc[c].pc \in InstallLabels, rows' = rows,
             NEW l \in {"rollback_row", "begin", "open", "commit_failed"}, Goto(c, l)
      PROVE  Onward(c)
  BY <1>1, <1>8, <1>9, PlanInstalling DEF InstallLabels, WriteLabels, Labels
<1>10. CASE ProbeAndReclassify(c)
  <2>1. proc[c].pc \in InstallLabels BY <1>10 DEF ProbeAndReclassify, At, InstallLabels
  <2>2. rows[p] \in Rows /\ rows[p].status = "installing" BY <1>1, <1>8, <2>1 DEF TypeOK
  <2>3. CASE Goto(c, "rollback_row") /\ UNCHANGED rows
    BY <1>9, <2>1, <2>3
  <2>4. CASE ~(Goto(c, "rollback_row") /\ UNCHANGED rows)
    <3>1. PICK e :
            /\ rows' = [rows EXCEPT ![p] = IF e # proc[c].kind /\ @.status # "absent"
                                           THEN [@ EXCEPT !.kind = e] ELSE @]
            /\ proc' = [proc EXCEPT ![c].pc = "engine", ![c].kind = e]
      BY <1>10, <2>4 DEF ProbeAndReclassify
    <3>2. [rows[p] EXCEPT !.kind = e].status = "installing" BY <2>2 DEF Rows, NoRow
    <3>3. rows'[p].status = "installing" BY <1>1, <1>8, <2>1, <2>2, <3>1, <3>2 DEF TypeOK
    <3>4. proc' = [proc EXCEPT ![c] = [proc[c] EXCEPT !.pc = "engine", !.kind = e]]
      BY <1>1, <3>1
    <3>5. proc'[c].pc = "engine" /\ proc'[c].pkg = p BY <1>1, <3>4 DEF Locals
    <3> QED BY <3>3, <3>5 DEF Onward, Plan, Status, InstallLabels, WriteLabels
  <2> QED BY <2>3, <2>4
<1>11. CASE EngineInstalls(c) \/ InstallFails(c)
  <2>1. proc[c].pc \in InstallLabels /\ rows' = rows
    BY <1>11 DEF EngineInstalls, InstallFails, At, InstallLabels, db
  <2> QED BY <1>9, <1>11, <2>1 DEF EngineInstalls, InstallFails
<1>12. CASE BeginCommit(c)
  <2>1. proc[c].pc \in InstallLabels /\ rows' = rows
    BY <1>12 DEF BeginCommit, At, InstallLabels
  <2> QED BY <1>9, <1>12, <2>1 DEF BeginCommit
<1>13. ASSUME proc[c].pc \in InstallLabels, rows' = rows, AbortTx(c)
       PROVE  Onward(c)
  BY <1>9, <1>13 DEF AbortTx
<1>14. CASE OpenJournal(c) \/ WriteJournal(c)
  <2>1. proc[c].pc \in InstallLabels /\ proc[c].pc \in TxLabels /\ rows' = rows
    BY <1>14 DEF OpenJournal, WriteJournal, WriteLabels, At, InstallLabels, TxLabels
  <2>2. k \in Keys /\ journals[k] \in Files /\ JournalMeta(c) \in Metas
    BY <2>1, TxFacts DEF Solo
  <2>3. CASE AbortTx(c) BY <1>13, <2>1, <2>3
  <2>4. CASE /\ journals' = [journals EXCEPT ![k] = Opened(journals[k])]
             /\ Goto(c, "journal")
    <3>1. Opened(journals[k]).exists BY DEF Opened, EmptyFile
    <3>2. journals'[<<p, rows'[p].ver>>].exists
      BY <1>1, <2>1, <2>2, <2>4, <3>1 DEF JournalKey, TypeOK
    <3> QED BY <1>1, <1>8, <2>1, <2>4, <3>2, PlanInstalling DEF InstallLabels, Labels
  <2>6. CASE journals[k].exists /\ Goto(c, "blind") /\ UNCHANGED journals
    <3>1. journals'[<<p, rows'[p].ver>>].exists BY <2>1, <2>6 DEF JournalKey
    <3> QED BY <1>1, <1>8, <2>1, <2>6, <3>1, PlanInstalling DEF InstallLabels, Labels
  <2>5. CASE /\ WriteJournal(c)
             /\ journals' = [journals EXCEPT ![k] = IF @.exists THEN Written(@, JournalMeta(c)) ELSE @]
             /\ Goto(c, "commit")
    <3>1. journals[k].exists BY <1>1, <2>5 DEF WriteJournal, Plan
    <3>2. EndsInCommit(Written(journals[k], JournalMeta(c))) BY <2>2, WrittenEnds
    <3>3. EndsInCommit(journals'[<<p, rows'[p].ver>>])
      BY <1>1, <2>1, <2>2, <2>5, <3>1, <3>2 DEF JournalKey, TypeOK
    <3> QED BY <1>1, <1>8, <2>1, <2>5, <3>3, PlanInstalling
            DEF InstallLabels, WriteLabels, Labels
  <2> QED BY <1>14, <2>3, <2>4, <2>5, <2>6 DEF OpenJournal, WriteJournal
<1>15. CASE CommitTx(c)
  <2>1. proc[c].pc \in InstallLabels BY <1>15 DEF CommitTx, At, InstallLabels
  <2> QED BY <1>4, <1>13, <1>15, <2>1 DEF CommitTx
<1>16. CASE ReadCommands(c) /\ ~Exit(c)
  <2>1. proc' = [proc EXCEPT ![c].pc = "write_shims", ![c].cmds = Owned(proc[c].pkg)]
    BY <1>16 DEF ReadCommands
  <2>2. proc' = [proc EXCEPT ![c] = [proc[c] EXCEPT
                   !.pc = "write_shims", !.cmds = Owned(proc[c].pkg)]]
    BY <1>1, <2>1
  <2>3. proc'[c].pc = "write_shims" BY <1>1, <2>2 DEF Locals
  <2> QED BY <2>3, PlanElsewhere DEF Planning, InstallLabels
<1> QED BY <1>3, <1>5, <1>6, <1>7, <1>10, <1>11, <1>12, <1>14, <1>15, <1>16 DEF InstallStep

LEMMA RemovePlan ==
  ASSUME Solo, NEW c \in Procs, RemoveStep(c)
  PROVE  Onward(c)
<1> DEFINE p == proc[c].pkg
<1>1. TypeOK /\ Plan(c) /\ proc \in [Procs -> Locals] /\ proc[c] \in Locals
  BY DEF Solo, Inv, TypeOK
<1>2. CASE Exit(c) BY <1>1, <1>2, PlanExit
<1>3. ASSUME NEW l \in {"delete_row", "remove_trash"}, Goto(c, l)
      PROVE  Onward(c)
  BY <1>1, <1>3, PlanGoto DEF Planning, InstallLabels, Labels
<1>4. ASSUME NEW l \in Labels \ Planning, proc'[c].pc = l PROVE Onward(c)
  BY <1>4, PlanElsewhere
<1>5. CASE PlanRemoval(c)
  <2>1. PICK q : proc' = [proc EXCEPT ![c].pc = "confirm", ![c].pkg = q,
                                      ![c].ver = rows[q].ver, ![c].kind = rows[q].kind]
    BY <1>5 DEF PlanRemoval
  <2>2. proc' = [proc EXCEPT ![c] = [proc[c] EXCEPT
                   !.pc = "confirm", !.pkg = q, !.ver = rows[q].ver, !.kind = rows[q].kind]]
    BY <1>1, <2>1
  <2>3. proc'[c].pc = "confirm" BY <1>1, <2>2 DEF Locals
  <2> QED BY <1>4, <2>3 DEF Planning, InstallLabels, Labels
<1>6. CASE StartRemoval(c)
  <2>1. PICK cs \in CommandsRead(p), l \in {"uninstall", "stage", "delete_row"} :
          proc' = [proc EXCEPT ![c].cmds = cs, ![c].pc = l]
    BY <1>6 DEF StartRemoval
  <2>2. proc' = [proc EXCEPT ![c] = [proc[c] EXCEPT !.cmds = cs, !.pc = l]] BY <1>1, <2>1
  <2>3. proc'[c].pc = l BY <1>1, <2>2 DEF Locals
  <2> QED BY <1>4, <2>3 DEF Planning, InstallLabels, Labels
<1>7. CASE StageForRemoval(c) /\ ~Exit(c)
  <2>1. proc' = [proc EXCEPT ![c].pc = "delete_row", ![c].paths = {Trash(c)}]
    BY <1>7 DEF StageForRemoval
  <2>2. proc' = [proc EXCEPT ![c] = [proc[c] EXCEPT !.pc = "delete_row", !.paths = {Trash(c)}]]
    BY <1>1, <2>1
  <2>3. proc'[c].pc = "delete_row" BY <1>1, <2>2 DEF Locals
  <2> QED BY <1>4, <2>3 DEF Planning, InstallLabels, Labels
<1>8. CASE \/ DeclineRemoval(c) \/ Uninstall(c) \/ DeleteRemovedRowFails(c)
           \/ RemoveJournal(c) \/ RemoveTrash(c)
  BY <1>2, <1>3, <1>8
     DEF DeclineRemoval, Uninstall, DeleteRemovedRowFails, RemoveJournal, RemoveTrash
<1>9. ASSUME NEW l \in {"remove_shims", "remove_journal"}, Goto(c, l),
             rows'[p].status = "absent"
      PROVE  Onward(c)
  <2>1. proc'[c].pc = l /\ proc'[c].pkg = p BY <1>1, <1>9, GotoFacts DEF Labels
  <2> QED BY <1>9, <2>1 DEF Onward, Plan, Status, InstallLabels, WriteLabels
<1>10. CASE DeleteRemovedRow(c)
  <2>1. p \in Packages BY <1>10, PlannedFacts DEF DeleteRemovedRow, At, PlannedLabels, Solo
  <2>2. rows'[p].status = "absent"
    BY <1>1, <1>10, <2>1 DEF DeleteRemovedRow, DeleteRow, NoRow, TypeOK
  <2> QED BY <1>9, <1>10, <2>2 DEF DeleteRemovedRow
<1>11. CASE RemoveShims(c)
  <2>1. rows'[p].status = "absent" BY <1>1, <1>11 DEF RemoveShims, At, Plan, Status, db
  <2> QED BY <1>9, <1>11, <2>1 DEF RemoveShims
<1> QED BY <1>2, <1>5, <1>6, <1>7, <1>8, <1>10, <1>11 DEF RemoveStep

(* The next group starts with nothing in memory.                           *)
LEMMA PlanNextGroup ==
  ASSUME TypeOK, NEW c \in Procs, NextGroup(c)
  PROVE  Onward(c)
<1>1. proc[c] \in Locals /\ proc \in [Procs -> Locals] BY DEF TypeOK
<1>2. Fresh.pc = "idle" BY DEF Fresh
<1>3. \A g, ks, ds : Group("orphans", g, ks, ds).pc = "orphans" BY DEF Group, Fresh
<1>4. \A g, ks, ds : Group("prepare", g, ks, ds).pc = "prepare" BY DEF Group, Fresh
<1>5. ToOrphans(proc[c]).pc \in {"idle", "orphans"} BY <1>2, <1>3 DEF ToOrphans
<1>6. ToConflicts(proc[c]).pc \in {"idle", "orphans", "prepare"}
  BY <1>4, <1>5 DEF ToConflicts
<1>7. proc'[c] \in {ToOrphans(proc[c]), ToConflicts(proc[c])} BY <1>1 DEF NextGroup
<1>8. proc'[c].pc \in {"idle", "orphans", "prepare"} BY <1>5, <1>6, <1>7
<1> QED BY <1>8, PlanElsewhere DEF Planning, InstallLabels

LEMMA RepairPlan ==
  ASSUME Solo, NEW c \in Procs, RepairStep(c)
  PROVE  Onward(c)
<1>1. TypeOK /\ Plan(c) /\ proc \in [Procs -> Locals] /\ proc[c] \in Locals
  BY DEF Solo, Inv, TypeOK
<1>2. CASE Exit(c) BY <1>1, <1>2, PlanExit
<1>3. CASE NextGroup(c) BY <1>1, <1>3, PlanNextGroup
<1>4. ASSUME NEW l \in Locals, l.pc \in {"replay", "replay_shims"}, proc' = [proc EXCEPT ![c] = l],
             \A t \in l.targets : Evidence(journals'[<<t.pkg, t.ver>>])
      PROVE  Onward(c)
  <2>1. proc'[c] = l BY <1>1, <1>4
  <2> QED BY <1>4, <2>1 DEF Onward, Plan, InstallLabels, WriteLabels
<1>5. CASE Inspect(c)
  <2>1. PICK l : /\ proc' = [proc EXCEPT ![c] = ToBatch(l)] /\ l.pc = "prepare"
    <3>1. PICK seen, read :
            proc' = [proc EXCEPT ![c] =
                  ToBatch([Fresh EXCEPT !.pc = "prepare",
                                        !.keys = read \cap ReplayCandidates(seen),
                                        !.conflicts = read \cap ConflictingJournals(seen),
                                        !.paths = OrphanDirs(seen)])]
      BY <1>5 DEF Inspect
    <3>2. [Fresh EXCEPT !.pc = "prepare",
                        !.keys = read \cap ReplayCandidates(seen),
                        !.conflicts = read \cap ConflictingJournals(seen),
                        !.paths = OrphanDirs(seen)].pc = "prepare"
      BY DEF Fresh
    <3> QED BY <3>1, <3>2
  <2>2. Fresh.pc = "idle" BY DEF Fresh
  <2>3. \A g, ks, ds : Group("orphans", g, ks, ds).pc = "orphans" BY DEF Group, Fresh
  <2>4. \A g, ks, ds : Group("prepare", g, ks, ds).pc = "prepare" BY DEF Group, Fresh
  <2>5. ToOrphans(l).pc \in {"idle", "orphans"} BY <2>2, <2>3 DEF ToOrphans
  <2>6. ToConflicts(l).pc \in {"idle", "orphans", "prepare"} BY <2>4, <2>5 DEF ToConflicts
  <2>7. ToBatch(l).pc \in {"idle", "orphans", "prepare"} BY <2>1, <2>6 DEF ToBatch
  <2>8. proc'[c].pc \in {"idle", "orphans", "prepare"} BY <1>1, <2>1, <2>7
  <2> QED BY <2>8, PlanElsewhere DEF Planning, InstallLabels
<1>6. CASE Prepare(c) /\ ~Exit(c) /\ ~NextGroup(c)
  <2> DEFINE T == {[pkg |-> k[1], ver |-> k[2],
                    meta |-> FirstMeta(journals[k])] : k \in proc[c].keys}
             l == [proc[c] EXCEPT !.pc = "replay", !.keys = {}, !.targets = T]
  <2>1. /\ \A k \in proc[c].keys : Replayable(journals[k])
        /\ proc' = [proc EXCEPT ![c].pc = "replay", ![c].keys = {}, ![c].targets = T]
        /\ journals' = journals
    BY <1>6 DEF Prepare, disk
  <2>2. proc' = [proc EXCEPT ![c] = l] BY <1>1, <2>1
  <2>3. ASSUME NEW t \in T
        PROVE  t \in Targets /\ Evidence(journals[<<t.pkg, t.ver>>])
    <3>1. PICK k \in proc[c].keys :
            t = [pkg |-> k[1], ver |-> k[2], meta |-> FirstMeta(journals[k])]
      BY <2>3
    <3>2. k \in Keys BY <1>1 DEF Locals
    <3>3. k[1] \in Packages /\ k[2] \in Versions /\ k = <<k[1], k[2]>> BY <3>2 DEF Keys
    <3>4. journals[k] \in Files BY <1>1, <3>2 DEF TypeOK
    <3>5. FirstMeta(journals[k]) \in Metas BY <2>1, <3>4, FirstMetaType
    <3>6. Evidence(journals[k]) BY <2>1 DEF Evidence
    <3>7. t \in Targets BY <3>1, <3>3, <3>5 DEF Targets
    <3>8. t.pkg = k[1] /\ t.ver = k[2] BY <3>1
    <3> QED BY <3>3, <3>6, <3>7, <3>8
  <2> HIDE DEF T
  <2>4. T \in SUBSET Targets BY <2>3
  <2>5. l \in Locals /\ l.pc = "replay" /\ l.targets = T BY <1>1, <2>4 DEF Locals, Labels
  <2> HIDE DEF l
  <2>6. \A t \in l.targets : Evidence(journals'[<<t.pkg, t.ver>>]) BY <2>1, <2>3, <2>5
  <2> QED BY <1>4, <2>2, <2>5, <2>6
<1>7. ASSUME proc[c].pc \in {"replay", "replay_shims"}, journals' = journals,
             NEW t, proc' = [proc EXCEPT ![c].pc = "replay", ![c].targets = @ \ {t}]
      PROVE  Onward(c)
  <2> DEFINE l == [proc[c] EXCEPT !.pc = "replay", !.targets = proc[c].targets \ {t}]
  <2>1. proc' = [proc EXCEPT ![c] = l] BY <1>1, <1>7
  <2>2. l \in Locals /\ l.pc = "replay" /\ l.targets = proc[c].targets \ {t}
    BY <1>1 DEF Locals, Labels
  <2> HIDE DEF l
  <2>3. \A u \in l.targets : Evidence(journals'[<<u.pkg, u.ver>>])
    BY <1>1, <1>7, <2>2 DEF Plan
  <2> QED BY <1>4, <2>1, <2>2, <2>3
<1>8. CASE SkipConflict(c) /\ ~NextGroup(c)
  <2>1. PICK t : proc' = [proc EXCEPT ![c].targets = @ \ {t}]
    BY <1>8 DEF SkipConflict
  <2>2. proc[c].pc = "replay" /\ journals' = journals BY <1>8 DEF SkipConflict, At, disk
  <2> DEFINE l == [proc[c] EXCEPT !.targets = proc[c].targets \ {t}]
  <2>3. proc' = [proc EXCEPT ![c] = l] BY <1>1, <2>1
  <2>4. l \in Locals /\ l.pc = "replay" /\ l.targets = proc[c].targets \ {t}
    BY <1>1, <2>2 DEF Locals
  <2> HIDE DEF l
  <2>5. \A u \in l.targets : Evidence(journals'[<<u.pkg, u.ver>>])
    BY <1>1, <2>2, <2>4 DEF Plan
  <2> QED BY <1>4, <2>3, <2>4, <2>5
<1>9. CASE Replay(c) /\ ~Exit(c)
  <2>1. PICK t \in proc[c].targets : \E cs \in CommandsRead(t.pkg) :
               proc' = [proc EXCEPT ![c].pc = "replay_shims", ![c].pkg = t.pkg,
                                    ![c].ver = t.ver, ![c].cmds = cs]
    BY <1>9 DEF Replay
  <2>2. PICK cs \in CommandsRead(t.pkg) :
               proc' = [proc EXCEPT ![c].pc = "replay_shims", ![c].pkg = t.pkg,
                                    ![c].ver = t.ver, ![c].cmds = cs]
    BY <2>1
  <2>3. proc[c].pc = "replay" /\ journals' = journals BY <1>9 DEF Replay, At, disk
  <2> DEFINE l == [proc[c] EXCEPT !.pc = "replay_shims", !.pkg = t.pkg,
                                  !.ver = t.ver, !.cmds = cs]
  <2>4. proc' = [proc EXCEPT ![c] = l] BY <1>1, <2>2
  <2>5. cs \in SUBSET Commands /\ t.pkg \in Packages /\ t.ver \in Versions
    BY <1>1 DEF CommandsRead, Owned, Locals, Targets
  <2>6. l \in Locals /\ l.pc = "replay_shims" /\ l.targets = proc[c].targets
    BY <1>1, <2>5 DEF Locals, Labels
  <2> HIDE DEF l
  <2>7. \A u \in l.targets : Evidence(journals'[<<u.pkg, u.ver>>])
    BY <1>1, <2>3, <2>6 DEF Plan
  <2> QED BY <1>4, <2>4, <2>6, <2>7
<1>10. CASE ReplayShims(c) /\ ~NextGroup(c)
  <2>1. PICK t : proc' = [proc EXCEPT ![c].pc = "replay", ![c].targets = @ \ {t}]
    BY <1>10 DEF ReplayShims
  <2>2. proc[c].pc = "replay_shims" /\ journals' = journals BY <1>10 DEF ReplayShims, At
  <2> QED BY <1>7, <2>1, <2>2
<1>12. CASE ConfirmOrphans(c) /\ ~Exit(c)
  <2>1. Goto(c, "remove_orphans") BY <1>12 DEF ConfirmOrphans
  <2> QED BY <1>1, <2>1, PlanGoto DEF Planning, InstallLabels, Labels
<1>13. CASE RemoveOrphan(c) /\ ~Exit(c)
  <2>1. PICK d : proc' = [proc EXCEPT ![c].paths = @ \ {d}]
    BY <1>13 DEF RemoveOrphan
  <2>2. proc[c].pc = "remove_orphans" BY <1>13 DEF RemoveOrphan, At
  <2>3. proc' = [proc EXCEPT ![c] = [proc[c] EXCEPT !.paths = proc[c].paths \ {d}]]
    BY <1>1, <2>1
  <2>4. proc'[c].pc = "remove_orphans" BY <1>1, <2>2, <2>3 DEF Locals
  <2> QED BY <2>4, PlanElsewhere DEF Planning, InstallLabels
<1> QED BY <1>2, <1>3, <1>5, <1>6, <1>8, <1>9, <1>10, <1>12, <1>13 DEF RepairStep

LEMMA StepPlan ==
  ASSUME Alone, Solo, Next
  PROVE  \A c \in Procs : Plan(c)'
<1>1. PICK c \in Procs : Step(c) \/ Crash(c) BY DEF Next
<1>2. Plan(c)'
  <2>1. CASE Step(c)
    BY <2>1, StartupPlan, InstallPlan, RemovePlan, RepairPlan DEF Onward, Step
  <2>2. CASE Crash(c) BY <2>2, PlanExit DEF Onward, Crash, Solo, Inv
  <2> QED BY <1>1, <2>1, <2>2
<1>3. \A d \in Procs : d = c BY DEF Alone
<1> QED BY <1>2, <1>3
----------------------------------------------------------------------------
(* The invariant.                                                          *)

LEMMA InitSolo ==
  ASSUME Init
  PROVE  JournalTrail /\ \A c \in Procs : Plan(c)
<1>1. \A c \in Procs : proc[c].pc = "idle" BY DEF Init, Fresh
<1>2. \A p \in Packages : ~Installed(p) BY DEF Init, NoRow, Installed
<1> QED BY <1>1, <1>2 DEF JournalTrail, Plan, InstallLabels, WriteLabels

LEMMA NextSolo ==
  ASSUME Alone, Solo, [Next]_vars
  PROVE  (JournalTrail /\ \A c \in Procs : Plan(c))'
<1>1. CASE Next
  BY <1>1, StepKind, KindKeepsTrail, StepPlan
<1>2. CASE UNCHANGED vars
  BY <1>2 DEF vars, Solo, JournalTrail, Installed, Plan, Status, Live, JournalKey
<1> QED BY <1>1, <1>2

THEOREM SoloInvariance == Alone => (Spec => []Solo)
<1> SUFFICES ASSUME Alone PROVE Spec => []Solo OBVIOUS
<1> DEFINE J == JournalTrail /\ \A c \in Procs : Plan(c)
<1>1. Init => J BY InitSolo
<1>2. J /\ Inv <=> Solo BY DEF Solo
<1>3. Solo /\ [Next]_vars => J' BY NextSolo
<1> HIDE DEF J
<1> QED BY <1>1, <1>2, <1>3, Invariance, PTL DEF Spec

(* A package visible as installed has a journal that ends in a Commit, or  *)
(* one that repair replays, through every crash and failure, and while it  *)
(* is being removed.                                                       *)
THEOREM TrailOfTheInstalled == Alone => (Spec => []JournalTrail)
<1> SUFFICES ASSUME Alone PROVE Spec => []JournalTrail OBVIOUS
<1>1. Solo => JournalTrail BY DEF Solo
<1>2. Spec => []Solo BY SoloInvariance
<1> QED BY <1>1, <1>2, PTL

(* Only a remove, deleting its row, ends a package's being installed.      *)
THEOREM OnlyRemoveUninstalls == Alone => (Spec => InstalledUntilRemoved)
<1> SUFFICES ASSUME Alone PROVE Spec => InstalledUntilRemoved OBVIOUS
<1> DEFINE A == \A p \in Packages :
                  Installed(p) /\ rows'[p].status # "ok"
                  => \E c \in Procs : At(c, "delete_row") /\ proc[c].pkg = p
<1>1. ASSUME Solo, Next PROVE A
  <2>1. SUFFICES ASSUME NEW p \in Packages, Installed(p), rows'[p].status # "ok"
                 PROVE  \E c \in Procs : At(c, "delete_row") /\ proc[c].pkg = p
    OBVIOUS
  <2>2. PICK c \in Procs : Kind(c) BY <1>1, StepKind
  <2>3. ~SameIndex({}) BY <2>1 DEF SameIndex, Installed
  <2>4. \A q \in Packages : SameIndex({q}) /\ Installed(q)' => FALSE
    BY <2>1 DEF SameIndex, Installed
  <2>5. At(c, "delete_row") /\ SameIndex({proc[c].pkg}) BY <2>2, <2>3, <2>4 DEF Kind
  <2>6. p = proc[c].pkg BY <2>1, <2>5 DEF SameIndex, Installed
  <2> QED BY <2>5, <2>6
<1>2. Solo /\ [Next]_vars => [A]_vars BY <1>1
<1>3. Spec => []Solo BY SoloInvariance
<1> QED BY <1>2, <1>3, PTL DEF Spec, InstalledUntilRemoved
----------------------------------------------------------------------------
(* The refinement.                                                         *)

(* What the index shows, and what is on record.                            *)
Shown    == [p \in Packages |-> IF Installed(p) THEN rows[p].ver ELSE None]
Recorded == {k \in Keys : Evidence(journals[k])}

LEMMA ShownPoint ==
  ASSUME NEW p \in Packages, SameIndex({p}), NEW v, Shown'[p] = v
  PROVE  Shown' = [Shown EXCEPT ![p] = v]
<1>1. \A q \in Packages \ {p} : Shown'[q] = Shown[q] BY DEF SameIndex, Shown, Installed
<1>2. Shown = [q \in Packages |-> Shown[q]] /\ Shown' = [q \in Packages |-> Shown'[q]]
  BY DEF Shown
<1> HIDE DEF Shown
<1> QED BY <1>1, <1>2

LEMMA SameShown ==
  ASSUME SameIndex({})
  PROVE  Shown' = Shown
  BY DEF SameIndex, Shown, Installed

LEMMA SameRecord ==
  ASSUME UNCHANGED journals
  PROVE  Recorded' = Recorded
  BY DEF Recorded

LEMMA ChangedRecord ==
  ASSUME TypeOK, NEW k \in Keys, NEW g, journals' = [journals EXCEPT ![k] = g]
  PROVE  Recorded' = IF Evidence(g) THEN Recorded \cup {k} ELSE Recorded \ {k}
<1>1. \A j \in Keys : journals'[j] = IF j = k THEN g ELSE journals[j] BY DEF TypeOK
<1> QED BY <1>1 DEF Recorded

LEMMA KindRefines ==
  ASSUME Solo, NEW c \in Procs, Kind(c)
  PROVE  \/ UNCHANGED <<Shown, Recorded>>
         \/ \E p \in Packages : Shown' = [Shown EXCEPT ![p] = None] /\ UNCHANGED Recorded
         \/ \E p \in Packages, v \in Versions :
              \/ Recorded' = Recorded \cup {<<p, v>>} /\ UNCHANGED Shown
              \/ /\ <<p, v>> \in Recorded
                 /\ Shown' = [Shown EXCEPT ![p] = v] /\ UNCHANGED Recorded
              \/ /\ Shown[p] # v
                 /\ Recorded' = Recorded \ {<<p, v>>} /\ UNCHANGED Shown
<1>1. TypeOK BY DEF Solo, Inv
<1>2. CASE UNCHANGED journals /\ SameIndex({})
  BY <1>2, SameShown, SameRecord
<1>3. CASE /\ UNCHANGED journals /\ At(c, "delete_row")
           /\ SameIndex({proc[c].pkg}) /\ rows'[proc[c].pkg].status # "ok"
  <2>1. PICK p \in Packages : p = proc[c].pkg
    BY <1>3, PlannedFacts DEF At, PlannedLabels, Solo
  <2>2. Shown'[p] = None BY <1>3, <2>1 DEF Shown, Installed
  <2>3. Shown' = [Shown EXCEPT ![p] = None] BY <1>3, <2>1, <2>2, ShownPoint
  <2> QED BY <1>3, <2>3, SameRecord
<1>4. CASE /\ UNCHANGED journals
           /\ \E p \in Packages :
                /\ SameIndex({p}) /\ Installed(p)' /\ rows'[p].ver \in Versions
                /\ Evidence(journals[<<p, rows'[p].ver>>])
  <2>1. PICK p \in Packages :
          /\ SameIndex({p}) /\ Installed(p)' /\ rows'[p].ver \in Versions
          /\ Evidence(journals[<<p, rows'[p].ver>>])
    BY <1>4
  <2>2. PICK v \in Versions : v = rows'[p].ver BY <2>1
  <2>3. Shown'[p] = v BY <2>1, <2>2 DEF Shown, Installed
  <2>4. Shown' = [Shown EXCEPT ![p] = v] BY <2>1, <2>3, ShownPoint
  <2>5. <<p, v>> \in Recorded BY <2>1, <2>2 DEF Recorded, Keys
  <2> QED BY <1>4, <2>4, <2>5, SameRecord
<1>5. ASSUME SameIndex({}), NEW k \in Keys, NEW g \in Files,
             journals' = [journals EXCEPT ![k] = g],
             ~(Installed(k[1]) /\ rows[k[1]].ver = k[2])
      PROVE  \E p \in Packages, v \in Versions :
               /\ UNCHANGED Shown
               /\ \/ Recorded' = Recorded \cup {<<p, v>>}
                  \/ Shown[p] # v /\ Recorded' = Recorded \ {<<p, v>>}
  <2>1. PICK p \in Packages, v \in Versions : k = <<p, v>> BY DEF Keys
  <2>2. Shown' = Shown BY <1>5, SameShown
  <2>3. Evidence(g) => Recorded' = Recorded \cup {<<p, v>>}
    BY <1>1, <1>5, <2>1, ChangedRecord
  <2>4. ~Evidence(g) => Recorded' = Recorded \ {<<p, v>>} BY <1>1, <1>5, <2>1, ChangedRecord
  <2>5. k[1] = p /\ k[2] = v BY <2>1
  <2>6. v # None BY NoneIsFresh
  <2>7. Shown[p] # v BY <1>5, <2>5, <2>6 DEF Shown
  <2> QED BY <2>2, <2>3, <2>4, <2>7
<1> QED BY <1>2, <1>3, <1>4, <1>5 DEF Kind

(* The index and the journals implement the write-ahead log.               *)
THEOREM LogIsWriteAhead == Alone => (Spec => WriteAheadLog)
<1> SUFFICES ASSUME Alone PROVE Spec => WriteAheadLog OBVIOUS
<1>1. Init => Log!Init
  <2> SUFFICES ASSUME Init PROVE Log!Init OBVIOUS
  <2>1. \A p \in Packages : ~Installed(p) BY DEF Init, NoRow, Installed
  <2>2. \A k \in Keys : ~Evidence(journals[k])
    BY DEF Init, NoFile, Evidence, EndsInCommit, Replayable, Committed, TrailingEntries
  <2> QED BY <2>1, <2>2 DEF Log!Init
<1>2. ASSUME Solo, [Next]_vars
      PROVE  Log!Next \/ UNCHANGED <<Shown, Recorded>>
  <2>1. CASE UNCHANGED vars BY <2>1 DEF vars, Shown, Recorded, Installed
  <2>2. CASE Next
    <3>1. PICK c \in Procs : Kind(c) BY <1>2, <2>2, StepKind
    <3> QED BY <1>2, <3>1, KindRefines
            DEF Log!Next, Log!Withdraw, Log!Record, Log!Install, Log!Forget, Shown, Recorded
  <2> QED BY <1>2, <2>1, <2>2
<1>3. Solo /\ [Next]_vars => [Log!Next]_<<Shown, Recorded>> BY <1>2
<1>4. Spec => []Solo BY SoloInvariance
<1>5. Spec => Log!Init /\ [][Log!Next]_<<Shown, Recorded>>
  BY <1>1, <1>3, <1>4, PTL DEF Spec
<1> QED BY <1>5, PTL DEF WriteAheadLog, Log!Spec, Shown, Recorded
----------------------------------------------------------------------------
(* Rows that are Installing.                                               *)

(* Startup has them all on its list and strikes off only what it failed;   *)
(* then there is none but that of the install in progress.                 *)
Tidy(c) ==
  LET at == proc[c].pc
  IN  /\ at = "stale_row" => \A p \in InstallingRows : <<p, "live">> \in proc[c].paths
      /\ at = "stale_dir" => \A p \in InstallingRows :
                               p # proc[c].pkg /\ <<p, "live">> \in proc[c].paths
      /\ at \in InstallLabels => InstallingRows \subseteq {proc[c].pkg}
      /\ at \notin InstallLabels \cup {"idle", "stale_row", "stale_dir"} => InstallingRows = {}

(* While no statement fails, no write by a lone process does.              *)
LEMMA WritesSucceed ==
  ASSUME Alone, "db" \notin Faults, Inv, NEW c \in Procs
  PROVE  /\ ~WriteFails(c)
         /\ proc[c].pc \notin TxLabels => writer = None
<1>1. writer # None => writer = c BY DEF Alone, Inv, TypeOK
<1> QED BY <1>1 DEF WriteFails, Inv, CommitIsExclusive

(* Three ways for a step to keep it.                                       *)
LEMMA TidyCalm ==
  ASSUME NEW c, InstallingRows' = {}, proc'[c].pc \notin {"stale_row", "stale_dir"}
  PROVE  Tidy(c)'
  BY DEF Tidy

LEMMA TidyInstalling ==
  ASSUME NEW c, InstallingRows' \subseteq {proc[c].pkg}, proc'[c].pkg = proc[c].pkg,
         proc'[c].pc \in InstallLabels
  PROVE  Tidy(c)'
  BY DEF Tidy, InstallLabels

LEMMA TidyIdle ==
  ASSUME NEW c, proc'[c].pc = "idle"
  PROVE  Tidy(c)'
  BY DEF Tidy, InstallLabels

LEMMA StartupTidy ==
  ASSUME Alone, "db" \notin Faults, Solo, NEW c \in Procs, Tidy(c), StartupStep(c)
  PROVE  Tidy(c)'
<1>1. TypeOK /\ Plan(c) /\ proc \in [Procs -> Locals] /\ proc[c] \in Locals
  BY DEF Solo, Inv, TypeOK
<1>2. CASE Launch(c)
  <2>1. InstallingRows' = InstallingRows BY <1>2 DEF Launch, db, InstallingRows
  <2>2. proc' = [proc EXCEPT ![c] = [proc[c] EXCEPT
                   !.pc = IF InstallingRows = {} THEN "ready" ELSE "stale_row",
                   !.paths = InstallingRows \X {"live"}]]
    BY <1>1, <1>2 DEF Launch
  <2>3. PICK to : /\ to = IF InstallingRows = {} THEN "ready" ELSE "stale_row"
                  /\ proc'[c] = [proc[c] EXCEPT !.pc = to, !.paths = InstallingRows \X {"live"}]
    BY <1>1, <2>2
  <2>4. proc'[c].pc = to /\ proc'[c].paths = InstallingRows \X {"live"}
    BY <1>1, <2>3 DEF Locals
  <2> QED BY <2>1, <2>3, <2>4 DEF Tidy, InstallLabels
<1>3. CASE MarkStaleFailed(c)
  <2>1. ~WriteFails(c) BY WritesSucceed DEF Solo
  <2>2. PICK d \in proc[c].paths :
          /\ SetStatus(d[1], "failed")
          /\ proc' = [proc EXCEPT ![c].pc = "stale_dir", ![c].pkg = d[1]]
    BY <1>3, <2>1 DEF MarkStaleFailed
  <2>3. proc[c].pc = "stale_row" BY <1>3 DEF MarkStaleFailed, At
  <2>4. d[1] \in Packages /\ Present(d[1]) BY <1>1, <2>3 DEF Plan, Present
  <2>5. /\ rows'[d[1]].status = "failed"
        /\ \A q \in Packages \ {d[1]} : rows'[q] = rows[q]
    BY <1>1, <2>2, <2>4, StatusFacts
  <2>6. InstallingRows' \subseteq InstallingRows \ {d[1]} BY <2>5 DEF InstallingRows
  <2>7. proc' = [proc EXCEPT ![c] = [proc[c] EXCEPT !.pc = "stale_dir", !.pkg = d[1]]]
    BY <1>1, <2>2
  <2>8. proc'[c].pc = "stale_dir" /\ proc'[c].pkg = d[1] /\ proc'[c].paths = proc[c].paths
    BY <1>1, <2>7 DEF Locals
  <2> QED BY <2>3, <2>6, <2>8 DEF Tidy, InstallLabels
<1>4. CASE RemoveStaleDir(c)
  <2> DEFINE rest == proc[c].paths \ {Live(c)}
  <2>1. proc[c].pc = "stale_dir" /\ InstallingRows' = InstallingRows
    BY <1>4 DEF RemoveStaleDir, At, db, InstallingRows
  <2>2. proc' = [proc EXCEPT ![c] = [proc[c] EXCEPT
                   !.pc = IF rest = {} THEN "ready" ELSE "stale_row",
                   !.paths = rest, !.pkg = None]]
    BY <1>1, <1>4 DEF RemoveStaleDir
  <2>3. PICK to : /\ to = IF rest = {} THEN "ready" ELSE "stale_row"
                  /\ proc'[c] = [proc[c] EXCEPT !.pc = to, !.paths = rest, !.pkg = None]
    BY <1>1, <2>2
  <2>4. proc'[c].pc = to /\ proc'[c].paths = rest BY <1>1, <2>3 DEF Locals
  <2>5. \A p \in InstallingRows : <<p, "live">> \in rest BY <2>1 DEF Tidy, Live
  <2> HIDE DEF rest
  <2> QED BY <2>1, <2>3, <2>4, <2>5 DEF Tidy, InstallLabels
<1> QED BY <1>2, <1>3, <1>4 DEF StartupStep

LEMMA InstallTidy ==
  ASSUME Alone, "db" \notin Faults, Solo, NEW c \in Procs, Tidy(c), InstallStep(c)
  PROVE  Tidy(c)'
<1> DEFINE p == proc[c].pkg
<1>1. TypeOK /\ Plan(c) /\ proc \in [Procs -> Locals] /\ proc[c] \in Locals
  BY DEF Solo, Inv, TypeOK
<1>2. proc[c].pc \in PlannedLabels => p \in Packages BY PlannedFacts DEF Solo
<1>3. ~WriteFails(c) BY WritesSucceed DEF Solo
<1>4. proc'[c].pc \notin {"stale_row", "stale_dir"} BY InstallPlan DEF Onward
<1>5. CASE Exit(c)
  <2>1. proc'[c].pc = "idle" BY <1>1, <1>5, ExitFacts
  <2> QED BY <2>1, TidyIdle
<1>6. CASE \/ ResolveAndInspect(c) \/ DropFailedRow(c) \/ ClearInstallDir(c) \/ Abandon(c)
           \/ RollbackDir(c) \/ ReadCommands(c) \/ PublishShims(c)
  <2>1. proc[c].pc \in {"ready", "drop_row", "clear_dir", "mark", "rollback_dir",
                        "read_commands", "write_shims"}
    BY <1>6 DEF ResolveAndInspect, DropFailedRow, ClearInstallDir, Abandon, RollbackDir,
                ReadCommands, PublishShims, At
  <2>2. InstallingRows = {} BY <2>1 DEF Tidy, InstallLabels
  <2>3. \A q \in Packages : rows'[q] \in {rows[q], NoRow}
    BY <1>1, <1>2, <1>6
       DEF ResolveAndInspect, DropFailedRow, DeleteRow, ClearInstallDir, Abandon, RollbackDir,
           ReadCommands, PublishShims, db, TypeOK
  <2>4. InstallingRows' = {} BY <2>2, <2>3 DEF InstallingRows, NoRow
  <2> QED BY <1>4, <2>4, TidyCalm
<1>7. CASE MarkInstalling(c) /\ ~Exit(c)
  <2>1. proc[c].pc = "mark" /\ InsertRow(p, proc[c].ver, proc[c].kind, "installing")
        /\ Goto(c, "download")
    BY <1>7 DEF MarkInstalling, At
  <2>2. InstallingRows = {} BY <2>1 DEF Tidy, InstallLabels
  <2>3. \A q \in Packages \ {p} : rows'[q] = rows[q] BY <1>1, <2>1 DEF InsertRow, TypeOK
  <2>4. InstallingRows' \subseteq {p} BY <2>2, <2>3 DEF InstallingRows
  <2>5. proc'[c].pc = "download" /\ proc'[c].pkg = p BY <1>1, <2>1, GotoFacts DEF Labels
  <2> QED BY <2>4, <2>5, TidyInstalling DEF InstallLabels
<1>8. ASSUME proc[c].pc \in InstallLabels, UNCHANGED rows, NEW l \in InstallLabels, Goto(c, l)
      PROVE  Tidy(c)'
  <2>1. InstallingRows' \subseteq {p} BY <1>8 DEF Tidy, InstallingRows
  <2>2. l \in Labels BY DEF InstallLabels, Labels
  <2>3. proc'[c].pc = l /\ proc'[c].pkg = p BY <1>1, <1>8, <2>2, GotoFacts
  <2> QED BY <2>1, <2>3, TidyInstalling
<1>9. ASSUME proc[c].pc \in InstallLabels, NEW s \in {"ok", "failed"}, SetStatus(p, s)
      PROVE  Tidy(c)'
  <2>1. InstallingRows \subseteq {p} BY <1>9 DEF Tidy
  <2>2. p \in Packages /\ Present(p)
    BY <1>1, <1>2, <1>9 DEF Plan, Status, Present, InstallLabels, PlannedLabels
  <2>3. rows'[p].status = s /\ \A q \in Packages \ {p} : rows'[q] = rows[q]
    BY <1>1, <1>9, <2>2, StatusFacts
  <2>4. InstallingRows' = {} BY <2>1, <2>3 DEF InstallingRows
  <2> QED BY <1>4, <2>4, TidyCalm
<1>10. CASE ProbeAndReclassify(c)
  <2>1. proc[c].pc \in InstallLabels BY <1>10 DEF ProbeAndReclassify, At, InstallLabels
  <2>2. PICK e : /\ rows' = [rows EXCEPT ![p] = IF e # proc[c].kind /\ @.status # "absent"
                                                THEN [@ EXCEPT !.kind = e] ELSE @]
                 /\ proc' = [proc EXCEPT ![c].pc = "engine", ![c].kind = e]
    BY <1>3, <1>10 DEF ProbeAndReclassify
  <2>3. \A q \in Packages \ {p} : rows'[q] = rows[q] BY <1>1, <2>2 DEF TypeOK
  <2>4. InstallingRows \subseteq {p} BY <2>1 DEF Tidy
  <2>5. InstallingRows' \subseteq {p} BY <2>3, <2>4 DEF InstallingRows
  <2>6. proc' = [proc EXCEPT ![c] = [proc[c] EXCEPT !.pc = "engine", !.kind = e]]
    BY <1>1, <2>2
  <2>7. proc'[c].pc = "engine" /\ proc'[c].pkg = p BY <1>1, <2>6 DEF Locals
  <2> QED BY <2>5, <2>7, TidyInstalling DEF InstallLabels
<1>11. CASE \/ EngineInstalls(c) \/ InstallFails(c) \/ BeginCommit(c) \/ OpenJournal(c)
            \/ WriteJournal(c)
  <2>1. proc[c].pc \in InstallLabels /\ UNCHANGED rows
    BY <1>11 DEF EngineInstalls, InstallFails, BeginCommit, OpenJournal, WriteJournal, At,
                 InstallLabels, WriteLabels, db
  <2>2. \E l \in InstallLabels : Goto(c, l)
    BY <1>11 DEF EngineInstalls, InstallFails, BeginCommit, OpenJournal, WriteJournal, AbortTx,
                 InstallLabels, WriteLabels
  <2> QED BY <1>8, <2>1, <2>2
<1>12. CASE RollbackRow(c) \/ CommitTx(c) \/ MarkCommitFailed(c)
  <2>1. proc[c].pc \in InstallLabels
    BY <1>12 DEF RollbackRow, CommitTx, MarkCommitFailed, At, InstallLabels
  <2>2. SetStatus(p, "ok") \/ SetStatus(p, "failed")
    BY <1>3, <1>12 DEF RollbackRow, CommitTx, MarkCommitFailed
  <2> QED BY <1>9, <2>1, <2>2
<1> QED BY <1>5, <1>6, <1>7, <1>10, <1>11, <1>12 DEF InstallStep, BuildClientFails

(* A remove and a repair find none and make none.                          *)
LEMMA OthersTidy ==
  ASSUME Solo, NEW c \in Procs, Tidy(c), RemoveStep(c) \/ RepairStep(c)
  PROVE  Tidy(c)'
<1>1. TypeOK /\ proc[c] \in Locals BY DEF Solo, Inv, TypeOK
<1>2. proc'[c].pc \notin {"stale_row", "stale_dir"} BY RemovePlan, RepairPlan DEF Onward
<1>3. CASE RemoveStep(c)
  <2>1. proc[c].pc \in {"ready", "confirm", "stage", "uninstall", "delete_row", "remove_shims",
                        "remove_journal", "remove_trash"}
    BY <1>3 DEF RemoveStep, PlanRemoval, DeclineRemoval, StartRemoval, StageForRemoval,
                Uninstall, DeleteRemovedRow, DeleteRemovedRowFails, RemoveShims, RemoveJournal,
                RemoveTrash, At
  <2>2. InstallingRows = {} BY <2>1 DEF Tidy, InstallLabels
  <2>3. \A q \in Packages : rows'[q] \in {rows[q], NoRow}
    BY <1>1, <1>3
       DEF RemoveStep, PlanRemoval, DeclineRemoval, StartRemoval, StageForRemoval,
           Uninstall, DeleteRemovedRow, DeleteRow, DeleteRemovedRowFails, RemoveShims,
           RemoveJournal, RemoveTrash, db, TypeOK
  <2>4. InstallingRows' = {} BY <2>2, <2>3 DEF InstallingRows, NoRow
  <2> QED BY <1>2, <2>4, TidyCalm
<1>4. CASE RepairStep(c)
  <2>1. proc[c].pc \in {"ready", "prepare", "replay", "replay_shims", "orphans",
                        "remove_orphans"}
    BY <1>4 DEF RepairStep, Inspect, Prepare, SkipConflict, Replay, ReplayShims,
                ConfirmOrphans, RemoveOrphan, At
  <2>2. InstallingRows = {} BY <2>1 DEF Tidy, InstallLabels
  <2>3. CASE Replay(c)
    <3>1. PICK t \in proc[c].targets : \/ InsertRow(t.pkg, t.ver, t.meta.kind, "ok")
                                       \/ UNCHANGED rows
      BY <2>3 DEF Replay
    <3>2. \A q \in Packages : rows'[q] = rows[q] \/ rows'[q].status = "ok"
      BY <1>1, <3>1 DEF InsertRow, TypeOK
    <3>3. InstallingRows' = {} BY <2>2, <3>2 DEF InstallingRows
    <3> QED BY <1>2, <3>3, TidyCalm
  <2>4. CASE ~Replay(c)
    <3>1. UNCHANGED rows
      BY <1>4, <2>4 DEF RepairStep, Inspect, Prepare, SkipConflict, ReplayShims,
                        ConfirmOrphans, RemoveOrphan, db
    <3>2. InstallingRows' = {} BY <2>2, <3>1 DEF InstallingRows
    <3> QED BY <1>2, <3>2, TidyCalm
  <2> QED BY <2>3, <2>4
<1> QED BY <1>3, <1>4

LEMMA NextTidy ==
  ASSUME Alone, "db" \notin Faults, Solo, \A c \in Procs : Tidy(c), [Next]_vars
  PROVE  \A c \in Procs : Tidy(c)'
<1>1. CASE UNCHANGED vars BY <1>1 DEF vars, Tidy, InstallingRows
<1>2. CASE Next
  <2>1. PICK c \in Procs : Step(c) \/ Crash(c) BY <1>2 DEF Next
  <2>2. CASE Crash(c)
    <3>1. proc'[c].pc = "idle" BY <2>2, ExitFacts DEF Crash, Solo, Inv, TypeOK
    <3> QED BY <3>1, TidyIdle DEF Alone
  <2>3. CASE Step(c)
    <3>1. Tidy(c)' BY <2>3, StartupTidy, InstallTidy, OthersTidy DEF Step
    <3> QED BY <3>1 DEF Alone
  <2> QED BY <2>1, <2>2, <2>3
<1> QED BY <1>1, <1>2

(* Where no statement on the database fails, the only row that a running   *)
(* command may meet Installing is its own: whatever crashes left behind,   *)
(* startup has dealt with.                                                 *)
THEOREM StaleRowsAreFailed == Alone /\ "db" \notin Faults => (Spec => []NoStaleRows)
<1> SUFFICES ASSUME Alone, "db" \notin Faults PROVE Spec => []NoStaleRows OBVIOUS
<1> DEFINE J == \A c \in Procs : Tidy(c)
<1>1. Init => J BY DEF Init, Fresh, Tidy, InstallLabels
<1>2. Solo /\ J /\ [Next]_vars => J'
  <2>1. ASSUME Solo, J, [Next]_vars PROVE J'
    BY <2>1, NextTidy
  <2> QED BY <2>1
<1>3. J => NoStaleRows
  BY DEF Tidy, InstallingRows, NoStaleRows, InstallLabels
<1>4. Spec => []Solo BY SoloInvariance
<1> HIDE DEF J
<1> QED BY <1>1, <1>2, <1>3, <1>4, PTL DEF Spec
----------------------------------------------------------------------------
(* Where nothing of a package is at odds with the rest of it, so that the  *)
(* command may end there; and the stretches of an install or a remove      *)
(* where something is, until the command has gone through with it.         *)
Calm == {"idle", "stale_row", "stale_dir", "ready", "drop_row", "clear_dir", "mark",
         "download", "engine", "confirm", "stage", "uninstall"}
Undoing    == {"rollback_row", "rollback_dir"}
Committing == {"begin", "open", "journal", "commit"}
Exposing   == {"read_commands", "write_shims"}
Removing   == {"delete_row", "remove_shims", "remove_journal", "remove_trash"}
Busy(c) == proc[c].pc \notin Calm

(* What a process remembers of its package is still so: the row is the one *)
(* that it read or wrote, the commands are those of the version or of the  *)
(* registry, and no other package owns them.                               *)
Memory(c) ==
  LET at == proc[c].pc
      p  == proc[c].pkg
  IN  /\ at \in Calm \cup Undoing \cup Committing \cup Exposing \cup Removing
      /\ at = "stale_dir" => p \in Packages /\ ~Installed(p)
      /\ at \in {"drop_row", "clear_dir", "mark", "download", "engine"} \cup Committing =>
           /\ proc[c].cmds = Exposes[Key(c)]
           /\ (at \in {"drop_row", "clear_dir"} => ~proc[c].blocked) => ~Claimed(p, proc[c].cmds)
      /\ at \in {"clear_dir", "mark"} => ~Present(p)
      /\ at \in {"download", "engine"} \cup Committing =>
           rows[p] = [status |-> "installing", ver |-> proc[c].ver, kind |-> proc[c].kind]
      /\ at = "write_shims" => proc[c].cmds = Owned(p)
      /\ at \in {"ready", "confirm", "stage", "uninstall"} => proc[c].paths = {}
      /\ at \in {"confirm", "stage", "uninstall", "delete_row"} =>
           rows[p].ver = proc[c].ver /\ rows[p].kind = proc[c].kind
      /\ at \in {"stage", "uninstall"} => proc[c].cmds = Owned(p)
      /\ at = "uninstall" => proc[c].kind = "native"
      /\ at \in Removing => proc[c].paths \subseteq {Trash(c)}

(* How far the package of a busy process has been taken: what is there     *)
(* already, and what is not there yet or no longer.                        *)
Course(c) ==
  LET at == proc[c].pc
      p  == proc[c].pkg
      f  == journals[Key(c)]
  IN  /\ at \in Undoing \cup Committing \cup Exposing => NoTrash(p)
      /\ at \in Undoing => ~Installed(p) /\ Bare(p)
      /\ at \in Committing =>
           /\ dirs[Live(c)] = proc[c].ver
           /\ Owned(p) = {} /\ OnlyVersion(p, proc[c].ver)
      /\ at \in Committing \cup Exposing => Shimmed(p) = {}
      /\ at \in {"begin", "open"} => ~f.exists
      /\ at = "journal" => f = EmptyFile
      /\ at = "commit" => OnRecord(p, proc[c].kind, proc[c].cmds)
      /\ at \in Exposing => Installed(p) /\ Whole(p)
      /\ at \in Removing =>
           /\ dirs[Live(c)] = None
           /\ proc[c].paths = {} => NoTrash(p)
           /\ OnlyVersion(p, proc[c].ver)
           /\ Shimmed(p) = IF at \in {"delete_row", "remove_shims"} THEN proc[c].cmds ELSE {}
           /\ at # "delete_row" => ~Present(p) /\ Owned(p) = {}
      /\ at = "remove_trash" => ~f.exists

(* The inductive invariant: every package that no process is busy with is  *)
(* at rest, and the others are as Memory and Course say.                   *)
Settling ==
  /\ \A p \in Packages : (\A c \in Procs : Busy(c) => proc[c].pkg # p) => AtRest(p)
  /\ \A c \in Procs : Memory(c) /\ Course(c)
----------------------------------------------------------------------------
(* What a step that is none of p's business leaves of p.                   *)
Same(p) ==
  /\ IF Installed(p) THEN rows'[p] = rows[p] ELSE ~Installed(p)'
  /\ dirs'[<<p, "live">>] = dirs[<<p, "live">>]
  /\ dirs'[<<p, "trash">>] = dirs[<<p, "trash">>]
  /\ \A v \in Versions : journals'[<<p, v>>] = journals[<<p, v>>]
  /\ Owned(p)' = Owned(p)
  /\ Shimmed(p)' = Shimmed(p)

LEMMA SameRests ==
  ASSUME TypeOK, NEW p \in Packages, AtRest(p), Same(p)
  PROVE  AtRest(p)'
<1>1. NoTrash(p)' BY DEF AtRest, NoTrash, Same
<1>2. CASE Installed(p)
  <2> DEFINE v == rows[p].ver
  <2>1. v \in Versions BY <1>2 DEF TypeOK, Rows, NoRow, Installed
  <2>2. rows'[p] = rows[p] /\ Installed(p)' BY <1>2 DEF Same, Installed
  <2>3. OnRecord(p, rows[p].kind, Owned(p))'
    BY <1>2, <2>1, <2>2 DEF AtRest, Whole, OnRecord, OnlyVersion, Same
  <2>4. Whole(p)' BY <1>2, <2>2, <2>3 DEF AtRest, Whole, Same
  <2> QED BY <1>1, <1>2, <2>2, <2>4 DEF AtRest, Same
<1>3. CASE ~Installed(p)
  <2>1. Bare(p)' BY <1>3 DEF AtRest, Bare, Same
  <2> QED BY <1>1, <1>3, <2>1 DEF AtRest, Same
<1> QED BY <1>2, <1>3

(* Ways to be none of its business: nothing shared changes but the row of  *)
(* a package that is not installed, a directory, a journal of another one. *)
LEMMA SameAll ==
  ASSUME UNCHANGED <<rows, owner, dirs, journals, shims>>, NEW p
  PROVE  Same(p)
  BY DEF Same, Installed, Owned, Shimmed

LEMMA RowSame ==
  ASSUME UNCHANGED <<owner, dirs, journals, shims>>, NEW p,
         IF Installed(p) THEN rows'[p] = rows[p] ELSE ~Installed(p)'
  PROVE  Same(p)
  BY DEF Same, Owned, Shimmed

LEMMA DirSame ==
  ASSUME TypeOK, UNCHANGED <<rows, owner, journals, shims>>,
         NEW p \in Packages, NEW q \in Packages, p # q,
         dirs' \in [Paths -> Versions \cup {None, Partial}],
         \A d \in Paths : d[1] # p => dirs'[d] = dirs[d]
  PROVE  Same(q)
<1>1. <<q, "live">> \in Paths /\ <<q, "trash">> \in Paths BY DEF Paths
<1>2. <<q, "live">>[1] = q /\ <<q, "trash">>[1] = q OBVIOUS
<1> QED BY <1>1, <1>2 DEF Same, Installed, Owned, Shimmed

LEMMA JournalSame ==
  ASSUME TypeOK, UNCHANGED <<rows, owner, dirs, shims>>,
         NEW p, NEW v, NEW f, NEW q \in Packages, p # q,
         journals' = [journals EXCEPT ![<<p, v>>] = f]
  PROVE  Same(q)
<1>1. \A u \in Versions : <<q, u>> \in Keys /\ <<q, u>> # <<p, v>> BY DEF Keys
<1> QED BY <1>1 DEF Same, Installed, Owned, Shimmed, TypeOK

(* One process is at work, and all that it is not at work on is at rest.   *)
LEMMA Resting ==
  ASSUME Alone, Settling, NEW c \in Procs, NEW q \in Packages, Busy(c) => proc[c].pkg # q
  PROVE  AtRest(q)
  BY DEF Settling, Alone

(* How every step is dealt with: it disturbs at most the package of its    *)
(* process, which it then leaves at rest or stays busy with.               *)
LEMMA Settles ==
  ASSUME Alone, TypeOK, Settling, NEW c \in Procs, NEW p,
         ~Busy(c) \/ p = proc[c].pkg,
         \A q \in Packages : q # p => Same(q),
         \/ Busy(c)' /\ proc'[c].pkg = p
         \/ p \in Packages => AtRest(p)',
         Memory(c)', Course(c)'
  PROVE  Settling'
<1>1. ASSUME NEW q \in Packages, Busy(c)' => proc'[c].pkg # q
      PROVE  AtRest(q)'
  <2>1. CASE q = p BY <1>1, <2>1
  <2>2. CASE q # p
    <3>1. AtRest(q) BY <2>2, Resting
    <3> QED BY <2>2, <3>1, SameRests
  <2> QED BY <2>1, <2>2
<1> QED BY <1>1 DEF Settling, Alone

(* The command ends, or goes on with nothing changed that is at rest.      *)
LEMMA IdleMemory ==
  ASSUME NEW c, proc'[c].pc = "idle"
  PROVE  Memory(c)' /\ Course(c)' /\ ~Busy(c)'
  BY DEF Memory, Course, Busy, Calm, Undoing, Committing, Exposing, Removing

(* A place at rest has no course to keep.                                  *)
LEMMA CalmCourse ==
  ASSUME NEW c, proc'[c].pc \in Calm
  PROVE  Course(c)' /\ ~Busy(c)'
  BY DEF Course, Busy, Calm, Undoing, Committing, Exposing, Removing

(* From a place at rest to a place at rest, without a change.              *)
LEMMA CalmStep ==
  ASSUME Alone, TypeOK, Settling, NEW c \in Procs, ~Busy(c), proc'[c].pc \in Calm,
         \A q \in Packages : Same(q), Memory(c)'
  PROVE  Settling'
<1>1. Course(c)' /\ ~Busy(c)' BY CalmCourse
<1>2. ASSUME NEW q \in Packages PROVE AtRest(q)'
  BY Resting, SameRests
<1> QED BY <1>1, <1>2 DEF Settling, Alone

LEMMA CalmExit ==
  ASSUME Alone, TypeOK, Settling, NEW c \in Procs, ~Busy(c), Exit(c),
         \A q \in Packages : Same(q)
  PROVE  Settling'
<1>1. proc'[c].pc = "idle" BY ExitFacts DEF TypeOK
<1> QED BY <1>1, IdleMemory, CalmStep DEF Calm

(* Nothing fails.                                                          *)
LEMMA NoFailures ==
  ASSUME Alone, Faults = {}, Solo, NEW c \in Procs
  PROVE  /\ ~WriteFails(c) /\ ~ReadFails
         /\ \A d : ~CleanupFails(d)
         /\ TypeOK /\ Plan(c) /\ proc \in [Procs -> Locals] /\ proc[c] \in Locals
         /\ proc[c].pc \in PlannedLabels => proc[c].pkg \in Packages /\ proc[c].ver \in Versions
         /\ PlanIsSet(proc[c])
         /\ proc[c].pc \notin TxLabels => writer = None
  BY WritesSucceed, PlannedFacts
     DEF ReadFails, CleanupFails, Solo, Inv, TypeOK, CommitIsExclusive

(* cleanup_path leaves the other directories alone.                        *)
LEMMA CleanupFacts ==
  ASSUME TypeOK, NEW p \in Packages, NEW x \in {"live", "trash"}, Cleanup(<<p, x>>)
  PROVE  /\ dirs' \in [Paths -> Versions \cup {None, Partial}]
         /\ dirs'[<<p, x>>] = None
         /\ \A d \in Paths : d # <<p, x>> => dirs'[d] = dirs[d]
         /\ dirs[<<p, x>>] = None => dirs' = dirs
<1>1. <<p, x>> \in Paths BY DEF Paths
<1>2. dirs' \in [Paths -> Versions \cup {None, Partial}] BY CleanupType
<1> QED BY <1>1, <1>2 DEF Cleanup, TypeOK
----------------------------------------------------------------------------
(* Startup.                                                                *)
LEMMA StartupSettles ==
  ASSUME Alone, Faults = {}, Solo, Settling, NEW c \in Procs, StartupStep(c)
  PROVE  Settling'
<1>1. TypeOK /\ Plan(c) /\ proc \in [Procs -> Locals] /\ proc[c] \in Locals /\ ~WriteFails(c)
      /\ \A d : ~CleanupFails(d)
  BY NoFailures
<1>2. Memory(c) BY DEF Settling
<1>3. ~Busy(c)
  BY DEF StartupStep, Launch, MarkStaleFailed, RemoveStaleDir, At, Busy, Calm
<1>4. CASE Launch(c)
  <2>1. \A q \in Packages : Same(q) BY <1>4, SameAll DEF Launch, db, disk
  <2>2. proc' = [proc EXCEPT ![c] = [proc[c] EXCEPT
                   !.pc = IF InstallingRows = {} THEN "ready" ELSE "stale_row",
                   !.paths = InstallingRows \X {"live"}]]
    BY <1>1, <1>4 DEF Launch
  <2>3. PICK to : /\ to = IF InstallingRows = {} THEN "ready" ELSE "stale_row"
                  /\ proc'[c] = [proc[c] EXCEPT !.pc = to, !.paths = InstallingRows \X {"live"}]
    BY <1>1, <2>2
  <2>4. proc'[c].pc = to /\ proc'[c].paths = InstallingRows \X {"live"}
    BY <1>1, <2>3 DEF Locals
  <2>5. to = "ready" => proc'[c].paths = {} BY <2>3, <2>4
  <2>6. Memory(c)'
    BY <2>3, <2>4, <2>5 DEF Memory, Calm, Undoing, Committing, Exposing, Removing
  <2>7. proc'[c].pc \in Calm BY <2>3, <2>4 DEF Calm
  <2> QED BY <1>1, <1>3, <2>1, <2>6, <2>7, CalmStep
<1>5. CASE MarkStaleFailed(c)
  <2>2. PICK d \in proc[c].paths :
          /\ SetStatus(d[1], "failed")
          /\ proc' = [proc EXCEPT ![c].pc = "stale_dir", ![c].pkg = d[1]]
    BY <1>1, <1>5 DEF MarkStaleFailed
  <2>3. proc[c].pc = "stale_row" BY <1>5 DEF MarkStaleFailed, At
  <2>4. d[1] \in Packages /\ Present(d[1]) /\ ~Installed(d[1])
    BY <1>1, <2>3 DEF Plan, Present, Installed
  <2>5. /\ rows'[d[1]].status = "failed"
        /\ \A q \in Packages \ {d[1]} : rows'[q] = rows[q]
    BY <1>1, <2>2, <2>4, StatusFacts
  <2>6. \A q \in Packages : Same(q)
    BY <1>5, <2>4, <2>5, RowSame DEF MarkStaleFailed, disk, Installed
  <2>7. proc' = [proc EXCEPT ![c] = [proc[c] EXCEPT !.pc = "stale_dir", !.pkg = d[1]]]
    BY <1>1, <2>2
  <2>8. proc'[c].pc = "stale_dir" /\ proc'[c].pkg = d[1] BY <1>1, <2>7 DEF Locals
  <2>9. Memory(c)'
    BY <2>4, <2>5, <2>8 DEF Memory, Installed, Calm, Undoing, Committing, Exposing, Removing
  <2> QED BY <1>1, <1>3, <2>6, <2>8, <2>9, CalmStep DEF Calm
<1>6. CASE RemoveStaleDir(c)
  <2> DEFINE rest == proc[c].paths \ {Live(c)}
             p    == proc[c].pkg
  <2>1. p \in Packages /\ ~Installed(p) BY <1>2, <1>6 DEF Memory, RemoveStaleDir, At
  <2>2. dirs[<<p, "live">>] = None BY <1>3, <2>1, Resting DEF AtRest
  <2>3. dirs' = dirs BY <1>1, <1>6, <2>1, <2>2, CleanupFacts DEF RemoveStaleDir, Live
  <2>4. \A q \in Packages : Same(q) BY <1>6, <2>3, SameAll DEF RemoveStaleDir, db
  <2>5. proc' = [proc EXCEPT ![c] = [proc[c] EXCEPT
                   !.pc = IF rest = {} THEN "ready" ELSE "stale_row",
                   !.paths = rest, !.pkg = None]]
    BY <1>1, <1>6 DEF RemoveStaleDir
  <2>6. PICK to : /\ to = IF rest = {} THEN "ready" ELSE "stale_row"
                  /\ proc'[c] = [proc[c] EXCEPT !.pc = to, !.paths = rest, !.pkg = None]
    BY <1>1, <2>5
  <2>7. proc'[c].pc = to /\ proc'[c].paths = rest BY <1>1, <2>6 DEF Locals
  <2> HIDE DEF rest
  <2>8. Memory(c)'
    BY <2>6, <2>7 DEF Memory, Calm, Undoing, Committing, Exposing, Removing
  <2>9. proc'[c].pc \in Calm BY <2>6, <2>7 DEF Calm
  <2> QED BY <1>1, <1>3, <2>4, <2>8, <2>9, CalmStep
<1> QED BY <1>4, <1>5, <1>6 DEF StartupStep
----------------------------------------------------------------------------
(* Install, up to the engine.                                              *)
LEMMA PrepareSettles ==
  ASSUME Alone, Faults = {}, Solo, Settling, NEW c \in Procs,
         \/ ResolveAndInspect(c) \/ DropFailedRow(c) \/ ClearInstallDir(c) \/ Abandon(c)
         \/ MarkInstalling(c) \/ BuildClientFails(c) \/ ProbeAndReclassify(c)
  PROVE  Settling'
<1> DEFINE p == proc[c].pkg
<1>1. TypeOK /\ Plan(c) /\ proc \in [Procs -> Locals] /\ proc[c] \in Locals
      /\ ~WriteFails(c) /\ ~ReadFails /\ \A d : ~CleanupFails(d)
  BY NoFailures
<1>2. Memory(c) BY DEF Settling
<1>3. ~Busy(c)
  BY DEF ResolveAndInspect, DropFailedRow, ClearInstallDir, Abandon, MarkInstalling,
         BuildClientFails, ProbeAndReclassify, At, Busy, Calm
<1>4. proc[c].pc \in PlannedLabels => p \in Packages /\ proc[c].ver \in Versions
      /\ proc[c].kind \in EngineKinds
  BY NoFailures DEF PlanIsSet
<1>5. CASE UNCHANGED <<db, disk>> /\ Exit(c)
  BY <1>1, <1>3, <1>5, SameAll, CalmExit DEF db, disk
<1>6. CASE ResolveAndInspect(c) /\ ~Exit(c)
  <2>1. PICK k \in Keys :
          LET status  == rows[k[1]].status
              blocked == Claimed(k[1], Exposes[k])
              next    == IF status = "failed" THEN "drop_row"
                         ELSE IF dirs[<<k[1], "live">>] # None THEN "clear_dir"
                         ELSE "mark"
          IN  /\ ~(status \in {"ok", "installing"} \/ (next = "mark" /\ blocked))
              /\ proc' = [proc EXCEPT ![c].pc = next, ![c].pkg = k[1], ![c].ver = k[2],
                                      ![c].kind = Manifest[k[1]],
                                      ![c].cmds = Exposes[k], ![c].blocked = blocked]
    BY <1>6 DEF ResolveAndInspect
  <2> DEFINE status == rows[k[1]].status
             b  == Claimed(k[1], Exposes[k])
             to == IF status = "failed" THEN "drop_row"
                   ELSE IF dirs[<<k[1], "live">>] # None THEN "clear_dir" ELSE "mark"
  <2>2. /\ to \in {"drop_row", "clear_dir", "mark"}
        /\ to = "drop_row" <=> status = "failed"
        /\ status \notin {"ok", "installing"}
        /\ to = "mark" => ~b
    BY <2>1
  <2> HIDE DEF b, to
  <2>3. /\ proc'[c].pc = to /\ proc'[c].pkg = k[1] /\ proc'[c].ver = k[2]
        /\ proc'[c].cmds = Exposes[k] /\ proc'[c].blocked = b
    <3>1. proc' = [proc EXCEPT ![c].pc = to, ![c].pkg = k[1], ![c].ver = k[2],
                               ![c].kind = Manifest[k[1]], ![c].cmds = Exposes[k],
                               ![c].blocked = b]
      BY <2>1 DEF b, to
    <3>2. proc'[c] = [proc[c] EXCEPT !.pc = to, !.pkg = k[1], !.ver = k[2],
                        !.kind = Manifest[k[1]], !.cmds = Exposes[k], !.blocked = b]
      BY <1>1, <3>1
    <3> QED BY <1>1, <3>2 DEF Locals
  <2>4. k = <<k[1], k[2]>> /\ k[1] \in Packages BY DEF Keys
  <2>5. to # "drop_row" => rows[k[1]].status = "absent"
    BY <1>1, <2>2, <2>4 DEF TypeOK, Rows, NoRow
  <2>6. UNCHANGED <<db, disk>> BY <1>6 DEF ResolveAndInspect
  <2>7. Memory(c)'
    BY <2>2, <2>3, <2>4, <2>5, <2>6
       DEF b, Memory, Key, Claimed, Present, db, Calm, Undoing, Committing, Exposing, Removing
  <2>8. \A q \in Packages : Same(q) BY <2>6, SameAll DEF db, disk
  <2> QED BY <1>1, <1>3, <2>2, <2>3, <2>7, <2>8, CalmStep DEF Calm
<1>7. CASE DropFailedRow(c)
  <2>1. At(c, "drop_row") /\ DeleteRow(p) /\ Goto(c, "clear_dir") /\ UNCHANGED disk
    BY <1>1, <1>7 DEF DropFailedRow
  <2>2. p \in Packages /\ ~Installed(p)
    BY <1>1, <1>4, <2>1 DEF At, PlannedLabels, Plan, Status, Installed
  <2>3. Owned(p) = {} BY <1>3, <2>2, Resting DEF AtRest, Bare
  <2>4. UNCHANGED owner BY <1>1, <2>1, <2>3 DEF DeleteRow, Owned, TypeOK
  <2>5. rows'[p] = NoRow /\ \A q \in Packages \ {p} : rows'[q] = rows[q]
    BY <1>1, <2>1, <2>2 DEF DeleteRow, TypeOK
  <2>6. \A q \in Packages : Same(q)
    BY <2>1, <2>2, <2>4, <2>5, RowSame DEF disk, Installed, NoRow
  <2>7. proc'[c] = [proc[c] EXCEPT !.pc = "clear_dir"]
    BY <1>1, <2>1 DEF Goto
  <2>8. /\ proc'[c].pc = "clear_dir" /\ proc'[c].pkg = p /\ proc'[c].ver = proc[c].ver
        /\ proc'[c].cmds = proc[c].cmds /\ proc'[c].blocked = proc[c].blocked
    BY <1>1, <2>7 DEF Locals
  <2>9. Memory(c)'
    BY <1>2, <2>1, <2>4, <2>5, <2>8
       DEF Memory, At, Key, Claimed, Present, NoRow, Calm, Undoing, Committing, Exposing, Removing
  <2> QED BY <1>1, <1>3, <2>6, <2>8, <2>9, CalmStep DEF Calm
<1>8. CASE ClearInstallDir(c)
  <2>1. At(c, "clear_dir") /\ Cleanup(Live(c)) /\ UNCHANGED <<db, journals, shims>>
    BY <1>1, <1>8 DEF ClearInstallDir
  <2>2. p \in Packages /\ ~Installed(p)
    BY <1>2, <1>4, <2>1 DEF At, PlannedLabels, Memory, Present, Installed
  <2>3. dirs[<<p, "live">>] = None BY <1>3, <2>2, Resting DEF AtRest
  <2>4. UNCHANGED dirs BY <1>1, <2>1, <2>2, <2>3, CleanupFacts DEF Live
  <2>5. UNCHANGED <<db, disk>> BY <2>1, <2>4 DEF disk
  <2>6. CASE ~proc[c].blocked /\ Goto(c, "mark")
    <3>1. proc'[c] = [proc[c] EXCEPT !.pc = "mark"] BY <1>1, <2>6 DEF Goto
    <3>2. /\ proc'[c].pc = "mark" /\ proc'[c].pkg = p /\ proc'[c].ver = proc[c].ver
          /\ proc'[c].cmds = proc[c].cmds
      BY <1>1, <3>1 DEF Locals
    <3>3. Memory(c)'
      BY <1>2, <2>1, <2>5, <2>6, <3>2
         DEF Memory, At, Key, Claimed, Present, db, Calm, Undoing, Committing, Exposing, Removing
    <3>4. \A q \in Packages : Same(q) BY <2>5, SameAll DEF db, disk
    <3> QED BY <1>1, <1>3, <3>2, <3>3, <3>4, CalmStep DEF Calm
  <2> QED BY <1>5, <1>8, <1>1, <2>5, <2>6 DEF ClearInstallDir
<1>9. CASE MarkInstalling(c) /\ ~Exit(c)
  <2>1. /\ At(c, "mark") /\ InsertRow(p, proc[c].ver, proc[c].kind, "installing")
        /\ Goto(c, "download") /\ ~Present(p) /\ UNCHANGED <<owner, disk>>
    BY <1>9 DEF MarkInstalling
  <2>2. p \in Packages BY <1>4, <2>1 DEF At, PlannedLabels
  <2>3. rows'[p] = [status |-> "installing", ver |-> proc[c].ver, kind |-> proc[c].kind]
        /\ \A q \in Packages \ {p} : rows'[q] = rows[q]
    BY <1>1, <2>1, <2>2 DEF InsertRow, TypeOK
  <2>4. \A q \in Packages : Same(q)
    BY <2>1, <2>2, <2>3, RowSame DEF disk, Installed, Present
  <2>5. proc'[c] = [proc[c] EXCEPT !.pc = "download"] BY <1>1, <2>1 DEF Goto
  <2>6. /\ proc'[c].pc = "download" /\ proc'[c].pkg = p /\ proc'[c].ver = proc[c].ver
        /\ proc'[c].cmds = proc[c].cmds /\ proc'[c].kind = proc[c].kind
    BY <1>1, <2>5 DEF Locals
  <2>7. Memory(c)'
    BY <1>2, <2>1, <2>3, <2>6
       DEF Memory, At, Key, Claimed, Calm, Undoing, Committing, Exposing, Removing
  <2> QED BY <1>1, <1>3, <2>4, <2>6, <2>7, CalmStep DEF Calm
<1>10. CASE ProbeAndReclassify(c)
  <2>1. PICK k \in Probe[p] :
          /\ rows' = [rows EXCEPT ![p] = IF k # proc[c].kind /\ @.status # "absent"
                                         THEN [@ EXCEPT !.kind = k] ELSE @]
          /\ proc' = [proc EXCEPT ![c].pc = "engine", ![c].kind = k]
    BY <1>1, <1>10 DEF ProbeAndReclassify
  <2>2. proc[c].pc = "download" /\ p \in Packages /\ UNCHANGED <<owner, disk>>
    BY <1>4, <1>10 DEF ProbeAndReclassify, At, PlannedLabels
  <2>3. rows[p] = [status |-> "installing", ver |-> proc[c].ver, kind |-> proc[c].kind]
    BY <1>2, <2>2 DEF Memory
  <2>4. rows'[p] = [status |-> "installing", ver |-> proc[c].ver, kind |-> k]
        /\ \A q \in Packages \ {p} : rows'[q] = rows[q]
    BY <1>1, <2>1, <2>2, <2>3 DEF TypeOK
  <2>5. \A q \in Packages : Same(q)
    BY <2>2, <2>3, <2>4, RowSame DEF disk, Installed
  <2>6. proc'[c] = [proc[c] EXCEPT !.pc = "engine", !.kind = k] BY <1>1, <2>1
  <2>7. /\ proc'[c].pc = "engine" /\ proc'[c].pkg = p /\ proc'[c].ver = proc[c].ver
        /\ proc'[c].cmds = proc[c].cmds /\ proc'[c].kind = k
    BY <1>1, <2>6 DEF Locals
  <2>8. Memory(c)'
    BY <1>2, <2>2, <2>4, <2>7
       DEF Memory, Key, Claimed, Calm, Undoing, Committing, Exposing, Removing
  <2> QED BY <1>1, <1>3, <2>5, <2>7, <2>8, CalmStep DEF Calm
<1>11. CASE Exit(c) /\ ~ClearInstallDir(c) /\ ~DropFailedRow(c)
  <2>1. UNCHANGED <<owner, writer, disk>>
    BY <1>11 DEF ResolveAndInspect, Abandon, MarkInstalling, BuildClientFails,
                 ProbeAndReclassify, db
  <2>2. UNCHANGED rows \/ MarkInstalling(c) \/ ProbeAndReclassify(c)
    BY <1>11 DEF ResolveAndInspect, Abandon, BuildClientFails, db
  <2>3. CASE MarkInstalling(c) /\ ~UNCHANGED rows
    <3>1. Goto(c, "download") BY <2>3 DEF MarkInstalling
    <3> QED BY <1>1, <1>9, <1>11, <2>3, <3>1, ExitFacts, GotoFacts DEF Labels, Goto
  <2> QED BY <1>5, <1>10, <1>11, <2>1, <2>2, <2>3 DEF db
<1> QED BY <1>6, <1>7, <1>8, <1>9, <1>10, <1>11
        DEF ResolveAndInspect, Abandon, BuildClientFails
----------------------------------------------------------------------------
(* The engine, and the rollback of what it did.                            *)
(* An engine writes the package's own directory and no other.              *)
LEMMA LiveFacts ==
  ASSUME TypeOK, NEW p \in Packages, NEW e \in Versions \cup {None, Partial},
         dirs' = [dirs EXCEPT ![<<p, "live">>] = e]
  PROVE  /\ dirs' \in [Paths -> Versions \cup {None, Partial}]
         /\ dirs'[<<p, "live">>] = e
         /\ dirs'[<<p, "trash">>] = dirs[<<p, "trash">>]
         /\ \A d \in Paths : d[1] # p => dirs'[d] = dirs[d]
<1>1. <<p, "live">> \in Paths /\ <<p, "trash">> \in Paths /\ <<p, "live">> # <<p, "trash">>
  BY DEF Paths
<1>2. \A d \in Paths : d[1] # p => d # <<p, "live">> OBVIOUS
<1> QED BY <1>1, <1>2 DEF TypeOK

(* A process that only moves on remembers the rest.                        *)
LEMMA MovedOn ==
  ASSUME proc \in [Procs -> Locals], NEW c \in Procs, NEW l \in Labels, Goto(c, l)
  PROVE  /\ proc'[c].pc = l /\ proc'[c].pkg = proc[c].pkg /\ proc'[c].ver = proc[c].ver
         /\ proc'[c].kind = proc[c].kind /\ proc'[c].cmds = proc[c].cmds
         /\ proc'[c].paths = proc[c].paths
<1>1. proc[c] \in Locals OBVIOUS
<1>2. proc'[c] = [proc[c] EXCEPT !.pc = l] BY DEF Goto
<1> QED BY <1>1, <1>2 DEF Locals

LEMMA EngineSettles ==
  ASSUME Alone, Faults = {}, Solo, Settling, NEW c \in Procs,
         EngineInstalls(c) \/ InstallFails(c)
  PROVE  Settling'
<1>0. PICK p : p = proc[c].pkg OBVIOUS
<1> USE <1>0
<1>1. TypeOK /\ proc \in [Procs -> Locals] BY NoFailures
<1>2. Memory(c) BY DEF Settling
<1>3. proc[c].pc \in {"download", "engine"} /\ ~Busy(c) /\ UNCHANGED <<rows, owner, journals, shims>>
  BY DEF EngineInstalls, InstallFails, At, Busy, Calm, db
<1>4. p \in Packages /\ proc[c].ver \in Versions /\ AtRest(p)
  BY <1>3, NoFailures, Resting DEF PlannedLabels
<1>5. rows[p].status = "installing" BY <1>2, <1>3 DEF Memory
<1>6. ~Installed(p) /\ NoTrash(p) /\ Bare(p) BY <1>4, <1>5 DEF AtRest, Installed
<1>7. CASE EngineInstalls(c)
  <2>1. proc[c].pc = "engine" /\ Goto(c, "begin")
        /\ dirs' = [dirs EXCEPT ![<<p, "live">>] = proc[c].ver]
    BY <1>7 DEF EngineInstalls, At, Live
  <2>2. /\ dirs' \in [Paths -> Versions \cup {None, Partial}]
        /\ dirs'[<<p, "live">>] = proc[c].ver
        /\ dirs'[<<p, "trash">>] = dirs[<<p, "trash">>]
        /\ \A d \in Paths : d[1] # p => dirs'[d] = dirs[d]
    BY <1>1, <1>4, <2>1, LiveFacts
  <2>3. \A q \in Packages : q # p => Same(q) BY <1>1, <1>3, <1>4, <2>2, DirSame
  <2>4. /\ proc'[c].pc = "begin" /\ proc'[c].pkg = p /\ proc'[c].ver = proc[c].ver
        /\ proc'[c].kind = proc[c].kind /\ proc'[c].cmds = proc[c].cmds
    BY <1>1, <2>1, MovedOn DEF Labels
  <2>5. Memory(c)'
    BY <1>2, <1>3, <2>1, <2>4
       DEF Memory, Key, Claimed, Calm, Undoing, Committing, Exposing, Removing
  <2>6. Course(c)'
    BY <1>3, <1>4, <1>6, <2>2, <2>4
       DEF Course, Key, Live, NoTrash, Bare, OnlyVersion, Owned, Shimmed,
           Undoing, Committing, Exposing, Removing
  <2>7. Busy(c)' BY <2>4 DEF Busy, Calm
  <2> QED BY <1>1, <1>3, <2>3, <2>4, <2>5, <2>6, <2>7, Settles
<1>8. CASE InstallFails(c)
  <2>1. Goto(c, "rollback_row")
        /\ (UNCHANGED dirs \/ \E e \in EngineDebris(c) : dirs' = [dirs EXCEPT ![<<p, "live">>] = e])
    BY <1>8 DEF InstallFails, Live
  <2>2. <<p, "live">> \in Paths BY <1>4 DEF Paths
  <2>3. EngineDebris(c) \subseteq Versions \cup {None, Partial}
    BY <1>1, <1>4, <2>2 DEF EngineDebris, Live, TypeOK
  <2>4. /\ dirs' \in [Paths -> Versions \cup {None, Partial}]
        /\ dirs'[<<p, "trash">>] = dirs[<<p, "trash">>]
        /\ \A d \in Paths : d[1] # p => dirs'[d] = dirs[d]
    BY <1>1, <1>4, <2>1, <2>3, LiveFacts DEF TypeOK
  <2>5. \A q \in Packages : q # p => Same(q) BY <1>1, <1>3, <1>4, <2>4, DirSame
  <2>6. proc'[c].pc = "rollback_row" /\ proc'[c].pkg = p
    BY <1>1, <2>1, MovedOn DEF Labels
  <2>7. Memory(c)' BY <2>6 DEF Memory, Calm, Undoing, Committing, Exposing, Removing
  <2>8. Course(c)'
    BY <1>3, <1>6, <2>4, <2>6
       DEF Course, NoTrash, Bare, Installed, Owned, Shimmed, Undoing, Committing, Exposing, Removing
  <2>9. Busy(c)' BY <2>6 DEF Busy, Calm
  <2> QED BY <1>1, <1>3, <2>5, <2>6, <2>7, <2>8, <2>9, Settles
<1> QED BY <1>7, <1>8

LEMMA RollbackSettles ==
  ASSUME Alone, Faults = {}, Solo, Settling, NEW c \in Procs, RollbackRow(c) \/ RollbackDir(c)
  PROVE  Settling'
<1>0. PICK p : p = proc[c].pkg OBVIOUS
<1> USE <1>0
<1>1. TypeOK /\ proc \in [Procs -> Locals] /\ ~WriteFails(c) /\ \A d : ~CleanupFails(d)
  BY NoFailures
<1>2. Course(c) BY DEF Settling
<1>3. proc[c].pc \in Undoing /\ UNCHANGED <<owner, journals, shims>>
  BY DEF RollbackRow, RollbackDir, At, Undoing, db, disk
<1>4. p \in Packages BY <1>3, NoFailures DEF Undoing, PlannedLabels
<1>5. NoTrash(p) /\ ~Installed(p) /\ Bare(p) BY <1>2, <1>3 DEF Course
<1>6. CASE RollbackRow(c)
  <2>1. SetStatus(p, "failed") /\ Goto(c, "rollback_dir") /\ UNCHANGED dirs
    BY <1>1, <1>6 DEF RollbackRow, disk
  <2>2. ~Installed(p)' /\ \A q \in Packages : q # p => rows'[q] = rows[q]
    BY <1>1, <1>4, <1>5, <2>1, StatusFacts DEF Installed, Present
  <2>3. \A q \in Packages : q # p => Same(q) BY <1>3, <2>1, <2>2, RowSame DEF Installed
  <2>4. proc'[c].pc = "rollback_dir" /\ proc'[c].pkg = p
    BY <1>1, <2>1, MovedOn DEF Labels
  <2>5. Memory(c)' BY <2>4 DEF Memory, Calm, Undoing, Committing, Exposing, Removing
  <2>6. Course(c)'
    BY <1>3, <1>5, <2>1, <2>2, <2>4
       DEF Course, NoTrash, Bare, Owned, Shimmed, Undoing, Committing, Exposing, Removing
  <2>7. Busy(c)' BY <2>4 DEF Busy, Calm
  <2> QED BY <1>1, <2>3, <2>4, <2>5, <2>6, <2>7, Settles
<1>7. CASE RollbackDir(c)
  <2>1. Cleanup(<<p, "live">>) /\ Exit(c) /\ UNCHANGED rows
    BY <1>1, <1>7 DEF RollbackDir, Live, db
  <2>2. <<p, "trash">> \in Paths /\ <<p, "trash">> # <<p, "live">>
        /\ \A d \in Paths : d[1] # p => d # <<p, "live">>
    BY <1>4 DEF Paths
  <2>3. /\ dirs' \in [Paths -> Versions \cup {None, Partial}]
        /\ dirs'[<<p, "live">>] = None /\ dirs'[<<p, "trash">>] = dirs[<<p, "trash">>]
        /\ \A d \in Paths : d[1] # p => dirs'[d] = dirs[d]
    BY <1>1, <1>4, <2>1, <2>2, CleanupFacts
  <2>4. \A q \in Packages : q # p => Same(q) BY <1>1, <1>3, <1>4, <2>1, <2>3, DirSame
  <2>5. AtRest(p)'
    BY <1>3, <1>5, <2>1, <2>3 DEF AtRest, NoTrash, Bare, Installed, Owned, Shimmed
  <2>6. proc'[c].pc = "idle" BY <1>1, <2>1, ExitFacts
  <2> QED BY <1>1, <2>4, <2>5, <2>6, IdleMemory, Settles
<1> QED BY <1>6, <1>7
----------------------------------------------------------------------------
(* The commit.                                                             *)

(* Nothing is on record of a version that is not there, and what is        *)
(* written into an empty journal is its two entries.                       *)
LEMMA WrittenOnce ==
  ASSUME NEW m \in Metas
  PROVE  Committed(Written(EmptyFile, m)) /\ FirstMeta(Written(EmptyFile, m)) = m
<1>1. Written(EmptyFile, m).lines = <<>> \o <<MetaLine(m), CommitLine>>
  BY DEF Written, Extend, EmptyFile
<1>2. MetaLine(m) \in Lines /\ CommitLine \in Lines BY DEF MetaLine, Lines
<1>3. <<>> \o <<MetaLine(m), CommitLine>> = <<MetaLine(m), CommitLine>> BY <1>2
<1>4. Written(EmptyFile, m).utf8 BY DEF Written, Extend, EmptyFile
<1> QED BY <1>1, <1>3, <1>4 DEF Committed, AllMeta, FirstMeta, MetaLine, CommitLine

LEMMA CommitSettles ==
  ASSUME Alone, Faults = {}, Solo, Settling, NEW c \in Procs,
         BeginCommit(c) \/ OpenJournal(c) \/ WriteJournal(c) \/ CommitTx(c)
  PROVE  Settling'
<1>0. PICK p, v : p = proc[c].pkg /\ v = proc[c].ver OBVIOUS
<1> USE <1>0
<1> DEFINE k == <<p, v>>
<1>1. TypeOK /\ proc \in [Procs -> Locals] /\ ~WriteFails(c) /\ ~ReadFails
  BY NoFailures
<1>2. Memory(c) /\ Course(c) BY DEF Settling
<1>3. proc[c].pc \in Committing /\ UNCHANGED <<dirs, shims>>
  BY <1>2 DEF BeginCommit, OpenJournal, WriteJournal, CommitTx, At, Committing, disk, WriteLabels,
              Memory, Calm, Undoing, Exposing, Removing
<1>4. p \in Packages /\ v \in Versions /\ proc[c].kind \in EngineKinds
  BY <1>3, NoFailures DEF Committing, PlannedLabels, PlanIsSet
<1>5. /\ rows[p] = [status |-> "installing", ver |-> v, kind |-> proc[c].kind]
      /\ proc[c].cmds = Exposes[k] /\ ~Claimed(p, proc[c].cmds)
  BY <1>2, <1>3 DEF Memory, Key, Committing
<1>6. /\ NoTrash(p) /\ dirs[<<p, "live">>] = v
      /\ Owned(p) = {} /\ OnlyVersion(p, v) /\ Shimmed(p) = {}
  BY <1>2, <1>3 DEF Course, Live
<1>7. JournalKey(c) = k /\ JournalMeta(c) = [kind |-> proc[c].kind, cmds |-> proc[c].cmds]
  BY <1>5 DEF JournalKey, JournalMeta
<1>8. k \in Keys /\ journals[k] \in Files /\ Present(p) BY <1>1, <1>4, <1>5 DEF Keys, TypeOK, Present
<1>9. JournalMeta(c) \in Metas
  BY <1>3, <1>4, <1>7, NoFailures DEF Metas, Locals
<1>10. CASE BeginCommit(c)
  <2>1. Goto(c, "open") /\ UNCHANGED <<rows, owner, disk>> /\ proc[c].pc = "begin"
    BY <1>1, <1>5, <1>8, <1>10 DEF BeginCommit, CommandConflict, At
  <2>2. /\ proc'[c].pc = "open" /\ proc'[c].pkg = p /\ proc'[c].ver = v
        /\ proc'[c].kind = proc[c].kind /\ proc'[c].cmds = proc[c].cmds
    BY <1>1, <2>1, MovedOn DEF Labels
  <2>3. Memory(c)'
    BY <1>5, <2>1, <2>2
       DEF Memory, Key, Claimed, Calm, Undoing, Committing, Exposing, Removing
  <2>4. Course(c)'
    BY <1>2, <1>6, <2>1, <2>2
       DEF Course, Key, Live, NoTrash, OnlyVersion, Owned, Shimmed, disk,
           Undoing, Committing, Exposing, Removing
  <2>5. \A q \in Packages : q # p => Same(q) BY <2>1, SameAll DEF disk
  <2>6. Busy(c)' BY <2>2 DEF Busy, Calm
  <2> QED BY <1>1, <2>2, <2>3, <2>4, <2>5, <2>6, Settles
<1>11. CASE OpenJournal(c) \/ WriteJournal(c)
  <2>1. \E l \in {"journal", "commit"}, f \in Files :
          /\ Goto(c, l) /\ journals' = [journals EXCEPT ![k] = f]
          /\ l = "journal" => f = EmptyFile
          /\ l = "commit" => Committed(f) /\ FirstMeta(f) = JournalMeta(c)
    <3>1. CASE OpenJournal(c)
      <4>1. ~journals[k].exists BY <1>2, <3>1 DEF OpenJournal, At, Course, Key
      <4>2. Openable(journals[k]) /\ Opened(journals[k]) = EmptyFile
        BY <4>1 DEF Openable, Opened
      <4>3. journals' = [journals EXCEPT ![k] = EmptyFile] /\ Goto(c, "journal")
        BY <1>7, <3>1, <4>1, <4>2 DEF OpenJournal
      <4>4. EmptyFile \in Files BY <1>8, <4>2, OpenedType
      <4> QED BY <4>3, <4>4
    <3>2. CASE WriteJournal(c)
      <4>1. journals[k] = EmptyFile
        BY <1>2, <1>3, <3>2 DEF WriteJournal, WriteLabels, Committing, Course, Key
      <4>2. EmptyFile.exists BY DEF EmptyFile
      <4>3. journals' = [journals EXCEPT ![k] = Written(EmptyFile, JournalMeta(c))]
            /\ Goto(c, "commit")
        BY <1>1, <1>7, <1>8, <3>2, <4>1, <4>2 DEF WriteJournal, TypeOK
      <4>4. Written(EmptyFile, JournalMeta(c)) \in Files BY <1>8, <1>9, <4>1, WriteType
      <4> QED BY <1>9, <4>3, <4>4, WrittenOnce
    <3> QED BY <1>11, <3>1, <3>2
  <2>2. PICK l \in {"journal", "commit"}, f \in Files :
          /\ Goto(c, l) /\ journals' = [journals EXCEPT ![k] = f]
          /\ l = "journal" => f = EmptyFile
          /\ l = "commit" => Committed(f) /\ FirstMeta(f) = JournalMeta(c)
    BY <2>1
  <2>3. UNCHANGED <<rows, owner>> BY <1>11 DEF OpenJournal, WriteJournal
  <2>4. /\ proc'[c].pc = l /\ proc'[c].pkg = p /\ proc'[c].ver = v
        /\ proc'[c].kind = proc[c].kind /\ proc'[c].cmds = proc[c].cmds
    BY <1>1, <2>2, MovedOn DEF Labels
  <2>5. journals'[k] = f /\ \A u \in Versions \ {v} : journals'[<<p, u>>] = journals[<<p, u>>]
    BY <1>1, <1>4, <1>8, <2>2 DEF TypeOK, Keys
  <2>6. Memory(c)'
    BY <1>5, <2>3, <2>4
       DEF Memory, Key, Claimed, Calm, Undoing, Committing, Exposing, Removing
  <2>7. Course(c)'
    BY <1>3, <1>5, <1>6, <1>7, <2>2, <2>3, <2>4, <2>5
       DEF Course, Key, Live, NoTrash, OnlyVersion, OnRecord, Owned, Shimmed,
           Undoing, Committing, Exposing, Removing
  <2>8. \A q \in Packages : q # p => Same(q)
    BY <1>1, <1>3, <2>2, <2>3, JournalSame
  <2>9. Busy(c)' BY <2>4 DEF Busy, Calm
  <2> QED BY <1>1, <2>4, <2>6, <2>7, <2>8, <2>9, Settles
<1>12. CASE CommitTx(c)
  <2>1. /\ SetStatus(p, "ok") /\ SyncCommands(p, proc[c].cmds) /\ Goto(c, "read_commands")
        /\ UNCHANGED journals /\ proc[c].pc = "commit"
    BY <1>12 DEF CommitTx, At, disk
  <2>2. /\ rows'[p].status = "ok" /\ rows'[p].ver = v /\ rows'[p].kind = proc[c].kind
        /\ \A q \in Packages : q # p => rows'[q] = rows[q]
    <3>1. rows' = [rows EXCEPT ![p] = [rows[p] EXCEPT !.status = "ok"]]
      BY <1>1, <1>4, <1>8, <2>1 DEF SetStatus, TypeOK
    <3> QED BY <1>1, <1>4, <1>5, <3>1 DEF TypeOK
  <2>3. Owned(p)' = proc[c].cmds /\ \A q \in Packages : q # p => Owned(q)' = Owned(q)
    <3>1. proc[c].cmds \subseteq Commands BY <1>1 DEF Locals
    <3>2. \A x \in Commands : owner'[x] = IF x \in proc[c].cmds THEN p
                                          ELSE IF owner[x] = p THEN None ELSE owner[x]
      BY <2>1 DEF SyncCommands
    <3>3. \A x \in proc[c].cmds : owner[x] \in {None, p} BY <1>5 DEF Claimed
    <3>4. None \notin Packages BY NoneIsFresh
    <3> QED BY <1>4, <1>6, <3>1, <3>2, <3>3, <3>4 DEF Owned
  <2>4. /\ proc'[c].pc = "read_commands" /\ proc'[c].pkg = p
    BY <1>1, <2>1, MovedOn DEF Labels
  <2>5. OnRecord(p, proc[c].kind, proc[c].cmds) BY <1>2, <2>1 DEF Course
  <2>6. OnRecord(p, rows[p].kind, Owned(p))'
    BY <1>5, <2>1, <2>2, <2>3, <2>5 DEF OnRecord, OnlyVersion
  <2>7. Whole(p)' /\ Installed(p)'
    BY <1>3, <1>4, <1>5, <1>6, <2>2, <2>3, <2>6, PartialIsFresh DEF Whole, Installed
  <2>8. Memory(c)' BY <2>4 DEF Memory, Calm, Undoing, Committing, Exposing, Removing
  <2>9. Course(c)'
    BY <1>3, <1>6, <2>4, <2>7
       DEF Course, NoTrash, Shimmed, Undoing, Committing, Exposing, Removing
  <2>10. \A q \in Packages : q # p => Same(q)
    BY <1>3, <2>1, <2>2, <2>3 DEF Same, Installed, Shimmed
  <2>11. Busy(c)' BY <2>4 DEF Busy, Calm
  <2> QED BY <1>1, <2>4, <2>8, <2>9, <2>10, <2>11, Settles
<1> QED BY <1>10, <1>11, <1>12
----------------------------------------------------------------------------
(* The shims of what was committed.                                        *)
LEMMA ExposeSettles ==
  ASSUME Alone, Faults = {}, Solo, Settling, NEW c \in Procs, ReadCommands(c) \/ PublishShims(c)
  PROVE  Settling'
<1>0. PICK p : p = proc[c].pkg OBVIOUS
<1> USE <1>0
<1>1. TypeOK /\ proc \in [Procs -> Locals] /\ proc[c] \in Locals /\ ~ReadFails
  BY NoFailures
<1>2. Memory(c) /\ Course(c) BY DEF Settling
<1>3. proc[c].pc \in Exposing /\ UNCHANGED <<rows, owner, dirs, journals>>
  BY DEF ReadCommands, PublishShims, At, Exposing, db, disk
<1>4. p \in Packages BY <1>3, NoFailures DEF Exposing, PlannedLabels
<1>5. NoTrash(p) /\ Installed(p) /\ Whole(p) /\ Shimmed(p) = {}
  BY <1>2, <1>3 DEF Course
<1>6. NoTrash(p)' /\ Installed(p)' /\ Whole(p)' /\ Owned(p)' = Owned(p)
  BY <1>3, <1>5 DEF NoTrash, Installed, Whole, OnRecord, OnlyVersion, Owned
<1>7. CASE ReadCommands(c)
  <2>1. /\ proc' = [proc EXCEPT ![c].pc = "write_shims", ![c].cmds = Owned(p)]
        /\ UNCHANGED shims
    BY <1>1, <1>5, <1>7 DEF ReadCommands, Present, Installed, disk
  <2>2. proc'[c] = [proc[c] EXCEPT !.pc = "write_shims", !.cmds = Owned(p)] BY <1>1, <2>1
  <2>3. proc'[c].pc = "write_shims" /\ proc'[c].pkg = p /\ proc'[c].cmds = Owned(p)
    BY <1>1, <2>2 DEF Locals
  <2>4. Memory(c)' BY <1>6, <2>3 DEF Memory, Calm, Undoing, Committing, Exposing, Removing
  <2>5. Shimmed(p)' = {} BY <1>5, <2>1 DEF Shimmed
  <2>6. Course(c)' BY <1>6, <2>3, <2>5 DEF Course, Undoing, Committing, Exposing, Removing
  <2>7. \A q \in Packages : q # p => Same(q) BY <1>3, <2>1, SameAll
  <2>8. Busy(c)' BY <2>3 DEF Busy, Calm
  <2> QED BY <1>1, <2>3, <2>4, <2>6, <2>7, <2>8, Settles
<1>8. CASE PublishShims(c)
  <2>1. proc[c].pc = "write_shims" /\ WriteShims(proc[c].cmds, p) /\ Exit(c)
    BY <1>8 DEF PublishShims, At
  <2>2. proc[c].cmds = Owned(p) BY <1>2, <2>1 DEF Memory
  <2>3. \A x \in Commands : shims'[x] = IF owner[x] = p THEN p ELSE shims[x]
    BY <2>1, <2>2 DEF WriteShims, Owned
  <2>4. Shimmed(p)' = Owned(p) BY <1>5, <2>3 DEF Shimmed, Owned
  <2>5. AtRest(p)' BY <1>6, <2>4 DEF AtRest
  <2>6. ASSUME NEW q \in Packages, q # p PROVE Same(q)
    <3>1. AtRest(q) BY <1>3, <2>6, Resting
    <3>2. Shimmed(q) = Owned(q)
      BY <3>1 DEF AtRest, Bare
    <3>3. Shimmed(q)' = Shimmed(q) BY <2>3, <2>6, <3>2 DEF Shimmed, Owned
    <3> QED BY <1>3, <3>3 DEF Same, Installed, Owned
  <2>7. proc'[c].pc = "idle" BY <1>1, <2>1, ExitFacts
  <2> QED BY <1>1, <2>5, <2>6, <2>7, IdleMemory, Settles
<1> QED BY <1>7, <1>8
----------------------------------------------------------------------------
(* Remove, up to the deletion of the row.                                  *)
LEMMA LeavingFacts ==
  ASSUME NEW p, NEW v, AtRest(p), Installed(p) => rows[p].ver = v
  PROVE  NoTrash(p) /\ OnlyVersion(p, v) /\ Shimmed(p) = Owned(p)
  BY DEF AtRest, Whole, OnRecord, Bare, OnlyVersion

LEMMA PlanSettles ==
  ASSUME Alone, Faults = {}, Solo, Settling, NEW c \in Procs, PlanRemoval(c)
  PROVE  Settling'
<1>1. TypeOK /\ proc \in [Procs -> Locals] /\ proc[c] \in Locals
  BY NoFailures
<1>2. proc[c].pc = "ready" /\ Memory(c) BY DEF PlanRemoval, At, Settling
<1>3. ~Busy(c) BY <1>2 DEF Busy, Calm
<1>4. UNCHANGED <<rows, owner, dirs, journals, shims>> BY DEF PlanRemoval, db, disk
<1>5. PICK p \in Packages :
        proc' = [proc EXCEPT ![c].pc = "confirm", ![c].pkg = p,
                             ![c].ver = rows[p].ver, ![c].kind = rows[p].kind]
  BY ZenonT(60) DEF PlanRemoval
<1>6. proc'[c] = [proc[c] EXCEPT !.pc = "confirm", !.pkg = p,
                                 !.ver = rows[p].ver, !.kind = rows[p].kind]
  BY <1>1, <1>5
<1>7. /\ proc'[c].pc = "confirm" /\ proc'[c].pkg = p /\ proc'[c].ver = rows[p].ver
      /\ proc'[c].kind = rows[p].kind /\ proc'[c].paths = proc[c].paths
  BY <1>1, <1>6 DEF Locals
<1>8. Memory(c)'
  <2>1. proc[c].paths = {} BY <1>2 DEF Memory
  <2> QED BY <1>4, <1>7, <2>1 DEF Memory, Calm, Undoing, Committing, Exposing, Removing
<1> QED BY <1>1, <1>3, <1>4, <1>7, <1>8, SameAll, CalmStep DEF Calm

LEMMA ConfirmSettles ==
  ASSUME Alone, Faults = {}, Solo, Settling, NEW c \in Procs,
         DeclineRemoval(c) \/ StartRemoval(c)
  PROVE  Settling'
<1>0. PICK p, v, to : /\ p = proc[c].pkg /\ v = proc[c].ver
                      /\ to = IF proc[c].kind = "native" THEN "uninstall"
                              ELSE IF dirs[Live(c)] # None THEN "stage" ELSE "delete_row"
  OBVIOUS
<1> USE <1>0
<1>1. TypeOK /\ proc \in [Procs -> Locals] /\ proc[c] \in Locals /\ ~ReadFails
  BY NoFailures
<1>2. proc[c].pc = "confirm" /\ Memory(c) BY DEF DeclineRemoval, StartRemoval, At, Settling
<1>3. ~Busy(c) /\ p \in Packages BY <1>2, NoFailures DEF Busy, Calm, PlannedLabels
<1>4. UNCHANGED <<rows, owner, dirs, journals, shims>>
  BY DEF DeclineRemoval, StartRemoval, db, disk
<1>5. \A q \in Packages : Same(q) BY <1>4, SameAll
<1>6. proc[c].paths = {} /\ rows[p].ver = v /\ rows[p].kind = proc[c].kind
  BY <1>2 DEF Memory
<1>7. CASE DeclineRemoval(c)
  BY <1>1, <1>3, <1>5, <1>7, CalmExit DEF DeclineRemoval
<1>8. CASE StartRemoval(c)
  <2>1. proc' = [proc EXCEPT ![c].cmds = Owned(p), ![c].pc = to]
    <3>1. CommandsRead(p) = {Owned(p)} BY <1>1 DEF CommandsRead
    <3>2. PICK cs \in CommandsRead(p) : proc' = [proc EXCEPT ![c].cmds = cs, ![c].pc = to]
      BY <1>8 DEF StartRemoval
    <3> QED BY <3>1, <3>2
  <2>2. proc'[c] = [proc[c] EXCEPT !.cmds = Owned(p), !.pc = to] BY <1>1, <2>1
  <2>3. /\ proc'[c].pc = to /\ proc'[c].pkg = p /\ proc'[c].ver = v
        /\ proc'[c].kind = proc[c].kind /\ proc'[c].paths = proc[c].paths
        /\ proc'[c].cmds = Owned(p)
    BY <1>1, <2>2 DEF Locals
  <2>4. to \in {"uninstall", "stage", "delete_row"} /\ (to = "uninstall" => proc[c].kind = "native")
    OBVIOUS
  <2>5. Owned(p)' = Owned(p) BY <1>4 DEF Owned
  <2>6. Memory(c)'
    BY <1>4, <1>6, <2>3, <2>4, <2>5
       DEF Memory, Calm, Undoing, Committing, Exposing, Removing
  <2>7. CASE to \in Calm
    BY <1>1, <1>3, <1>5, <2>3, <2>6, <2>7, CalmStep
  <2>8. CASE to = "delete_row"
    <3>1. AtRest(p) /\ dirs[<<p, "live">>] = None BY <1>3, <2>8, Resting DEF Live
    <3>2. NoTrash(p) /\ OnlyVersion(p, v) /\ Shimmed(p) = Owned(p)
      BY <1>6, <3>1, LeavingFacts
    <3>3. Course(c)'
      BY <1>4, <2>3, <2>8, <3>1, <3>2
         DEF Course, Live, NoTrash, OnlyVersion, Shimmed, Undoing, Committing, Exposing, Removing
    <3>4. Busy(c)' BY <2>3, <2>8 DEF Busy, Calm
    <3> QED BY <1>1, <1>3, <1>5, <2>3, <2>6, <3>3, <3>4, Settles
  <2> QED BY <2>4, <2>7, <2>8 DEF Calm
<1> QED BY <1>7, <1>8

LEMMA TakeAwaySettles ==
  ASSUME Alone, Faults = {}, Solo, Settling, NEW c \in Procs, StageForRemoval(c) \/ Uninstall(c)
  PROVE  Settling'
<1>0. PICK p, v : p = proc[c].pkg /\ v = proc[c].ver OBVIOUS
<1> USE <1>0
<1>1. TypeOK /\ proc \in [Procs -> Locals] /\ proc[c] \in Locals /\ \A d : ~CleanupFails(d)
  BY NoFailures
<1>2. Memory(c) BY DEF Settling
<1>3. /\ proc[c].pc \in {"stage", "uninstall"} /\ ~Busy(c)
      /\ UNCHANGED <<rows, owner, journals, shims>>
  BY DEF StageForRemoval, Uninstall, At, Busy, Calm, db
<1>4. p \in Packages /\ v \in Versions BY <1>3, NoFailures DEF PlannedLabels
<1>5. /\ rows[p].ver = v /\ rows[p].kind = proc[c].kind /\ proc[c].paths = {}
      /\ proc[c].cmds = Owned(p)
  BY <1>2, <1>3 DEF Memory
<1>6. AtRest(p) BY <1>3, <1>4, Resting
<1>7. NoTrash(p) /\ OnlyVersion(p, v) /\ Shimmed(p) = Owned(p) BY <1>5, <1>6, LeavingFacts
<1>8. <<p, "live">> \in Paths /\ <<p, "trash">> \in Paths /\ <<p, "live">> # <<p, "trash">>
      /\ \A d \in Paths : d[1] # p => d \notin {<<p, "live">>, <<p, "trash">>}
  BY <1>4 DEF Paths
<1>9. ASSUME NEW ps \in {{}, {<<p, "trash">>}},
             dirs' \in [Paths -> Versions \cup {None, Partial}],
             \A d \in Paths : d[1] # p => dirs'[d] = dirs[d],
             dirs'[<<p, "live">>] = None, ps = {} => dirs'[<<p, "trash">>] = None,
             proc'[c] = [proc[c] EXCEPT !.pc = "delete_row", !.paths = ps]
      PROVE  Settling'
  <2>1. /\ proc'[c].pc = "delete_row" /\ proc'[c].pkg = p /\ proc'[c].ver = v
        /\ proc'[c].kind = proc[c].kind /\ proc'[c].cmds = proc[c].cmds /\ proc'[c].paths = ps
    BY <1>1, <1>9 DEF Locals
  <2>2. Memory(c)'
    BY <1>3, <1>5, <1>9, <2>1
       DEF Memory, Trash, Calm, Undoing, Committing, Exposing, Removing
  <2>3. Course(c)'
    BY <1>3, <1>5, <1>7, <1>9, <2>1
       DEF Course, Live, NoTrash, OnlyVersion, Shimmed, Undoing, Committing, Exposing, Removing
  <2>4. \A q \in Packages : q # p => Same(q) BY <1>1, <1>3, <1>4, <1>9, DirSame
  <2>5. Busy(c)' BY <2>1 DEF Busy, Calm
  <2> QED BY <1>1, <1>3, <2>1, <2>2, <2>3, <2>4, <2>5, Settles
<1>10. CASE StageForRemoval(c) /\ dirs[<<p, "live">>] # None
  <2>1. /\ dirs' = [dirs EXCEPT ![<<p, "trash">>] = dirs[<<p, "live">>], ![<<p, "live">>] = None]
        /\ proc' = [proc EXCEPT ![c].pc = "delete_row", ![c].paths = {<<p, "trash">>}]
    BY <1>10 DEF StageForRemoval, Live, Trash
  <2>2. dirs[<<p, "live">>] \in Versions \cup {None, Partial} BY <1>1, <1>8 DEF TypeOK
  <2>3. /\ dirs' \in [Paths -> Versions \cup {None, Partial}]
        /\ dirs'[<<p, "live">>] = None
        /\ \A d \in Paths : d[1] # p => dirs'[d] = dirs[d]
    BY <1>1, <1>8, <2>1, <2>2 DEF TypeOK
  <2>4. proc'[c] = [proc[c] EXCEPT !.pc = "delete_row", !.paths = {<<p, "trash">>}]
    BY <1>1, <2>1
  <2> QED BY <1>9, <2>3, <2>4
<1>11. CASE StageForRemoval(c) /\ dirs[<<p, "live">>] = None
  <2>1. Exit(c) /\ dirs' = [dirs EXCEPT ![<<p, "trash">>] = None]
    BY <1>1, <1>11 DEF StageForRemoval, Live, Trash
  <2>2. UNCHANGED dirs BY <1>1, <1>7, <1>8, <2>1 DEF NoTrash, TypeOK
  <2> QED BY <1>1, <1>3, <2>1, <2>2, SameAll, CalmExit
<1>12. CASE Uninstall(c) /\ ~Exit(c)
  <2>1. Cleanup(<<p, "live">>) /\ Goto(c, "delete_row") BY <1>1, <1>12 DEF Uninstall, Live
  <2>2. /\ dirs' \in [Paths -> Versions \cup {None, Partial}]
        /\ dirs'[<<p, "live">>] = None /\ dirs'[<<p, "trash">>] = None
        /\ \A d \in Paths : d[1] # p => dirs'[d] = dirs[d]
    BY <1>1, <1>4, <1>7, <1>8, <2>1, CleanupFacts DEF NoTrash
  <2>3. proc'[c] = [proc[c] EXCEPT !.pc = "delete_row"] BY <1>1, <2>1 DEF Goto
  <2>4. proc'[c] = [proc[c] EXCEPT !.pc = "delete_row", !.paths = {}]
    BY <1>1, <1>5, <2>3 DEF Locals
  <2> QED BY <1>9, <2>2, <2>4
<1>13. CASE Uninstall(c) /\ Exit(c)
  <2>1. proc[c].pc = "uninstall" BY <1>13 DEF Uninstall, At
  <2>2. rows[p].kind = "native" BY <1>2, <1>5, <2>1 DEF Memory
  <2>3. proc'[c].pc = "idle" BY <1>1, <1>13, ExitFacts
  <2>4. ~Goto(c, "delete_row")
    BY <1>1, <2>3, MovedOn DEF Labels
  <2>5. \/ UNCHANGED dirs
        \/ dirs[<<p, "live">>] # None /\ dirs' = [dirs EXCEPT ![<<p, "live">>] = Partial]
    BY <1>13, <2>4 DEF Uninstall, Live
  <2>6. CASE UNCHANGED dirs BY <1>1, <1>3, <1>13, <2>6, SameAll, CalmExit
  <2>7. CASE dirs[<<p, "live">>] # None /\ dirs' = [dirs EXCEPT ![<<p, "live">>] = Partial]
    <3>1. /\ dirs' \in [Paths -> Versions \cup {None, Partial}]
          /\ dirs'[<<p, "live">>] = Partial
          /\ dirs'[<<p, "trash">>] = dirs[<<p, "trash">>]
          /\ \A d \in Paths : d[1] # p => dirs'[d] = dirs[d]
      BY <1>1, <1>4, <2>7, LiveFacts
    <3>2. Installed(p) /\ Whole(p) BY <1>6, <2>7 DEF AtRest
    <3>3. OnRecord(p, rows[p].kind, Owned(p))' /\ Owned(p)' = Owned(p) /\ Shimmed(p)' = Shimmed(p)
          /\ Installed(p)'
      BY <1>3, <3>2 DEF Whole, OnRecord, OnlyVersion, Owned, Shimmed, Installed
    <3>4. AtRest(p)'
      BY <1>3, <1>7, <2>2, <3>1, <3>2, <3>3 DEF AtRest, Whole, NoTrash
    <3>5. \A q \in Packages : q # p => Same(q) BY <1>1, <1>3, <1>4, <3>1, DirSame
    <3> QED BY <1>1, <1>3, <2>3, <3>4, <3>5, IdleMemory, Settles
  <2> QED BY <2>5, <2>6, <2>7
<1> QED BY <1>10, <1>11, <1>12, <1>13
----------------------------------------------------------------------------
(* Remove, from the deletion of the row on.                                *)
LEMMA RowGone ==
  ASSUME Alone, Faults = {}, Solo, Settling, NEW c \in Procs,
         DeleteRemovedRow(c) \/ DeleteRemovedRowFails(c)
  PROVE  Settling'
<1>0. PICK p, v : p = proc[c].pkg /\ v = proc[c].ver OBVIOUS
<1> USE <1>0
<1>1. TypeOK /\ proc \in [Procs -> Locals] /\ ~WriteFails(c) BY NoFailures
<1>2. proc[c].pc = "delete_row" /\ Memory(c) /\ Course(c)
  BY DEF DeleteRemovedRow, DeleteRemovedRowFails, At, Settling
<1>3. p \in Packages /\ v \in Versions BY <1>2, NoFailures DEF PlannedLabels
<1>4. DeleteRow(p) /\ Goto(c, "remove_shims") /\ UNCHANGED <<dirs, journals, shims>>
  BY <1>1 DEF DeleteRemovedRow, DeleteRemovedRowFails, disk
<1>5. /\ dirs[<<p, "live">>] = None /\ OnlyVersion(p, v) /\ Shimmed(p) = proc[c].cmds
      /\ proc[c].paths \subseteq {<<p, "trash">>} /\ (proc[c].paths = {} => NoTrash(p))
  BY <1>2 DEF Memory, Course, Removing, Live, Trash
<1>6. /\ proc'[c].pc = "remove_shims" /\ proc'[c].pkg = p /\ proc'[c].ver = v
      /\ proc'[c].cmds = proc[c].cmds /\ proc'[c].paths = proc[c].paths
  BY <1>1, <1>4, MovedOn DEF Labels
<1>7. ~Present(p)' /\ \A q \in Packages : q # p => rows'[q] = rows[q]
  BY <1>1, <1>3, <1>4 DEF DeleteRow, Present, NoRow, TypeOK
<1>8. Owned(p)' = {} /\ \A q \in Packages : q # p => Owned(q)' = Owned(q)
  <2>1. \A x \in Commands : owner'[x] = IF owner[x] = p THEN None ELSE owner[x]
    BY <1>4 DEF DeleteRow
  <2> QED BY <1>3, <2>1, NoneIsFresh DEF Owned
<1>9. Memory(c)'
  BY <1>5, <1>6 DEF Memory, Trash, Calm, Undoing, Committing, Exposing, Removing
<1>10. Course(c)'
  BY <1>4, <1>5, <1>6, <1>7, <1>8
     DEF Course, Live, NoTrash, OnlyVersion, Shimmed, Undoing, Committing, Exposing, Removing
<1>11. \A q \in Packages : q # p => Same(q)
  BY <1>4, <1>7, <1>8 DEF Same, Installed, Shimmed
<1>12. Busy(c)' BY <1>6 DEF Busy, Calm
<1> QED BY <1>1, <1>6, <1>9, <1>10, <1>11, <1>12, Settles

LEMMA ShimsGone ==
  ASSUME Alone, Faults = {}, Solo, Settling, NEW c \in Procs, RemoveShims(c)
  PROVE  Settling'
<1>0. PICK p, v : p = proc[c].pkg /\ v = proc[c].ver OBVIOUS
<1> USE <1>0
<1>1. TypeOK /\ proc \in [Procs -> Locals] BY NoFailures
<1>2. proc[c].pc = "remove_shims" /\ Memory(c) /\ Course(c) BY DEF RemoveShims, At, Settling
<1>3. p \in Packages /\ v \in Versions BY <1>2, NoFailures DEF PlannedLabels
<1>4. /\ WriteShims(proc[c].cmds, None) /\ Goto(c, "remove_journal")
      /\ UNCHANGED <<rows, owner, dirs, journals>>
  BY DEF RemoveShims, db
<1>5. /\ dirs[<<p, "live">>] = None /\ OnlyVersion(p, v) /\ Shimmed(p) = proc[c].cmds
      /\ proc[c].paths \subseteq {<<p, "trash">>} /\ (proc[c].paths = {} => NoTrash(p))
      /\ ~Present(p) /\ Owned(p) = {}
  BY <1>2 DEF Memory, Course, Removing, Live, Trash
<1>6. /\ proc'[c].pc = "remove_journal" /\ proc'[c].pkg = p /\ proc'[c].ver = v
      /\ proc'[c].paths = proc[c].paths
  BY <1>1, <1>4, MovedOn DEF Labels
<1>7. \A x \in Commands : shims'[x] = IF shims[x] = p THEN None ELSE shims[x]
  BY <1>4, <1>5 DEF WriteShims, Shimmed
<1>8. Shimmed(p)' = {} /\ \A q \in Packages : q # p => Shimmed(q)' = Shimmed(q)
  BY <1>3, <1>7, NoneIsFresh DEF Shimmed
<1>9. Memory(c)'
  BY <1>5, <1>6 DEF Memory, Trash, Calm, Undoing, Committing, Exposing, Removing
<1>10. Course(c)'
  BY <1>4, <1>5, <1>6, <1>8
     DEF Course, Live, NoTrash, OnlyVersion, Present, Owned,
         Undoing, Committing, Exposing, Removing
<1>11. \A q \in Packages : q # p => Same(q)
  BY <1>4, <1>8 DEF Same, Installed, Owned
<1>12. Busy(c)' BY <1>6 DEF Busy, Calm
<1> QED BY <1>1, <1>6, <1>9, <1>10, <1>11, <1>12, Settles

(* The journal of the version goes, and it was the package's only one.     *)
LEMMA JournalGone ==
  ASSUME Alone, Faults = {}, Solo, Settling, NEW c \in Procs, RemoveJournal(c)
  PROVE  Settling'
<1>0. PICK p, v : p = proc[c].pkg /\ v = proc[c].ver OBVIOUS
<1> USE <1>0
<1>1. TypeOK /\ proc \in [Procs -> Locals] BY NoFailures
<1>2. proc[c].pc = "remove_journal" /\ Memory(c) /\ Course(c) BY DEF RemoveJournal, At, Settling
<1>3. p \in Packages /\ v \in Versions BY <1>2, NoFailures DEF PlannedLabels
<1>4. /\ journals' = [journals EXCEPT ![<<p, v>>] = NoFile]
      /\ UNCHANGED <<rows, owner, dirs, shims>>
      /\ IF proc[c].paths = {} THEN Exit(c) ELSE Goto(c, "remove_trash")
  BY DEF RemoveJournal, db
<1>5. /\ dirs[<<p, "live">>] = None /\ OnlyVersion(p, v) /\ Shimmed(p) = {}
      /\ proc[c].paths \subseteq {<<p, "trash">>} /\ (proc[c].paths = {} => NoTrash(p))
      /\ ~Present(p) /\ Owned(p) = {}
  BY <1>2 DEF Memory, Course, Removing, Live, Trash
<1>6. \A u \in Versions : ~journals'[<<p, u>>].exists
  <2>1. \A u \in Versions : <<p, u>> \in Keys BY <1>3 DEF Keys
  <2>2. ~NoFile.exists BY DEF NoFile
  <2> QED BY <1>1, <1>3, <1>4, <1>5, <2>1, <2>2 DEF TypeOK, OnlyVersion
<1>7. Bare(p)' /\ ~Installed(p)'
  BY <1>4, <1>5, <1>6 DEF Bare, Owned, Shimmed, Installed, Present
<1>8. \A q \in Packages : q # p => Same(q) BY <1>1, <1>4, JournalSame
<1>9. CASE proc[c].paths = {}
  <2>1. proc'[c].pc = "idle" BY <1>1, <1>4, <1>9, ExitFacts
  <2>2. AtRest(p)' BY <1>4, <1>5, <1>7, <1>9 DEF AtRest, NoTrash
  <2> QED BY <1>1, <1>8, <2>1, <2>2, IdleMemory, Settles
<1>10. CASE proc[c].paths # {}
  <2>1. /\ proc'[c].pc = "remove_trash" /\ proc'[c].pkg = p /\ proc'[c].ver = v
        /\ proc'[c].paths = proc[c].paths
    BY <1>1, <1>4, <1>10, MovedOn DEF Labels
  <2>2. Memory(c)'
    BY <1>5, <2>1 DEF Memory, Trash, Calm, Undoing, Committing, Exposing, Removing
  <2>3. Course(c)'
    BY <1>3, <1>4, <1>5, <1>6, <1>10, <2>1
       DEF Course, Key, Live, OnlyVersion, Present, Owned, Shimmed,
           Undoing, Committing, Exposing, Removing
  <2>4. Busy(c)' BY <2>1 DEF Busy, Calm
  <2> QED BY <1>1, <1>8, <2>1, <2>2, <2>3, <2>4, Settles
<1> QED BY <1>9, <1>10

LEMMA TrashGone ==
  ASSUME Alone, Faults = {}, Solo, Settling, NEW c \in Procs, RemoveTrash(c)
  PROVE  Settling'
<1>0. PICK p, v : p = proc[c].pkg /\ v = proc[c].ver OBVIOUS
<1> USE <1>0
<1>1. TypeOK /\ proc \in [Procs -> Locals] /\ \A d : ~CleanupFails(d) BY NoFailures
<1>2. proc[c].pc = "remove_trash" /\ Course(c) BY DEF RemoveTrash, At, Settling
<1>3. p \in Packages /\ v \in Versions BY <1>2, NoFailures DEF PlannedLabels
<1>4. Cleanup(<<p, "trash">>) /\ Exit(c) /\ UNCHANGED <<rows, owner, journals, shims>>
  BY <1>1 DEF RemoveTrash, Trash, db
<1>5. /\ dirs[<<p, "live">>] = None /\ OnlyVersion(p, v) /\ Shimmed(p) = {}
      /\ ~Present(p) /\ Owned(p) = {} /\ ~journals[<<p, v>>].exists
  BY <1>2 DEF Course, Removing, Live, Key
<1>6. /\ dirs' \in [Paths -> Versions \cup {None, Partial}]
      /\ dirs'[<<p, "trash">>] = None /\ dirs'[<<p, "live">>] = None
      /\ \A d \in Paths : d[1] # p => dirs'[d] = dirs[d]
  <2>1. <<p, "live">> \in Paths /\ <<p, "live">> # <<p, "trash">> BY <1>3 DEF Paths
  <2>2. \A d \in Paths : d[1] # p => d # <<p, "trash">> OBVIOUS
  <2> QED BY <1>1, <1>3, <1>4, <1>5, <2>1, <2>2, CleanupFacts
<1>7. Bare(p)' /\ ~Installed(p)'
  BY <1>4, <1>5 DEF Bare, OnlyVersion, Owned, Shimmed, Installed, Present
<1>8. AtRest(p)' BY <1>6, <1>7 DEF AtRest, NoTrash
<1>9. \A q \in Packages : q # p => Same(q) BY <1>1, <1>3, <1>4, <1>6, DirSame
<1>10. proc'[c].pc = "idle" BY <1>1, <1>4, ExitFacts
<1> QED BY <1>1, <1>8, <1>9, <1>10, IdleMemory, Settles
----------------------------------------------------------------------------
(* Repair, which finds nothing to do.                                      *)
LEMMA NothingToRepair ==
  ASSUME Solo, \A p \in Packages : AtRest(p), NEW seen, seen = {p \in Packages : Installed(p)}
  PROVE  ReplayCandidates(seen) = {} /\ ConflictingJournals(seen) = {} /\ OrphanDirs(seen) = {}
<1>1. ASSUME NEW k \in Keys, Committed(journals[k]) \/ TrailingEntries(journals[k])
      PROVE  /\ Installed(k[1]) /\ rows[k[1]].ver = k[2]
             /\ rows[k[1]].kind = FirstMeta(journals[k]).kind
             /\ ~TrailingEntries(journals[k])
  <2>1. k[1] \in Packages /\ k[2] \in Versions /\ k = <<k[1], k[2]>> BY DEF Keys
  <2>2. journals[k].exists
    <3>1. journals[k] \in Files BY DEF Solo, Inv, TypeOK
    <3>2. ~Committed(NoFile) /\ ~TrailingEntries(NoFile)
      BY DEF Committed, TrailingEntries, NoFile
    <3> QED BY <1>1, <3>1, <3>2 DEF Files
  <2>3. Installed(k[1]) BY <2>1, <2>2 DEF AtRest, Bare
  <2>4. rows[k[1]].ver = k[2] BY <2>1, <2>2, <2>3 DEF AtRest, Whole, OnRecord, OnlyVersion
  <2>5. FirstMeta(journals[k]) = [kind |-> rows[k[1]].kind, cmds |-> Owned(k[1])]
    BY <2>1, <2>3, <2>4 DEF AtRest, Whole, OnRecord
  <2>6. Committed(journals[k]) BY <2>1, <2>3, <2>4 DEF AtRest, Whole, OnRecord
  <2>7. ~TrailingEntries(journals[k]) BY <2>6 DEF Committed, TrailingEntries, AllMeta
  <2> QED BY <2>3, <2>4, <2>5, <2>7
<1>2. ReplayCandidates(seen) = {} BY <1>1 DEF ReplayCandidates, Keys
<1>3. ConflictingJournals(seen) = {}
  BY <1>1 DEF ConflictingJournals
<1>4. OrphanDirs(seen) = {}
  <2>1. ASSUME NEW d \in Paths, dirs[d] # None
        PROVE  d[2] = "live" /\ Installed(d[1])
    <3>1. d[1] \in Packages /\ d = <<d[1], d[2]>> /\ d[2] \in {"live", "trash"} BY DEF Paths
    <3> QED BY <2>1, <3>1 DEF AtRest, NoTrash
  <2>2. \A d \in Paths : d[1] \in Packages BY DEF Paths
  <2> QED BY <2>1, <2>2 DEF OrphanDirs
<1> QED BY <1>2, <1>3, <1>4

LEMMA RepairSettles ==
  ASSUME Alone, Faults = {}, Solo, Settling, NEW c \in Procs, RepairStep(c)
  PROVE  Settling'
<1>1. TypeOK /\ proc \in [Procs -> Locals] /\ ~ReadFails /\ ~JournalReadFails
  BY NoFailures DEF JournalReadFails
<1>2. Memory(c) BY DEF Settling
<1>3. proc[c].pc \notin {"prepare", "replay", "replay_shims", "orphans", "remove_orphans"}
  BY <1>2 DEF Memory, Calm, Undoing, Committing, Exposing, Removing
<1>4. Inspect(c)
  <2>1. ~Prepare(c) /\ ~SkipConflict(c) BY <1>3 DEF Prepare, SkipConflict, At
  <2>2. ~Replay(c)
    <3>1. ~At(c, "replay") BY <1>3 DEF At
    <3> QED BY <3>1, ZenonT(60) DEF Replay
  <2>3. ~ReplayShims(c) BY <1>3 DEF ReplayShims, At
  <2>4. ~ConfirmOrphans(c) /\ ~RemoveOrphan(c) BY <1>3 DEF ConfirmOrphans, RemoveOrphan, At
  <2> QED BY <2>1, <2>2, <2>3, <2>4 DEF RepairStep
<1>5. ~Busy(c) BY <1>4 DEF Inspect, At, Busy, Calm
<1>6. \A p \in Packages : AtRest(p) BY <1>5, Resting
<1>7. PICK seen \in PackagesSeen :
        proc' = [proc EXCEPT ![c] =
                   ToBatch([Fresh EXCEPT !.pc = "prepare",
                                         !.keys = Keys \cap ReplayCandidates(seen),
                                         !.conflicts = Keys \cap ConflictingJournals(seen),
                                         !.paths = OrphanDirs(seen)])]
  <2>1. JournalsRead = {Keys} BY <1>1 DEF JournalsRead
  <2>2. PICK seen \in PackagesSeen, read \in JournalsRead :
          proc' = [proc EXCEPT ![c] =
                     ToBatch([Fresh EXCEPT !.pc = "prepare",
                                           !.keys = read \cap ReplayCandidates(seen),
                                           !.conflicts = read \cap ConflictingJournals(seen),
                                           !.paths = OrphanDirs(seen)])]
    BY <1>4, ZenonT(60) DEF Inspect
  <2>3. read = Keys BY <2>1, <2>2
  <2> QED BY <2>2, <2>3, ZenonT(60)
<1>8. seen = {p \in Packages : Installed(p)} BY <1>1 DEF PackagesSeen
<1>9. /\ Keys \cap ReplayCandidates(seen) = {} /\ Keys \cap ConflictingJournals(seen) = {}
      /\ OrphanDirs(seen) = {}
  BY <1>6, <1>8, NothingToRepair
<1>10. Exit(c)
  <2>1. PICK l : l = [Fresh EXCEPT !.pc = "prepare", !.keys = {}, !.conflicts = {}, !.paths = {}]
    OBVIOUS
  <2>2. l.keys = {} /\ l.conflicts = {} /\ l.paths = {} BY <2>1 DEF Fresh
  <2>3. ToBatch(l) = Fresh BY <2>2 DEF ToBatch, ToConflicts, ToOrphans
  <2> QED BY <1>7, <1>9, <2>1, <2>3 DEF Exit
<1>11. \A q \in Packages : Same(q) BY <1>4, SameAll DEF Inspect, db, disk
<1> QED BY <1>1, <1>5, <1>10, <1>11, CalmExit
----------------------------------------------------------------------------
(* Every command leaves every package at rest.                             *)
LEMMA InitSettles == Init => Settling
<1> SUFFICES ASSUME Init PROVE Settling OBVIOUS
<1>1. \A p \in Packages : AtRest(p)
  <2> SUFFICES ASSUME NEW p \in Packages PROVE AtRest(p) OBVIOUS
  <2>1. <<p, "live">> \in Paths /\ <<p, "trash">> \in Paths BY DEF Paths
  <2>2. ~Installed(p) BY DEF Init, Installed, NoRow
  <2>3. Owned(p) = {} /\ Shimmed(p) = {} BY NoneIsFresh DEF Init, Owned, Shimmed
  <2>4. \A v \in Versions : ~journals[<<p, v>>].exists BY DEF Init, Keys, NoFile
  <2> QED BY <2>1, <2>2, <2>3, <2>4 DEF Init, AtRest, NoTrash, Bare
<1>2. ASSUME NEW c \in Procs PROVE Memory(c) /\ Course(c)
  <2>1. proc[c].pc = "idle" BY DEF Init, Fresh
  <2> QED BY <2>1 DEF Memory, Course, Calm, Undoing, Committing, Exposing, Removing
<1> QED BY <1>1, <1>2 DEF Settling

LEMMA NextSettles ==
  ASSUME Alone, Faults = {}, Solo, Settling, [Next]_vars
  PROVE  Settling'
<1>1. CASE UNCHANGED vars
  <2>1. UNCHANGED <<rows, owner, dirs, journals, shims, proc>> BY <1>1 DEF vars
  <2>2. \A c \in Procs : Busy(c)' <=> Busy(c) BY <2>1 DEF Busy
  <2>3. ASSUME NEW p \in Packages, AtRest(p) PROVE AtRest(p)'
    BY <2>1, <2>3, SameAll, SameRests DEF Solo, Inv
  <2>4. ASSUME NEW c \in Procs, Memory(c) PROVE Memory(c)'
    BY <2>1, <2>4 DEF Memory, Installed, Key, Claimed, Present, Owned, Trash
  <2>5. ASSUME NEW c \in Procs, Course(c) PROVE Course(c)'
    BY <2>1, <2>5 DEF Course, Key, Live, NoTrash, Installed, Bare, Owned, Shimmed, OnlyVersion,
                      OnRecord, Whole, Present
  <2> QED BY <2>1, <2>2, <2>3, <2>4, <2>5 DEF Settling
<1>2. ASSUME NEW c \in Procs, Step(c) PROVE Settling'
  <2>1. Memory(c) BY DEF Settling
  <2>2. ~MarkCommitFailed(c)
    BY <2>1 DEF MarkCommitFailed, At, Memory, Calm, Undoing, Committing, Exposing, Removing
  <2>3. CASE InstallStep(c)
    BY <2>2, <2>3, PrepareSettles, EngineSettles, RollbackSettles, CommitSettles, ExposeSettles
       DEF InstallStep
  <2>4. CASE RemoveStep(c)
    BY <2>4, PlanSettles, ConfirmSettles, TakeAwaySettles, RowGone, ShimsGone, JournalGone,
       TrashGone DEF RemoveStep
  <2> QED BY <1>2, <2>3, <2>4, StartupSettles, RepairSettles DEF Step
<1>3. \A c \in Procs : ~Crash(c) BY DEF Crash
<1> QED BY <1>1, <1>2, <1>3 DEF Next

(* Between two commands no process is busy.                                *)
LEMMA SettlingSettles == Settling => Settled
  BY DEF Settling, Settled, Busy, Calm, At

(* With one process at a time and no fault but failing downloads, engines  *)
(* and users, between two commands the rows, directories, journals, command*)
(* registry and shims agree about every package, whatever installs, failed *)
(* installs, removals and repairs came before and in whatever order        *)
(* (install/mod.rs run, remove/execution.rs, repair.rs).                   *)
THEOREM PackagesSettle == Alone /\ Faults = {} => (Spec => []Settled)
<1> SUFFICES ASSUME Alone, Faults = {} PROVE Spec => []Settled OBVIOUS
<1>1. Spec => []Solo BY SoloInvariance
<1>2. Init => Settling BY InitSettles
<1>3. Solo /\ Settling /\ [Next]_vars => Settling' BY NextSettles
<1>4. Settling => Settled BY SettlingSettles
<1> QED BY <1>1, <1>2, <1>3, <1>4, PTL DEF Spec
=============================================================================
