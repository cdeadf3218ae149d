----------------------------- MODULE PayloadProofs -----------------------------
(***************************************************************************)
(* For any packages, offers and hosts: what an install may put in place.   *)
(* What concerns one process, and the 7-Zip runtime, holds with any number *)
(* of processes; what the shared staging directory takes part in holds     *)
(* where one process installs at a time (Alone).                           *)
(***************************************************************************)
EXTENDS Payload, TLAPS

(* No second process installs meanwhile.                                   *)
Alone == \A p, q \in Procs : p = q

EarlyPcs  == {"prepare", "runtime", "fetch", "unpack", "stamp", "unboot", "download", "route"}
StagePcs  == {"clean", "extract"}
NativePcs == {"native", "done"}
CopyPcs   == {"copy", "copyfresh", "uncopy"}
SwapPcs   == {"sweep", "move", "aside", "finish", "restore", "forget", "replaced"} \union CopyPcs
FailedSwap == {"unwound", "torn"}
UndoPcs   == {"rollback", "rollbackold", "rollbackdir"}
Pcs == {"idle"} \union EarlyPcs \union StagePcs \union NativePcs \union SwapPcs
         \union FailedSwap \union UndoPcs

Packed == {"zip", "portable"}   \* the engines that stage a tree

Selected == {SelectInstaller(offer, host) : offer \in Offers, host \in Hosts}

Jobs(trees) ==
  [pc : Pcs, pkg : Packages \union {None}, inst : Selected \union {None}, ignore : BOOLEAN,
   form : Forms \union {None}, good : BOOLEAN, engine : Engines \union {Unsupported, None},
   src : {"stage", "boot"}, before : trees]

(* What a process remembers; before is a tree, of which nothing is assumed. *)
JobTyped(j) ==
  /\ j \in Jobs({j.before})
  /\ j.pc = "idle" <=> j.pkg = None

(* The engine is chosen by the time it is asked, and fits the step; what    *)
(* was downloaded has passed its verification; what portable gets is no     *)
(* archive.                                                                 *)
GoodAt(j, pc) ==
  /\ j.src = "boot" => pc \in SwapPcs \union FailedSwap
  /\ pc \in CopyPcs => j.src = "boot"
  /\ pc \in EarlyPcs \/ j.src = "boot" => j.engine = None
  /\ pc \in StagePcs \/ (j.src = "stage" /\ pc \in SwapPcs) => j.engine \in Packed
  /\ pc \in NativePcs => j.engine \in Engines \ Packed
  /\ j.good \/ VerifyStrategy(j.inst, j.ignore) = "unchecked"
  /\ j.engine = "portable" => j.form \notin Archives

JobGood(j) == GoodAt(j, j.pc)

(* A package that is being installed is not installed, by this process or  *)
(* another one.                                                            *)
Claims ==
  /\ \A p \in Procs : job[p].pkg # None => installed[job[p].pkg] = None
  /\ \A p, q \in Procs : job[p].pkg # None /\ job[p].pkg = job[q].pkg => p = q

Control ==
  /\ job = [p \in Procs |-> job[p]]
  /\ \A p \in Procs : JobTyped(job[p]) /\ JobGood(job[p])
  /\ installed \in [Packages -> Engines \union {None}]
  /\ Claims

LEMMA Apart ==
  /\ None \notin Packages /\ None \notin Engines /\ None \notin Forms /\ None # Unsupported
  /\ Runtime \notin Packages
  BY SlotsAssumption, PayloadAssumption DEF Slots

LEMMA EngineNames ==
  Engines = {"msi", "msix", "nativeexe", "font", "zip", "portable"}
  BY DEF Engines, EngineOrder
--------------------------------------------------------------------------------
(* One process takes a step, and what is installed stays so.               *)
LEMMA JobStep ==
  ASSUME Control, NEW p \in Procs, NEW j, job' = [job EXCEPT ![p] = j],
         JobTyped(j), JobGood(j), j.pkg \in {job[p].pkg, None}, UNCHANGED installed
  PROVE  Control'
<1>1. job' = [q \in Procs |-> job'[q]] /\ job'[p] = j
      /\ \A q \in Procs \ {p} : job'[q] = job[q]
  BY DEF Control
<1>2. \A q \in Procs : JobTyped(job'[q]) /\ JobGood(job'[q])
  BY <1>1 DEF Control
<1>3. \A q \in Procs : job'[q].pkg \in {job[q].pkg, None}
  BY <1>1
<1>4. Claims'
  BY <1>3 DEF Claims, Control
<1> QED BY <1>1, <1>2, <1>4 DEF Control

LEMMA IdleJob == JobTyped(Idle) /\ JobGood(Idle) /\ Idle.pkg = None
<1>1. JobTyped(Idle)
  BY DEF Idle, JobTyped, Jobs, Pcs
<1>2. Idle.pc = "idle" /\ Idle.src = "stage" /\ Idle.good = TRUE /\ Idle.engine # "portable"
  BY Apart, EngineNames DEF Idle
<1>3. "idle" \notin EarlyPcs \union StagePcs \union NativePcs \union SwapPcs
  BY DEF EarlyPcs, StagePcs, NativePcs, SwapPcs, CopyPcs
<1>4. JobGood(Idle)
  BY <1>2, <1>3 DEF JobGood, GoodAt, SwapPcs
<1> QED BY <1>1, <1>4 DEF Idle

LEMMA EndsIdle ==
  ASSUME Control, NEW p \in Procs, job' = [job EXCEPT ![p] = Idle], UNCHANGED installed
  PROVE  Control'
  BY IdleJob, JobStep

LEMMA GotoIs ==
  ASSUME Control, NEW p \in Procs, NEW pc, Goto(p, pc)
  PROVE  job' = [job EXCEPT ![p] = [job[p] EXCEPT !.pc = pc]]
  BY DEF Control, Goto

(* A jump from one place to the next.                                      *)
LEMMA GotoStep ==
  ASSUME Control, NEW p \in Procs, NEW pc \in Pcs \ {"idle"}, Goto(p, pc), UNCHANGED installed,
         job[p].pc # "idle", GoodAt(job[p], pc)
  PROVE  Control'
<1> DEFINE j == [job[p] EXCEPT !.pc = pc]
<1>1. JobTyped(job[p])
  BY DEF Control
<1>2. JobTyped(j) /\ j.pkg = job[p].pkg
  BY <1>1 DEF JobTyped, Jobs
<1>3. /\ j.pc = pc /\ j.src = job[p].src /\ j.engine = job[p].engine /\ j.good = job[p].good
      /\ j.inst = job[p].inst /\ j.ignore = job[p].ignore /\ j.form = job[p].form
  BY <1>1 DEF JobTyped, Jobs
<1>4. JobGood(j)
  <2> HIDE DEF j
  <2> QED BY <1>3 DEF JobGood, GoodAt
<1> QED BY <1>2, <1>4, GotoIs, JobStep
--------------------------------------------------------------------------------
(* replace_directory, whichever tree it moves.                             *)
LEMMA SwapKeepsGood ==
  ASSUME NEW j, JobGood(j), j.pc \in SwapPcs, NEW pc \in SwapPcs \union FailedSwap,
         pc \in CopyPcs => j.src = "boot"
  PROVE  GoodAt(j, pc)
<1>1. pc \notin EarlyPcs \union StagePcs \union NativePcs
  BY DEF SwapPcs, FailedSwap, CopyPcs, EarlyPcs, StagePcs, NativePcs
<1> QED BY <1>1 DEF JobGood, GoodAt

LEMMA SwapMoves ==
  ASSUME Control, NEW p \in Procs, NEW pc \in SwapPcs \union FailedSwap, NEW tree,
         job[p].pc \in SwapPcs, pc \in CopyPcs => job[p].src = "boot",
         job' = [job EXCEPT ![p] = [job[p] EXCEPT !.pc = pc, !.before = tree]],
         UNCHANGED installed
  PROVE  Control'
<1> DEFINE j == [job[p] EXCEPT !.pc = pc, !.before = tree]
<1>1. JobTyped(job[p]) /\ JobGood(job[p])
  BY DEF Control
<1>2. pc \in Pcs /\ pc # "idle" /\ job[p].pc # "idle"
  BY DEF Pcs, SwapPcs, FailedSwap, CopyPcs
<1>3. JobTyped(j)
  BY <1>1, <1>2 DEF JobTyped, Jobs
<1>4. /\ j.pc = pc /\ j.src = job[p].src /\ j.engine = job[p].engine /\ j.good = job[p].good
      /\ j.inst = job[p].inst /\ j.ignore = job[p].ignore /\ j.form = job[p].form
      /\ j.pkg = job[p].pkg
  BY <1>1 DEF JobTyped, Jobs
<1>5. JobGood(j)
  <2> HIDE DEF j
  <2> QED BY <1>1, <1>4, SwapKeepsGood DEF JobGood, GoodAt
<1> QED BY <1>3, <1>4, <1>5, JobStep

LEMMA SwapGoto ==
  ASSUME Control, NEW p \in Procs, NEW pc \in SwapPcs \union FailedSwap, Goto(p, pc),
         job[p].pc \in SwapPcs, pc \in CopyPcs => job[p].src = "boot", UNCHANGED installed
  PROVE  Control'
<1>1. pc \in Pcs \ {"idle"} /\ job[p].pc # "idle"
  BY DEF Pcs, SwapPcs, FailedSwap, CopyPcs
<1>2. GoodAt(job[p], pc)
  BY SwapKeepsGood DEF Control
<1> QED BY <1>1, <1>2, GotoStep

(* Where each system call of a replacement leads.                          *)
LEMMA ReplaceGoesTo ==
  ASSUME Control, NEW p \in Procs, ReplaceStep(p)
  PROVE  /\ job[p].pc \in SwapPcs \ {"replaced"}
         /\ \E pc \in SwapPcs \union FailedSwap :
              /\ pc \in CopyPcs => job[p].src = "boot"
              /\ \/ Goto(p, pc)
                 \/ job' = [job EXCEPT ![p].pc = pc, ![p].before = disk.at[Target(p)]]
<1> USE DEF SwapPcs, FailedSwap, CopyPcs, OtherVolume
<1>1. JobGood(job[p])
  BY DEF Control
<1>2. CASE SweepBackup(p)
  BY <1>2 DEF SweepBackup
<1>3. CASE MoveIn(p)
  BY <1>3 DEF MoveIn
<1>4. CASE MoveAside(p)
  BY <1>4 DEF MoveAside
<1>5. CASE Finish(p)
  BY <1>5 DEF Finish
<1>6. CASE CopyPiece(p)
  <2>1. PICK cut \in BOOLEAN :
          Goto(p, IF ~cut THEN job[p].pc ELSE IF job[p].pc = "copy" THEN "uncopy" ELSE "unwound")
    BY <1>6 DEF CopyPiece
  <2> QED BY <1>1, <1>6, <2>1 DEF CopyPiece, JobGood, GoodAt
<1>7. CASE CopyDone(p)
  BY <1>7 DEF CopyDone
<1>8. CASE RemoveCopy(p)
  BY <1>8 DEF RemoveCopy
<1>9. CASE Restore(p)
  BY <1>9 DEF Restore
<1>10. CASE ForgetBackup(p)
  BY <1>10 DEF ForgetBackup
<1> QED BY <1>2, <1>3, <1>4, <1>5, <1>6, <1>7, <1>8, <1>9, <1>10 DEF ReplaceStep

LEMMA ReplaceControl ==
  ASSUME Control, NEW p \in Procs, ReplaceStep(p), UNCHANGED installed
  PROVE  Control'
<1>1. PICK pc \in SwapPcs \union FailedSwap :
         /\ pc \in CopyPcs => job[p].src = "boot"
         /\ \/ Goto(p, pc)
            \/ job' = [job EXCEPT ![p].pc = pc, ![p].before = disk.at[Target(p)]]
  BY ReplaceGoesTo
<1>2. CASE Goto(p, pc)
  BY <1>1, <1>2, ReplaceGoesTo, SwapGoto
<1>3. CASE job' = [job EXCEPT ![p].pc = pc, ![p].before = disk.at[Target(p)]]
  <2>1. job' = [job EXCEPT ![p] = [job[p] EXCEPT !.pc = pc, !.before = disk.at[Target(p)]]]
    BY <1>3 DEF Control
  <2> QED BY <1>1, <2>1, ReplaceGoesTo, SwapMoves
<1> QED BY <1>1, <1>2, <1>3
--------------------------------------------------------------------------------
(* The other jumps: what a place asks of the job, beyond what holds already. *)
LEMMA JumpEarly ==
  ASSUME NEW j, JobGood(j), j.pc \in EarlyPcs, NEW pc \in EarlyPcs \union {"rollback"}
  PROVE  GoodAt(j, pc) /\ pc \in Pcs \ {"idle"} /\ j.pc # "idle" /\ j.src # "boot"
<1>1. EarlyPcs \intersect (SwapPcs \union FailedSwap) = {} /\ "idle" \notin EarlyPcs
  BY DEF EarlyPcs, SwapPcs, FailedSwap, CopyPcs
<1>2. pc \notin SwapPcs \union StagePcs \union NativePcs
  BY DEF EarlyPcs, SwapPcs, CopyPcs, StagePcs, NativePcs
<1>3. pc \in Pcs \ {"idle"}
  BY <1>1 DEF Pcs, UndoPcs
<1>4. j.src # "boot" /\ j.engine = None
  BY <1>1 DEF JobGood, GoodAt
<1> QED BY <1>1, <1>2, <1>3, <1>4 DEF JobGood, GoodAt, SwapPcs

LEMMA JumpBack ==
  ASSUME NEW j, JobGood(j), NEW pc \in UndoPcs, j.src = "stage"
  PROVE  GoodAt(j, pc) /\ pc \in Pcs \ {"idle"}
  BY DEF JobGood, GoodAt, Pcs, EarlyPcs, StagePcs, NativePcs, SwapPcs, FailedSwap, CopyPcs, UndoPcs

LEMMA NotSwapping ==
  ASSUME NEW j, JobTyped(j), JobGood(j), j.pc \notin SwapPcs \union FailedSwap
  PROVE  j.src = "stage"
  BY DEF JobTyped, Jobs, JobGood, GoodAt

LEMMA PrepareControl ==
  ASSUME Control, NEW p \in Procs, Prepare(p)
  PROVE  Control'
<1>1. PICK ok \in BOOLEAN : job' = [job EXCEPT ![p] = IF ok THEN [job[p] EXCEPT !.pc = "runtime"]
                                                       ELSE Idle]
  BY DEF Prepare, Cleaned, Control
<1>2. job[p].pc \in EarlyPcs /\ "runtime" \in EarlyPcs /\ JobGood(job[p]) /\ UNCHANGED installed
  BY DEF Prepare, EarlyPcs, Control
<1>3. CASE ok = TRUE
  <2>1. Goto(p, "runtime")
    BY <1>1, <1>3 DEF Goto, Control
  <2> QED BY <1>2, <2>1, JumpEarly, GotoStep
<1>4. CASE ok = FALSE
  BY <1>1, <1>2, <1>4, EndsIdle
<1> QED BY <1>3, <1>4

(* Bootstrapping up to the replacement.                                    *)
LEMMA BootControl ==
  ASSUME Control, NEW p \in Procs, EnsureRuntime(p) \/ FetchRuntime(p) \/ UnpackRuntime(p)
  PROVE  Control'
<1>1. JobGood(job[p]) /\ job[p].pc \in EarlyPcs /\ UNCHANGED installed
  BY DEF Control, EnsureRuntime, FetchRuntime, UnpackRuntime, EarlyPcs
<1>2. \/ job' = [job EXCEPT ![p] = Idle]
      \/ \E pc \in EarlyPcs : Goto(p, pc)
  BY DEF EnsureRuntime, FetchRuntime, UnpackRuntime, EarlyPcs
<1> QED BY <1>1, <1>2, EndsIdle, JumpEarly, GotoStep

LEMMA StampControl ==
  ASSUME Control, NEW p \in Procs, StampRuntime(p)
  PROVE  Control'
<1> DEFINE j == [job[p] EXCEPT !.pc = "sweep", !.src = "boot"]
<1>1. /\ JobTyped(job[p]) /\ JobGood(job[p]) /\ job[p].pc = "stamp" /\ UNCHANGED installed
      /\ job[p].pc \in EarlyPcs
  BY DEF Control, StampRuntime, EarlyPcs
<1>2. CASE Goto(p, "unboot")
  BY <1>1, <1>2, JumpEarly, GotoStep DEF EarlyPcs
<1>3. CASE job' = [job EXCEPT ![p].pc = "sweep", ![p].src = "boot"]
  <2>1. job' = [job EXCEPT ![p] = j]
    BY <1>3 DEF Control
  <2>2. JobTyped(j)
    BY <1>1 DEF JobTyped, Jobs, Pcs, SwapPcs
  <2>3. /\ j.pc = "sweep" /\ j.src = "boot" /\ j.engine = job[p].engine /\ j.good = job[p].good
        /\ j.inst = job[p].inst /\ j.ignore = job[p].ignore /\ j.form = job[p].form
        /\ j.pkg = job[p].pkg
    BY <1>1 DEF JobTyped, Jobs
  <2>4. JobGood(j)
    <3> HIDE DEF j
    <3> QED BY <1>1, <2>3
          DEF JobGood, GoodAt, EarlyPcs, StagePcs, NativePcs, SwapPcs, FailedSwap, CopyPcs
  <2> QED BY <1>1, <2>1, <2>2, <2>3, <2>4, JobStep
<1> QED BY <1>2, <1>3 DEF StampRuntime

LEMMA RuntimeReadyControl ==
  ASSUME Control, NEW p \in Procs, RuntimeReady(p)
  PROVE  Control'
<1> DEFINE j == [job[p] EXCEPT !.pc = "download", !.src = "stage", !.before = None]
<1>1. /\ JobTyped(job[p]) /\ JobGood(job[p]) /\ job[p].pc = "replaced" /\ UNCHANGED installed
      /\ job[p].src = "boot" /\ job' = [job EXCEPT ![p] = j]
  BY DEF Control, RuntimeReady
<1>2. JobTyped(j)
  BY <1>1 DEF JobTyped, Jobs, Pcs, EarlyPcs
<1>3. /\ j.pc = "download" /\ j.src = "stage" /\ j.engine = job[p].engine /\ j.good = job[p].good
      /\ j.inst = job[p].inst /\ j.ignore = job[p].ignore /\ j.form = job[p].form
      /\ j.pkg = job[p].pkg
  BY <1>1 DEF JobTyped, Jobs
<1>4. JobGood(j)
  <2> HIDE DEF j
  <2> QED BY <1>1, <1>3
        DEF JobGood, GoodAt, EarlyPcs, StagePcs, NativePcs, SwapPcs, FailedSwap, CopyPcs
<1> QED BY <1>1, <1>2, <1>3, <1>4, JobStep

LEMMA DropControl ==
  ASSUME Control, NEW p \in Procs, DropBootstrap(p)
  PROVE  Control'
  BY EndsIdle DEF DropBootstrap
--------------------------------------------------------------------------------
(* The payload, up to its engine.                                          *)
LEMMA DownloadControl ==
  ASSUME Control, NEW p \in Procs, Download(p)
  PROVE  Control'
<1>1. /\ JobTyped(job[p]) /\ JobGood(job[p]) /\ job[p].pc = "download" /\ UNCHANGED installed
      /\ job[p].pc \in EarlyPcs
  BY DEF Control, Download, EarlyPcs
<1>2. CASE Goto(p, "rollback")
  BY <1>1, <1>2, JumpEarly, GotoStep
<1>3. ASSUME NEW form \in Arriving, NEW good \in BOOLEAN,
             good \/ VerifyStrategy(job[p].inst, job[p].ignore) = "unchecked",
             job' = [job EXCEPT ![p].pc = "route", ![p].form = form, ![p].good = good]
      PROVE  Control'
  <2> DEFINE j == [job[p] EXCEPT !.pc = "route", !.form = form, !.good = good]
  <2>1. job' = [job EXCEPT ![p] = j] /\ form \in Forms
    BY <1>3, PayloadAssumption DEF Control
  <2>2. JobTyped(j)
    BY <1>1, <2>1 DEF JobTyped, Jobs, Pcs, EarlyPcs
  <2>3. /\ j.pc = "route" /\ j.src = job[p].src /\ j.engine = job[p].engine /\ j.good = good
        /\ j.inst = job[p].inst /\ j.ignore = job[p].ignore /\ j.pkg = job[p].pkg
    BY <1>1 DEF JobTyped, Jobs
  <2>4. GoodAt(job[p], "route") /\ job[p].engine = None
    BY <1>1, JumpEarly DEF JobGood, GoodAt, EarlyPcs
  <2>5. JobGood(j)
    <3> HIDE DEF j
    <3> QED BY <1>3, <2>3, <2>4, Apart, EngineNames DEF JobGood, GoodAt
  <2> QED BY <1>1, <2>1, <2>2, <2>3, <2>5, JobStep
<1> QED BY <1>2, <1>3 DEF Download

(* The engine that is asked is one that matches.                           *)
LEMMA EngineMatches ==
  ASSUME NEW kind, NEW suffix, EngineFor(kind, suffix) # Unsupported
  PROVE  /\ EngineFor(kind, suffix) \in Engines
         /\ MatchesInstaller(EngineFor(kind, suffix), kind, suffix)
<1> DEFINE matching == {n \in DOMAIN EngineOrder : MatchesInstaller(EngineOrder[n], kind, suffix)}
<1>1. matching # {} /\ EngineFor(kind, suffix) = EngineOrder[Min(matching)]
  BY DEF EngineFor
<1>2. matching \subseteq 1..6
  BY DEF EngineOrder
<1>3. \E m \in matching : \A n \in matching : m <= n
  <2> HIDE DEF matching
  <2>1. CASE 1 \in matching
    BY <1>2, <2>1
  <2>2. CASE 1 \notin matching /\ 2 \in matching
    BY <1>2, <2>2
  <2>3. CASE matching \intersect 1..2 = {} /\ 3 \in matching
    BY <1>2, <2>3
  <2>4. CASE matching \intersect 1..3 = {} /\ 4 \in matching
    BY <1>2, <2>4
  <2>5. CASE matching \intersect 1..4 = {} /\ 5 \in matching
    BY <1>2, <2>5
  <2>6. CASE matching \intersect 1..5 = {}
    <3>1. \A n \in matching : n = 6
      BY <1>2, <2>6
    <3> QED BY <1>1, <3>1
  <2> QED BY <1>1, <1>2, <2>1, <2>2, <2>3, <2>4, <2>5, <2>6
<1>4. Min(matching) \in matching
  <2> HIDE DEF matching
  <2> QED BY <1>3 DEF Min
<1> QED BY <1>1, <1>4 DEF Engines

(* An archive is zip's business or nobody's.                               *)
LEMMA EngineOfArchive ==
  ASSUME NEW kind, NEW suffix, NEW form \in Archives, ProbedKind(kind, form) # Unsupported
  PROVE  EngineFor(ProbedKind(kind, form), suffix) # "portable"
<1>1. ProbedKind(kind, form) \in WindowsPackages \union {"zip"}
  BY DEF ProbedKind, Archives, WindowsPackages
<1>2. ~MatchesInstaller("portable", ProbedKind(kind, form), suffix)
  BY <1>1 DEF MatchesInstaller, WindowsPackages
<1> QED BY <1>2, EngineMatches DEF Unsupported

LEMMA RouteControl ==
  ASSUME Control, NEW p \in Procs, Route(p)
  PROVE  Control'
<1> DEFINE kind   == ProbedKind(job[p].inst.kind, job[p].form)
           suffix == job[p].inst.suffix
           engine == IF kind = Unsupported THEN kind ELSE EngineFor(kind, suffix)
           pc == IF engine = Unsupported THEN "rollback"
                 ELSE IF engine \in Packed THEN "clean" ELSE "native"
           j == [job[p] EXCEPT !.engine = engine, !.pc = pc]
<1>1. /\ JobTyped(job[p]) /\ JobGood(job[p]) /\ job[p].pc = "route" /\ UNCHANGED installed
      /\ job[p].pc \in EarlyPcs /\ job' = [job EXCEPT ![p] = j]
  BY DEF Control, Route, EarlyPcs, Packed
<1>2. engine \in Engines \union {Unsupported}
  BY EngineMatches
<1>3. engine = "portable" => job[p].form \notin Archives
  BY EngineOfArchive DEF Unsupported
<1>4. /\ pc \in {"rollback", "clean", "native"}
      /\ pc = "clean" => engine \in Packed
      /\ pc = "native" => engine \in Engines \ Packed
  BY <1>2
<1> HIDE DEF engine, pc
<1>5. JobTyped(j)
  BY <1>1, <1>2, <1>4 DEF JobTyped, Jobs, Pcs, StagePcs, NativePcs, UndoPcs
<1>6. /\ j.pc = pc /\ j.src = job[p].src /\ j.engine = engine /\ j.good = job[p].good
      /\ j.inst = job[p].inst /\ j.ignore = job[p].ignore /\ j.form = job[p].form
      /\ j.pkg = job[p].pkg
  BY <1>1 DEF JobTyped, Jobs
<1>7. job[p].src # "boot"
  BY <1>1, JumpEarly
<1>8. pc \notin CopyPcs \union EarlyPcs \union SwapPcs
  BY <1>4 DEF CopyPcs, EarlyPcs, SwapPcs
<1>9. JobGood(j)
  <2> HIDE DEF j
  <2> QED BY <1>1, <1>3, <1>4, <1>6, <1>7, <1>8 DEF JobGood, GoodAt, StagePcs, NativePcs
<1> QED BY <1>1, <1>5, <1>6, <1>9, JobStep

(* An engine gets its files in place or gives up.                          *)
LEMMA EngineControl ==
  ASSUME Control, NEW p \in Procs,
         InstallNative(p) \/ CleanStage(p) \/ StageFile(p) \/ StageDone(p) \/ StageFails(p)
  PROVE  Control'
<1>1. JobTyped(job[p]) /\ JobGood(job[p]) /\ UNCHANGED installed
  BY DEF Control, InstallNative, CleanStage, StageFile, StageDone, StageFails
<1>2. job[p].pc \in {"native", "clean", "extract"}
  BY DEF InstallNative, CleanStage, StageFile, StageDone, StageFails
<1>3. job[p].src = "stage"
  BY <1>1, <1>2, NotSwapping DEF SwapPcs, FailedSwap, CopyPcs
<1>4. CASE Goto(p, "rollback")
  BY <1>1, <1>2, <1>3, <1>4, JumpBack, GotoStep DEF UndoPcs
<1>5. CASE UNCHANGED job
  BY <1>1, <1>5 DEF Control, Claims
<1>6. CASE job[p].pc = "native" /\ Goto(p, "done")
  <2>1. GoodAt(job[p], "done") /\ "done" \in Pcs
    BY <1>1, <1>3, <1>6 DEF JobGood, GoodAt, Pcs, EarlyPcs, StagePcs, NativePcs, SwapPcs, CopyPcs
  <2> QED BY <1>1, <1>6, <2>1, GotoStep
<1>7. CASE job[p].pc = "clean" /\ Goto(p, "extract")
  <2>1. GoodAt(job[p], "extract") /\ "extract" \in Pcs
    BY <1>1, <1>3, <1>7 DEF JobGood, GoodAt, Pcs, EarlyPcs, StagePcs, NativePcs, SwapPcs, CopyPcs
  <2> QED BY <1>1, <1>7, <2>1, GotoStep
<1>8. CASE job[p].pc = "extract" /\ Goto(p, "sweep")
  <2>1. GoodAt(job[p], "sweep") /\ "sweep" \in Pcs
    BY <1>1, <1>3, <1>8 DEF JobGood, GoodAt, Pcs, EarlyPcs, StagePcs, NativePcs, SwapPcs, CopyPcs
  <2> QED BY <1>1, <1>8, <2>1, GotoStep
<1>9. \/ Goto(p, "rollback") \/ UNCHANGED job
      \/ job[p].pc = "native" /\ Goto(p, "done")
      \/ job[p].pc = "clean" /\ Goto(p, "extract")
      \/ job[p].pc = "extract" /\ Goto(p, "sweep")
  BY DEF InstallNative, CleanStage, StageFile, StageDone, StageFails, Goto
<1> QED BY <1>4, <1>5, <1>6, <1>7, <1>8, <1>9
--------------------------------------------------------------------------------
(* Where packages are claimed, installed and let go.                       *)
LEMMA BeginControl ==
  ASSUME Control, NEW p \in Procs, NEW k \in Packages, NEW offer \in Offers, NEW host \in Hosts,
         NEW ignore \in BOOLEAN, Begin(p, k, offer, host, ignore)
  PROVE  Control'
<1> DEFINE installer == SelectInstaller(offer, host)
           j == [Idle EXCEPT !.pc = "prepare", !.pkg = k, !.inst = installer, !.ignore = ignore]
<1>1. job' = [job EXCEPT ![p] = j] /\ UNCHANGED installed /\ installed[k] = None
      /\ \A q \in Procs : job[q].pkg # k
  BY DEF Begin
<1>2. installer \in Selected
  BY DEF Selected
<1> HIDE DEF installer
<1>3. JobTyped(j)
  BY <1>2, IdleJob, Apart DEF JobTyped, Jobs, Pcs, EarlyPcs
<1>4. j.pc = "prepare" /\ j.src = "stage" /\ j.engine = None /\ j.good = TRUE /\ j.pkg = k
  BY DEF Idle
<1>5. JobGood(j)
  <2> HIDE DEF j
  <2> QED BY <1>4, Apart, EngineNames
        DEF JobGood, GoodAt, EarlyPcs, StagePcs, NativePcs, SwapPcs, CopyPcs
<1>6. /\ job' = [q \in Procs |-> job'[q]] /\ job'[p] = j
      /\ \A q \in Procs \ {p} : job'[q] = job[q]
  BY <1>1 DEF Control
<1> HIDE DEF j
<1>7. \A q \in Procs : JobTyped(job'[q]) /\ JobGood(job'[q])
  BY <1>3, <1>5, <1>6 DEF Control
<1>8. Claims'
  BY <1>1, <1>4, <1>6 DEF Claims, Control
<1> QED BY <1>1, <1>6, <1>7, <1>8 DEF Control

LEMMA CompleteControl ==
  ASSUME Control, NEW p \in Procs, Complete(p)
  PROVE  Control'
<1>1. JobTyped(job[p]) /\ JobGood(job[p])
  BY DEF Control
<1>2. /\ job[p].pc \in {"done", "replaced"} /\ job[p].src = "stage"
      /\ job[p].engine \in Engines /\ job[p].pkg \in Packages
  <2>1. CASE job[p].pc = "done"
    BY <1>1, <2>1, NotSwapping
       DEF JobTyped, Jobs, JobGood, GoodAt, NativePcs, SwapPcs, FailedSwap, CopyPcs
  <2>2. CASE job[p].pc = "replaced" /\ job[p].src = "stage"
    BY <1>1, <2>2, EngineNames DEF JobTyped, Jobs, JobGood, GoodAt, SwapPcs, Packed
  <2> QED BY <2>1, <2>2 DEF Complete, Installed
<1>3. CASE Goto(p, "rollback") /\ UNCHANGED installed
  BY <1>1, <1>2, <1>3, JumpBack, GotoStep DEF UndoPcs
<1>4. CASE /\ installed' = [installed EXCEPT ![job[p].pkg] = job[p].engine]
           /\ job' = [job EXCEPT ![p] = Idle]
  <2>1. /\ job' = [q \in Procs |-> job'[q]] /\ job'[p] = Idle
        /\ \A q \in Procs \ {p} : job'[q] = job[q]
    BY <1>4 DEF Control
  <2>2. \A q \in Procs : JobTyped(job'[q]) /\ JobGood(job'[q])
    BY <2>1, IdleJob DEF Control
  <2>3. installed' \in [Packages -> Engines \union {None}]
    BY <1>2, <1>4 DEF Control
  <2>4. \A q \in Procs : job'[q].pkg # None =>
           job'[q] = job[q] /\ q # p /\ job[q].pkg # job[p].pkg
    BY <1>2, <2>1, IdleJob, Apart DEF Control, Claims
  <2>5. \A q \in Procs : job[q].pkg # job[p].pkg /\ job[q].pkg # None =>
           installed'[job[q].pkg] = installed[job[q].pkg]
    BY <1>4 DEF Control, JobTyped, Jobs
  <2>6. Claims'
    BY <2>4, <2>5 DEF Control, Claims
  <2> QED BY <2>1, <2>2, <2>3, <2>6 DEF Control
<1> QED BY <1>3, <1>4 DEF Complete

LEMMA RollbackControl ==
  ASSUME Control, NEW p \in Procs, RollbackStage(p) \/ RollbackBackup(p) \/ RollbackDir(p)
  PROVE  Control'
<1>1. JobTyped(job[p]) /\ JobGood(job[p]) /\ UNCHANGED installed
  BY DEF Control, RollbackStage, RollbackBackup, RollbackDir
<1>2. CASE RollbackStage(p)
  <2> DEFINE j == [job[p] EXCEPT !.pc = "rollbackold", !.before = None]
  <2>1. job' = [job EXCEPT ![p] = j] /\ job[p].pc # "idle"
    BY <1>2 DEF RollbackStage, Control
  <2>2. job[p].src = "stage"
    BY <1>1, <1>2, NotSwapping DEF RollbackStage, SwapPcs, FailedSwap, CopyPcs
  <2>3. GoodAt(job[p], "rollbackold") /\ "rollbackold" \in Pcs
    BY <1>1, <2>2, JumpBack DEF UndoPcs
  <2>4. JobTyped(j)
    BY <1>1, <2>1, <2>3 DEF JobTyped, Jobs
  <2>5. /\ j.pc = "rollbackold" /\ j.src = job[p].src /\ j.engine = job[p].engine
        /\ j.good = job[p].good /\ j.inst = job[p].inst /\ j.ignore = job[p].ignore
        /\ j.form = job[p].form /\ j.pkg = job[p].pkg
    BY <1>1 DEF JobTyped, Jobs
  <2>6. JobGood(j)
    <3> HIDE DEF j
    <3> QED BY <2>3, <2>5 DEF JobGood, GoodAt
  <2> QED BY <1>1, <2>1, <2>4, <2>5, <2>6, JobStep
<1>3. CASE RollbackBackup(p)
  <2>1. job[p].pc = "rollbackold" /\ Goto(p, "rollbackdir") /\ job[p].src = "stage"
    BY <1>1, <1>3, NotSwapping DEF RollbackBackup, SwapPcs, FailedSwap, CopyPcs
  <2> QED BY <1>1, <2>1, JumpBack, GotoStep DEF UndoPcs
<1>4. CASE RollbackDir(p)
  BY <1>1, <1>4, EndsIdle DEF RollbackDir
<1> QED BY <1>2, <1>3, <1>4

LEMMA UninstallControl ==
  ASSUME Control, NEW k \in Packages, Uninstall(k)
  PROVE  Control'
<1>1. UNCHANGED job /\ installed' = [installed EXCEPT ![k] = None]
  BY DEF Uninstall
<1>2. installed' \in [Packages -> Engines \union {None}]
      /\ \A m \in Packages : installed'[m] \in {installed[m], None}
  BY <1>1 DEF Control
<1>3. Claims'
  BY <1>1, <1>2 DEF Control, Claims, JobTyped, Jobs
<1> QED BY <1>1, <1>2, <1>3 DEF Control

LEMMA StepControl == Control /\ [Next]_vars => Control'
<1> SUFFICES ASSUME Control, [Next]_vars PROVE Control'
  OBVIOUS
<1>1. ASSUME NEW p \in Procs, Step(p) PROVE Control'
  <2>1. CASE ReplaceStep(p) /\ UNCHANGED installed
    BY <2>1, ReplaceControl
  <2> QED BY <1>1, <2>1, PrepareControl, BootControl, StampControl, RuntimeReadyControl,
             DropControl, DownloadControl, RouteControl, EngineControl, CompleteControl,
             RollbackControl DEF Step
<1>2. ASSUME NEW p \in Procs, Crash(p) PROVE Control'
  BY <1>2, EndsIdle DEF Crash
<1>3. CASE UNCHANGED vars
  BY <1>3 DEF vars, Control, Claims
<1> QED BY <1>1, <1>2, <1>3, BeginControl, UninstallControl DEF Next

LEMMA InitControl == Init => Control
<1> SUFFICES ASSUME Init PROVE Control
  OBVIOUS
<1>1. job = [p \in Procs |-> Idle] /\ installed = [k \in Packages |-> None]
  BY DEF Init
<1>2. \A p \in Procs : job[p] = Idle
  BY <1>1
<1> QED BY <1>1, <1>2, IdleJob DEF Control, Claims

(* No package is installed twice at a time, and every step finds the job   *)
(* that it expects: what Begin, Route and the rollback rely on.            *)
THEOREM ControlInvariant == Spec => []Control
  BY InitControl, StepControl, PTL DEF Spec

(* Bytes other than the catalog means are only installed where it names no *)
(* hash or the user has tolerated MD5 (verify_strategy, download.rs).      *)
THEOREM PayloadsAreVerified == Spec => []VerifiedOrTolerated
<1>1. Control => VerifiedOrTolerated
  <2> SUFFICES ASSUME Control, NEW p \in Procs, Installed(p), ~job[p].good
               PROVE  \/ job[p].inst.hash = NoHash
                      \/ job[p].inst.hash = "md5" /\ job[p].ignore
    BY DEF VerifiedOrTolerated
  <2>1. VerifyStrategy(job[p].inst, job[p].ignore) = "unchecked" /\ job[p].ignore \in BOOLEAN
    BY DEF Control, JobTyped, Jobs, JobGood, GoodAt
  <2> QED BY <2>1 DEF VerifyStrategy
<1> QED BY <1>1, ControlInvariant, PTL

(* An archive is unpacked by the zip engine or left to a native one, never *)
(* copied as a file (registry.rs, payload.rs).                             *)
THEOREM ArchivesGetUnpacked == Spec => []ArchivesAreUnpacked
<1>1. Control => ArchivesAreUnpacked
  BY DEF ArchivesAreUnpacked, Control, JobGood, GoodAt
<1> QED BY <1>1, ControlInvariant, PTL
--------------------------------------------------------------------------------
(* The disk: which trees a step can reach.                                 *)

(* Nothing is assumed of a tree itself.                                    *)
Disks(trees) ==
  [at : [Slots -> trees], old : [Slots -> trees], stage : trees, boot : [Procs -> trees],
   far : BOOLEAN]
DiskTyped == \E trees : disk \in Disks(trees)

(* A process changes its own slot, its own bootstrap directory and, under   *)
(* everybody's eyes, the staging directory.                                *)
Local(p) ==
  /\ DiskTyped' /\ disk'.far = disk.far
  /\ \A s \in Slots \ {Target(p)} : disk'.at[s] = disk.at[s] /\ disk'.old[s] = disk.old[s]
  /\ \A q \in Procs \ {p} : disk'.boot[q] = disk.boot[q]

LEMMA PutAt ==
  ASSUME DiskTyped, NEW s \in Slots, NEW tree, disk' = [disk EXCEPT !.at[s] = tree]
  PROVE  /\ DiskTyped' /\ disk'.at[s] = tree
         /\ \A r \in Slots \ {s} : disk'.at[r] = disk.at[r]
         /\ disk'.old = disk.old /\ disk'.stage = disk.stage /\ disk'.boot = disk.boot
         /\ disk'.far = disk.far
<1>1. PICK trees : disk \in Disks(trees)
  BY DEF DiskTyped
<1>2. disk' \in Disks(trees \union {tree})
  BY <1>1 DEF Disks
<1> QED BY <1>1, <1>2 DEF Disks, DiskTyped

LEMMA PutOld ==
  ASSUME DiskTyped, NEW s \in Slots, NEW tree, disk' = [disk EXCEPT !.old[s] = tree]
  PROVE  /\ DiskTyped' /\ disk'.old[s] = tree
         /\ \A r \in Slots \ {s} : disk'.old[r] = disk.old[r]
         /\ disk'.at = disk.at /\ disk'.stage = disk.stage /\ disk'.boot = disk.boot
         /\ disk'.far = disk.far
<1>1. PICK trees : disk \in Disks(trees)
  BY DEF DiskTyped
<1>2. disk' \in Disks(trees \union {tree})
  BY <1>1 DEF Disks
<1> QED BY <1>1, <1>2 DEF Disks, DiskTyped

LEMMA PutStage ==
  ASSUME DiskTyped, NEW tree, disk' = [disk EXCEPT !.stage = tree]
  PROVE  /\ DiskTyped' /\ disk'.stage = tree
         /\ disk'.at = disk.at /\ disk'.old = disk.old /\ disk'.boot = disk.boot
         /\ disk'.far = disk.far
<1>1. PICK trees : disk \in Disks(trees)
  BY DEF DiskTyped
<1>2. disk' \in Disks(trees \union {tree})
  BY <1>1 DEF Disks
<1> QED BY <1>1, <1>2 DEF Disks, DiskTyped

LEMMA PutBoot ==
  ASSUME DiskTyped, NEW p \in Procs, NEW tree, disk' = [disk EXCEPT !.boot[p] = tree]
  PROVE  /\ DiskTyped' /\ disk'.boot[p] = tree
         /\ \A q \in Procs \ {p} : disk'.boot[q] = disk.boot[q]
         /\ disk'.at = disk.at /\ disk'.old = disk.old /\ disk'.stage = disk.stage
         /\ disk'.far = disk.far
<1>1. PICK trees : disk \in Disks(trees)
  BY DEF DiskTyped
<1>2. disk' \in Disks(trees \union {tree})
  BY <1>1 DEF Disks
<1> QED BY <1>1, <1>2 DEF Disks, DiskTyped

LEMMA PutAtOld ==
  ASSUME DiskTyped, NEW s \in Slots, NEW tree, NEW aside,
         disk' = [disk EXCEPT !.at[s] = tree, !.old[s] = aside]
  PROVE  /\ DiskTyped' /\ disk'.at[s] = tree /\ disk'.old[s] = aside
         /\ \A r \in Slots \ {s} : disk'.at[r] = disk.at[r] /\ disk'.old[r] = disk.old[r]
         /\ disk'.stage = disk.stage /\ disk'.boot = disk.boot /\ disk'.far = disk.far
<1>1. PICK trees : disk \in Disks(trees)
  BY DEF DiskTyped
<1>2. disk' \in Disks(trees \union {tree, aside})
  BY <1>1 DEF Disks
<1> QED BY <1>1, <1>2 DEF Disks, DiskTyped

LEMMA PutAtStage ==
  ASSUME DiskTyped, NEW s \in Slots, NEW tree, NEW rest,
         disk' = [disk EXCEPT !.at[s] = tree, !.stage = rest]
  PROVE  /\ DiskTyped' /\ disk'.at[s] = tree /\ disk'.stage = rest
         /\ \A r \in Slots \ {s} : disk'.at[r] = disk.at[r]
         /\ disk'.old = disk.old /\ disk'.boot = disk.boot /\ disk'.far = disk.far
<1>1. PICK trees : disk \in Disks(trees)
  BY DEF DiskTyped
<1>2. disk' \in Disks(trees \union {tree, rest})
  BY <1>1 DEF Disks
<1> QED BY <1>1, <1>2 DEF Disks, DiskTyped

LEMMA PutAtBoot ==
  ASSUME DiskTyped, NEW s \in Slots, NEW p \in Procs, NEW tree, NEW rest,
         disk' = [disk EXCEPT !.at[s] = tree, !.boot[p] = rest]
  PROVE  /\ DiskTyped' /\ disk'.at[s] = tree /\ disk'.boot[p] = rest
         /\ \A r \in Slots \ {s} : disk'.at[r] = disk.at[r]
         /\ \A q \in Procs \ {p} : disk'.boot[q] = disk.boot[q]
         /\ disk'.old = disk.old /\ disk'.stage = disk.stage /\ disk'.far = disk.far
<1>1. PICK trees : disk \in Disks(trees)
  BY DEF DiskTyped
<1>2. disk' \in Disks(trees \union {tree, rest})
  BY <1>1 DEF Disks
<1> QED BY <1>1, <1>2 DEF Disks, DiskTyped

LEMMA DiskStays ==
  ASSUME DiskTyped, UNCHANGED disk, NEW p
  PROVE  Local(p)
  BY DEF DiskTyped, Local

(* The source of a replacement changes.                                    *)
LEMMA PutSource ==
  ASSUME Control, DiskTyped, NEW p \in Procs, NEW tree, disk' = WithSource(disk, p, tree)
  PROVE  /\ Local(p) /\ disk'.at = disk.at /\ disk'.old = disk.old
         /\ job[p].src = "boot" => disk'.boot[p] = tree /\ disk'.stage = disk.stage
         /\ job[p].src # "boot" => disk'.stage = tree /\ disk'.boot = disk.boot
  BY PutStage, PutBoot DEF WithSource, Local

(* The source of a replacement moves into its slot.                        *)
LEMMA MoveSource ==
  ASSUME Control, DiskTyped, NEW p \in Procs, Target(p) \in Slots, NEW tree,
         disk' = WithSource([disk EXCEPT !.at[Target(p)] = tree], p, None)
  PROVE  /\ Local(p) /\ disk'.at[Target(p)] = tree /\ disk'.old = disk.old
         /\ job[p].src = "boot" => disk'.boot[p] = None /\ disk'.stage = disk.stage
         /\ job[p].src # "boot" => disk'.stage = None /\ disk'.boot = disk.boot
<1>1. PICK s \in Slots : s = Target(p)
  OBVIOUS
<1>2. CASE job[p].src = "boot"
  <2>1. disk' = [disk EXCEPT !.at[s] = tree, !.boot[p] = None]
    BY <1>1, <1>2 DEF WithSource
  <2>2. /\ DiskTyped' /\ disk'.at[s] = tree /\ disk'.boot[p] = None
        /\ \A r \in Slots \ {s} : disk'.at[r] = disk.at[r]
        /\ \A q \in Procs \ {p} : disk'.boot[q] = disk.boot[q]
        /\ disk'.old = disk.old /\ disk'.stage = disk.stage /\ disk'.far = disk.far
    <3>1. PICK trees : disk \in Disks(trees)
      BY DEF DiskTyped
    <3>2. disk' \in Disks(trees \union {tree, None})
      BY <2>1, <3>1 DEF Disks
    <3> QED BY <2>1, <3>1, <3>2 DEF Disks, DiskTyped
  <2> QED BY <1>1, <1>2, <2>2 DEF Local
<1>3. CASE job[p].src # "boot"
  <2>1. disk' = [disk EXCEPT !.at[s] = tree, !.stage = None]
    BY <1>1, <1>3 DEF WithSource
  <2>2. /\ DiskTyped' /\ disk'.at[s] = tree /\ disk'.stage = None
        /\ \A r \in Slots \ {s} : disk'.at[r] = disk.at[r]
        /\ disk'.old = disk.old /\ disk'.boot = disk.boot /\ disk'.far = disk.far
    BY <2>1, PutAtStage
  <2> QED BY <1>1, <1>3, <2>2 DEF Local
<1> QED BY <1>2, <1>3
--------------------------------------------------------------------------------
(* replace_directory as what becomes of a slot, its backup and the source.  *)
Becomes(p, pc, at, old, source) ==
  /\ job'[p].pc = pc
  /\ disk'.at[Target(p)] = at /\ disk'.old[Target(p)] = old
  /\ job[p].src = "boot" => disk'.boot[p] = source /\ disk'.stage = disk.stage
  /\ job[p].src # "boot" => disk'.stage = source /\ disk'.boot = disk.boot

SwapEffect(p, pc, at, old, source) ==
  \/ /\ pc = "move"
     /\ \/ at = None /\ ~OtherVolume(p) /\ Becomes(p, "replaced", source, old, None)
        \/ \E next \in {"aside", "unwound"} : Becomes(p, next, at, old, source)
  \/ /\ pc = "aside"
     /\ \/ Becomes(p, "finish", None, at, source)
        \/ at = None /\ OtherVolume(p) /\ Becomes(p, "copyfresh", {}, old, source)
        \/ Becomes(p, "unwound", at, old, source)
  \/ /\ pc = "finish"
     /\ \/ ~OtherVolume(p) /\ Becomes(p, "forget", source, old, None)
        \/ OtherVolume(p) /\ Becomes(p, "copy", {}, old, source)
        \/ Becomes(p, "restore", at, old, source)
  \/ /\ pc = "copy"
     /\ \E tree, rest : \E next \in {"copy", "uncopy", "forget"} : Becomes(p, next, tree, old, rest)
  \/ /\ pc = "copyfresh"
     /\ \E tree, rest : \E next \in {"copyfresh", "unwound", "replaced"} :
          Becomes(p, next, tree, old, rest)
  \/ pc = "uncopy" /\ \E tree : Becomes(p, "restore", tree, old, source)
  \/ /\ pc = "restore"
     /\ \/ at = None /\ Becomes(p, "unwound", old, None, source)
        \/ Becomes(p, "torn", at, old, source)
  \/ pc = "forget" /\ \E rest \in {None, {}, old} : Becomes(p, "replaced", at, rest, source)

LEMMA TargetIs ==
  ASSUME Control, NEW p \in Procs, job[p].pc # "idle"
  PROVE  /\ Target(p) \in Slots
         /\ job[p].src = "boot" => Target(p) = Runtime
         /\ job[p].src # "boot" => Target(p) = job[p].pkg /\ Target(p) \in Packages
  BY DEF Control, JobTyped, Jobs, Target, Slots

(* A step moves one process.                                               *)
LEMMA OneMoves ==
  ASSUME Control, NEW p \in Procs, NEW j, job' = [job EXCEPT ![p] = j]
  PROVE  job'[p] = j /\ \A q \in Procs \ {p} : job'[q] = job[q]
  BY DEF Control

LEMMA GotoMoves ==
  ASSUME Control, NEW p \in Procs, NEW pc, Goto(p, pc)
  PROVE  /\ job'[p].pc = pc /\ job'[p].src = job[p].src /\ job'[p].pkg = job[p].pkg
         /\ job'[p].engine = job[p].engine /\ job'[p].before = job[p].before
         /\ \A q \in Procs \ {p} : job'[q] = job[q]
<1>1. JobTyped(job[p])
  BY DEF Control
<1>2. job'[p] = [job[p] EXCEPT !.pc = pc] /\ \A q \in Procs \ {p} : job'[q] = job[q]
  BY GotoIs, OneMoves
<1> QED BY <1>1, <1>2 DEF JobTyped, Jobs

(* What a clean-up leaves of a tree.                                       *)
LEMMA CleanedIs ==
  ASSUME NEW tree, NEW left \in Cleaned(tree)
  PROVE  /\ left.tree \in {None, {}, tree} /\ left.ok \in BOOLEAN
         /\ left.ok => left.tree = None
<1>1. \/ left = [ok |-> TRUE, tree |-> None]
      \/ \E rest \in {tree, {}} : left = [ok |-> FALSE, tree |-> rest]
  BY DEF Cleaned
<1>2. CASE left = [ok |-> TRUE, tree |-> None]
  BY <1>2
<1>3. ASSUME NEW rest \in {tree, {}}, left = [ok |-> FALSE, tree |-> rest]
      PROVE  left.tree \in {None, {}, tree} /\ left.ok = FALSE
  BY <1>3
<1> QED BY <1>1, <1>2, <1>3

LEMMA SweepEffect ==
  ASSUME Control, DiskTyped, NEW p \in Procs, SweepBackup(p)
  PROVE  /\ Local(p)
         /\ job'[p].src = job[p].src /\ job'[p].pkg = job[p].pkg
         /\ job'[p].engine = job[p].engine /\ job'[p].before = disk.at[Target(p)]
         /\ \A q \in Procs \ {p} : job'[q] = job[q]
         /\ \E pc \in {"move", "unwound"} : \E rest \in {None, {}, disk.old[Target(p)]} :
              Becomes(p, pc, disk.at[Target(p)], rest, Source(p))
<1>1. PICK left \in Cleaned(disk.old[Target(p)]) :
        /\ disk' = [disk EXCEPT !.old[Target(p)] = left.tree]
        /\ job' = [job EXCEPT ![p].pc = IF left.ok THEN "move" ELSE "unwound",
                              ![p].before = disk.at[Target(p)]]
  BY DEF SweepBackup
<1>2. PICK pc \in {"move", "unwound"} :
        job' = [job EXCEPT ![p] = [job[p] EXCEPT !.pc = pc, !.before = disk.at[Target(p)]]]
  BY <1>1 DEF Control
<1>3. job'[p] = [job[p] EXCEPT !.pc = pc, !.before = disk.at[Target(p)]]
      /\ \A q \in Procs \ {p} : job'[q] = job[q]
  BY <1>2, OneMoves
<1>4. /\ job'[p].pc = pc /\ job'[p].src = job[p].src /\ job'[p].pkg = job[p].pkg
      /\ job'[p].engine = job[p].engine /\ job'[p].before = disk.at[Target(p)]
  BY <1>3 DEF Control, JobTyped, Jobs
<1>5. PICK s \in Slots : s = Target(p)
  BY TargetIs DEF SweepBackup
<1>6. /\ DiskTyped' /\ disk'.old[s] = left.tree
      /\ \A r \in Slots \ {s} : disk'.old[r] = disk.old[r]
      /\ disk'.at = disk.at /\ disk'.stage = disk.stage /\ disk'.boot = disk.boot
      /\ disk'.far = disk.far
  BY <1>1, <1>5, PutOld
<1>7. Local(p) /\ Becomes(p, pc, disk.at[Target(p)], left.tree, Source(p))
  BY <1>4, <1>5, <1>6 DEF Local, Becomes, Source
<1>8. left.tree \in {None, {}, disk.old[Target(p)]}
  BY CleanedIs
<1> QED BY <1>3, <1>4, <1>7, <1>8

LEMMA SwapStepEffect ==
  ASSUME Control, DiskTyped, NEW p \in Procs, ReplaceStep(p), ~SweepBackup(p)
  PROVE  /\ Local(p)
         /\ job'[p].src = job[p].src /\ job'[p].pkg = job[p].pkg
         /\ job'[p].engine = job[p].engine /\ job'[p].before = job[p].before
         /\ \A q \in Procs \ {p} : job'[q] = job[q]
         /\ SwapEffect(p, job[p].pc, disk.at[Target(p)], disk.old[Target(p)], Source(p))
<1> DEFINE Rest == /\ job'[p].src = job[p].src /\ job'[p].pkg = job[p].pkg
                   /\ job'[p].engine = job[p].engine /\ job'[p].before = job[p].before
                   /\ \A q \in Procs \ {p} : job'[q] = job[q]
           at == disk.at[Target(p)]
           old == disk.old[Target(p)]
<1>1. PICK s \in Slots : s = Target(p)
  BY TargetIs, ReplaceGoesTo DEF SwapPcs, CopyPcs
<1>2. \A pc : Goto(p, pc) => job'[p].pc = pc /\ Rest
  BY GotoMoves
<1> HIDE DEF Rest
<1>3. ASSUME UNCHANGED disk, NEW pc, Goto(p, pc)
      PROVE  Local(p) /\ Rest /\ Becomes(p, pc, at, old, Source(p))
  BY <1>2, <1>3, DiskStays DEF Becomes, Source
<1>4. ASSUME disk' = WithSource([disk EXCEPT !.at[Target(p)] = Source(p)], p, None),
             NEW pc, Goto(p, pc)
      PROVE  Local(p) /\ Rest /\ Becomes(p, pc, Source(p), old, None)
  BY <1>1, <1>2, <1>4, MoveSource DEF Becomes
<1>5. ASSUME NEW tree, disk' = [disk EXCEPT !.at[Target(p)] = tree], NEW pc, Goto(p, pc)
      PROVE  Local(p) /\ Rest /\ Becomes(p, pc, tree, old, Source(p))
  <2>1. /\ DiskTyped' /\ disk'.at[s] = tree
        /\ \A r \in Slots \ {s} : disk'.at[r] = disk.at[r]
        /\ disk'.old = disk.old /\ disk'.stage = disk.stage /\ disk'.boot = disk.boot
        /\ disk'.far = disk.far
    BY <1>1, <1>5, PutAt
  <2> QED BY <1>1, <1>2, <1>5, <2>1 DEF Local, Becomes, Source
<1>6. ASSUME NEW tree, NEW aside, NEW pc, Goto(p, pc),
             disk' = [disk EXCEPT !.at[Target(p)] = tree, !.old[Target(p)] = aside]
      PROVE  Local(p) /\ Rest /\ Becomes(p, pc, tree, aside, Source(p))
  <2>1. /\ DiskTyped' /\ disk'.at[s] = tree /\ disk'.old[s] = aside
        /\ \A r \in Slots \ {s} : disk'.at[r] = disk.at[r] /\ disk'.old[r] = disk.old[r]
        /\ disk'.stage = disk.stage /\ disk'.boot = disk.boot /\ disk'.far = disk.far
    BY <1>1, <1>6, PutAtOld
  <2> QED BY <1>1, <1>2, <1>6, <2>1 DEF Local, Becomes, Source
<1> SUFFICES Local(p) /\ Rest /\ SwapEffect(p, job[p].pc, at, old, Source(p))
  BY DEF Rest
<1> HIDE DEF at, old
<1> USE DEF SwapEffect
<1>7. CASE MoveIn(p)
  BY <1>3, <1>4, <1>7 DEF MoveIn, at
<1>8. CASE MoveAside(p)
  <2>1. CASE /\ disk' = [disk EXCEPT !.at[Target(p)] = None,
                                      !.old[Target(p)] = disk.at[Target(p)]]
             /\ Goto(p, "finish")
    BY <1>6, <1>8, <2>1 DEF MoveAside, at
  <2>2. CASE disk' = [disk EXCEPT !.at[Target(p)] = {}] /\ Goto(p, "copyfresh")
             /\ disk.at[Target(p)] = None /\ OtherVolume(p)
    BY <1>5, <1>8, <2>2 DEF MoveAside, at
  <2>3. CASE UNCHANGED disk /\ Goto(p, "unwound")
    BY <1>3, <1>8, <2>3 DEF MoveAside, at
  <2> QED BY <1>8, <2>1, <2>2, <2>3 DEF MoveAside
<1>9. CASE Finish(p)
  BY <1>3, <1>4, <1>5, <1>9 DEF Finish
<1>10. CASE CopyPiece(p)
  <2>1. PICK tree, pc : /\ disk' = [disk EXCEPT !.at[Target(p)] = tree]
                        /\ Goto(p, pc)
                        /\ pc \in {job[p].pc, IF job[p].pc = "copy" THEN "uncopy" ELSE "unwound"}
    BY <1>10 DEF CopyPiece
  <2>2. Local(p) /\ Rest /\ Becomes(p, pc, tree, old, Source(p))
    BY <2>1, <1>5
  <2> QED BY <1>10, <2>1, <2>2 DEF CopyPiece
<1>11. CASE CopyDone(p)
  <2>1. PICK rest : disk' = WithSource(disk, p, rest)
    BY <1>11 DEF CopyDone
  <2>2. PICK pc : Goto(p, pc) /\ pc = IF job[p].pc = "copy" THEN "forget" ELSE "replaced"
    BY <1>11 DEF CopyDone
  <2>3. Local(p) /\ Rest /\ Becomes(p, pc, at, old, rest)
    BY <1>2, <2>1, <2>2, PutSource DEF Becomes, at, old
  <2> QED BY <1>11, <2>2, <2>3 DEF CopyDone
<1>12. CASE RemoveCopy(p)
  BY <1>5, <1>12 DEF RemoveCopy
<1>13. CASE Restore(p)
  BY <1>3, <1>6, <1>13 DEF Restore, at, old
<1>14. CASE ForgetBackup(p)
  <2>1. PICK left \in Cleaned(disk.old[Target(p)]) : disk' = [disk EXCEPT !.old[Target(p)] = left.tree]
    BY <1>14 DEF ForgetBackup
  <2>2. left.tree \in {None, {}, disk.old[Target(p)]}
    BY CleanedIs
  <2>3. /\ DiskTyped' /\ disk'.old[s] = left.tree
        /\ \A r \in Slots \ {s} : disk'.old[r] = disk.old[r]
        /\ disk'.at = disk.at /\ disk'.stage = disk.stage /\ disk'.boot = disk.boot
        /\ disk'.far = disk.far
    BY <1>1, <2>1, PutOld
  <2>4. Rest /\ job'[p].pc = "replaced" /\ job[p].pc = "forget"
    BY <1>2, <1>14 DEF ForgetBackup
  <2>5. Local(p) /\ Becomes(p, "replaced", at, left.tree, Source(p))
    BY <1>1, <2>3, <2>4 DEF Local, Becomes, Source, at
  <2> QED BY <2>2, <2>4, <2>5 DEF old
<1> QED BY <1>7, <1>8, <1>9, <1>10, <1>11, <1>12, <1>13, <1>14 DEF ReplaceStep
--------------------------------------------------------------------------------
(* Every other step of a process.  A replacement begins at sweep, with a    *)
(* staged tree or with a runtime that is whole.                            *)
SwapLater == {"move", "aside", "finish", "restore", "forget", "replaced", "unwound", "torn"}
               \union CopyPcs
Binary == {Piece(Runtime, "bin", FALSE)}

PlainEffect(p) ==
  /\ Local(p)
  /\ \A q \in Procs \ {p} : job'[q] = job[q]
  /\ job'[p].pc \notin SwapLater
  /\ \/ disk.far
     \/ disk'.at[Runtime] = disk.at[Runtime] /\ disk'.old[Runtime] = disk.old[Runtime]
  /\ job'[p].pc = "stamp" => disk'.boot[p] = Binary
  /\ job'[p].src = "boot" => /\ job[p].pc = "stamp"
                             /\ disk'.boot[p] = disk.boot[p] \union {Piece(Runtime, "VERSION", FALSE)}
  /\ job'[p].pc \in {"extract", "sweep"} =>
       job'[p].src = "boot" \/ CleanStage(p) \/ StageFile(p) \/ StageDone(p)
  /\ UNCHANGED installed \/ Complete(p)

(* The runtime is only reached through a bootstrap.                        *)
LEMMA RuntimeApart ==
  ASSUME Control, NEW p \in Procs, job[p].pc # "idle", job[p].src # "boot", Local(p)
  PROVE  disk'.at[Runtime] = disk.at[Runtime] /\ disk'.old[Runtime] = disk.old[Runtime]
  BY TargetIs, Apart DEF Local, Slots

LEMMA IdleMoves ==
  ASSUME Control, NEW p \in Procs, job' = [job EXCEPT ![p] = Idle]
  PROVE  /\ job'[p].pc = "idle" /\ job'[p].src = "stage"
         /\ \A q \in Procs \ {p} : job'[q] = job[q]
<1>1. job'[p] = Idle /\ \A q \in Procs \ {p} : job'[q] = job[q]
  BY OneMoves
<1> QED BY <1>1 DEF Idle

LEMMA PrepareEffect ==
  ASSUME Control, DiskTyped, NEW p \in Procs, Prepare(p)
  PROVE  PlainEffect(p)
<1>1. PICK left \in Cleaned(disk.at[job[p].pkg]) :
        /\ disk' = [disk EXCEPT !.at[job[p].pkg] = left.tree]
        /\ job' = [job EXCEPT ![p] = IF left.ok THEN [job[p] EXCEPT !.pc = "runtime"] ELSE Idle]
  BY DEF Prepare, Control
<1>2. job[p].src = "stage" /\ job[p].pc = "prepare"
  BY NotSwapping DEF Control, Prepare, SwapPcs, FailedSwap, CopyPcs
<1>3. Target(p) = job[p].pkg /\ Target(p) \in Slots
  BY <1>2, TargetIs
<1>4. Local(p)
  BY <1>1, <1>3, PutAt DEF Local
<1>5. job'[p].pc \in {"runtime", "idle"} /\ job'[p].src = "stage"
      /\ \A q \in Procs \ {p} : job'[q] = job[q]
  <2>1. CASE job' = [job EXCEPT ![p] = Idle]
    BY <2>1, IdleMoves
  <2>2. CASE job' = [job EXCEPT ![p] = [job[p] EXCEPT !.pc = "runtime"]]
    <3>1. Goto(p, "runtime")
      BY <2>2 DEF Goto, Control
    <3> QED BY <1>2, <3>1, GotoMoves
  <2> QED BY <1>1, <2>1, <2>2
<1> QED BY <1>2, <1>4, <1>5, RuntimeApart DEF Prepare, PlainEffect, SwapLater, CopyPcs

(* A jump that touches at most the bootstrap directory.                    *)
LEMMA BootEffect ==
  ASSUME Control, DiskTyped, NEW p \in Procs,
         EnsureRuntime(p) \/ FetchRuntime(p) \/ UnpackRuntime(p)
  PROVE  PlainEffect(p)
<1>1. job[p].src = "stage" /\ job[p].pc \in EarlyPcs
  BY NotSwapping DEF Control, EnsureRuntime, FetchRuntime, UnpackRuntime, SwapPcs, FailedSwap,
                     CopyPcs, EarlyPcs
<1>2. Local(p)
  <2>1. CASE EnsureRuntime(p)
    BY <2>1, DiskStays DEF EnsureRuntime
  <2>2. CASE FetchRuntime(p)
    BY <2>2, PutBoot DEF FetchRuntime, Local
  <2>3. CASE UnpackRuntime(p)
    BY <2>3, PutBoot DEF UnpackRuntime, Local
  <2> QED BY <2>1, <2>2, <2>3
<1>3. \/ job' = [job EXCEPT ![p] = Idle]
      \/ \E pc \in {"fetch", "download", "unpack", "unboot"} : Goto(p, pc)
      \/ Goto(p, "stamp") /\ disk' = [disk EXCEPT !.boot[p] = Binary]
  BY DEF EnsureRuntime, FetchRuntime, UnpackRuntime, Binary
<1>4. /\ job'[p].pc \notin SwapLater \union {"extract", "sweep"} /\ job'[p].src = "stage"
      /\ \A q \in Procs \ {p} : job'[q] = job[q]
      /\ job'[p].pc = "stamp" => disk'.boot[p] = Binary
  <2>1. CASE job' = [job EXCEPT ![p] = Idle]
    BY <2>1, IdleMoves DEF SwapLater, CopyPcs
  <2>2. ASSUME NEW pc \in {"fetch", "download", "unpack", "unboot"}, Goto(p, pc)
        PROVE  /\ job'[p].pc = pc /\ job'[p].src = "stage"
               /\ \A q \in Procs \ {p} : job'[q] = job[q]
    BY <1>1, <2>2, GotoMoves
  <2>3. CASE Goto(p, "stamp") /\ disk' = [disk EXCEPT !.boot[p] = Binary]
    BY <1>1, <2>3, GotoMoves, PutBoot DEF SwapLater, CopyPcs
  <2> QED BY <1>3, <2>1, <2>2, <2>3 DEF SwapLater, CopyPcs
<1>5. UNCHANGED installed
  BY DEF EnsureRuntime, FetchRuntime, UnpackRuntime
<1> QED BY <1>1, <1>2, <1>4, <1>5, RuntimeApart DEF PlainEffect, EarlyPcs

LEMMA StampEffect ==
  ASSUME Control, DiskTyped, NEW p \in Procs, StampRuntime(p)
  PROVE  PlainEffect(p)
<1>1. job[p].src = "stage" /\ job[p].pc = "stamp"
  BY NotSwapping DEF Control, StampRuntime, SwapPcs, FailedSwap, CopyPcs
<1>2. CASE Goto(p, "unboot") /\ UNCHANGED disk
  <2>1. /\ job'[p].pc = "unboot" /\ job'[p].src = "stage"
        /\ \A q \in Procs \ {p} : job'[q] = job[q]
    BY <1>1, <1>2, GotoMoves
  <2> QED BY <1>2, <2>1, DiskStays DEF StampRuntime, PlainEffect, SwapLater, CopyPcs
<1>3. CASE /\ disk' = [disk EXCEPT !.boot[p] = @ \union {Piece(Runtime, "VERSION", FALSE)}]
           /\ job' = [job EXCEPT ![p].pc = "sweep", ![p].src = "boot"]
  <2>1. job' = [job EXCEPT ![p] = [job[p] EXCEPT !.pc = "sweep", !.src = "boot"]]
    BY <1>3 DEF Control
  <2> DEFINE j == [job[p] EXCEPT !.pc = "sweep", !.src = "boot"]
  <2>5. job'[p] = j /\ \A q \in Procs \ {p} : job'[q] = job[q]
    BY <2>1, OneMoves
  <2>6. j.pc = "sweep"
    BY DEF Control, JobTyped, Jobs
  <2>7. j.src = "boot"
    BY DEF Control, JobTyped, Jobs
  <2>2. job'[p].pc = "sweep" /\ job'[p].src = "boot" /\ \A q \in Procs \ {p} : job'[q] = job[q]
    BY <2>5, <2>6, <2>7
  <2>3. disk' = [disk EXCEPT !.boot[p] = disk.boot[p] \union {Piece(Runtime, "VERSION", FALSE)}]
    BY <1>3 DEF DiskTyped, Disks
  <2>4. /\ disk'.boot[p] = disk.boot[p] \union {Piece(Runtime, "VERSION", FALSE)}
        /\ disk'.at = disk.at /\ disk'.old = disk.old /\ Local(p)
    BY <2>3, PutBoot DEF Local
  <2> QED BY <1>1, <2>2, <2>4 DEF StampRuntime, PlainEffect, SwapLater, CopyPcs
<1> QED BY <1>2, <1>3 DEF StampRuntime

LEMMA BootEndsEffect ==
  ASSUME Control, DiskTyped, NEW p \in Procs, RuntimeReady(p) \/ DropBootstrap(p)
  PROVE  PlainEffect(p)
<1>1. Local(p) /\ disk'.at = disk.at /\ disk'.old = disk.old
  BY PutBoot DEF Local, RuntimeReady, DropBootstrap
<1>2. CASE RuntimeReady(p)
  <2>1. job' = [job EXCEPT ![p] = [job[p] EXCEPT !.pc = "download", !.src = "stage", !.before = None]]
    BY <1>2 DEF RuntimeReady, Control
  <2> DEFINE j == [job[p] EXCEPT !.pc = "download", !.src = "stage", !.before = None]
  <2>3. job'[p] = j /\ \A q \in Procs \ {p} : job'[q] = job[q]
    BY <2>1, OneMoves
  <2>4. j.pc = "download" /\ j.src = "stage"
    BY DEF Control, JobTyped, Jobs
  <2>2. job'[p].pc = "download" /\ job'[p].src = "stage" /\ \A q \in Procs \ {p} : job'[q] = job[q]
    BY <2>3, <2>4
  <2> QED BY <1>1, <1>2, <2>2 DEF RuntimeReady, PlainEffect, SwapLater, CopyPcs
<1>3. CASE DropBootstrap(p)
  BY <1>1, <1>3, IdleMoves DEF DropBootstrap, PlainEffect, SwapLater, CopyPcs
<1> QED BY <1>2, <1>3

LEMMA Plain ==
  ASSUME Control, NEW p \in Procs, NEW j, job' = [job EXCEPT ![p] = j], Local(p),
         j.pc \notin SwapLater \union {"stamp", "extract", "sweep"}, j.src = "stage",
         UNCHANGED installed,
         \/ disk.far
         \/ disk'.at[Runtime] = disk.at[Runtime] /\ disk'.old[Runtime] = disk.old[Runtime]
  PROVE  PlainEffect(p)
<1>1. job'[p] = j /\ \A q \in Procs \ {p} : job'[q] = job[q]
  BY OneMoves
<1> QED BY <1>1 DEF PlainEffect

(* A process at one of these places works on its package.                  *)
LEMMA AtPackage ==
  ASSUME Control, NEW p \in Procs, job[p].pc \notin SwapPcs \union FailedSwap, job[p].pc # "idle"
  PROVE  job[p].src = "stage" /\ Target(p) = job[p].pkg /\ job[p].pkg \in Packages
<1>1. job[p].src = "stage"
  BY NotSwapping DEF Control
<1> QED BY <1>1, TargetIs

LEMMA GotoPlain ==
  ASSUME Control, NEW p \in Procs, NEW pc, Goto(p, pc), Local(p), job[p].src = "stage",
         job[p].pc # "idle", pc \notin SwapLater, pc # "stamp", UNCHANGED installed,
         pc \in {"extract", "sweep"} => CleanStage(p) \/ StageDone(p)
  PROVE  PlainEffect(p)
<1> DEFINE j == [job[p] EXCEPT !.pc = pc]
<1>1. j.pc = pc /\ j.src = "stage"
  BY DEF Control, JobTyped, Jobs
<1>2. job' = [job EXCEPT ![p] = j]
  BY GotoIs
<1> HIDE DEF j
<1>3. job'[p] = j /\ \A q \in Procs \ {p} : job'[q] = job[q]
  BY <1>2, OneMoves
<1> QED BY <1>1, <1>3, RuntimeApart DEF PlainEffect

LEMMA DownloadEffect ==
  ASSUME Control, DiskTyped, NEW p \in Procs, Download(p)
  PROVE  PlainEffect(p)
<1> USE DEF SwapLater, CopyPcs
<1>1. job[p].src = "stage" /\ job[p].pc = "download" /\ Local(p) /\ UNCHANGED <<disk, installed>>
  BY AtPackage, DiskStays DEF Download, SwapPcs, FailedSwap
<1>2. ASSUME NEW form, NEW good,
             job' = [job EXCEPT ![p].pc = "route", ![p].form = form, ![p].good = good]
      PROVE  PlainEffect(p)
  <2> DEFINE j == [job[p] EXCEPT !.pc = "route", !.form = form, !.good = good]
  <2>1. j.pc = "route" /\ j.src = "stage"
    BY <1>1 DEF Control, JobTyped, Jobs
  <2>2. job' = [job EXCEPT ![p] = j]
    BY <1>2 DEF Control
  <2> HIDE DEF j
  <2> QED BY <1>1, <2>1, <2>2, Plain
<1> QED BY <1>1, <1>2, GotoPlain DEF Download

LEMMA RouteEffect ==
  ASSUME Control, DiskTyped, NEW p \in Procs, Route(p)
  PROVE  PlainEffect(p) /\ job'[p].pc \in {"rollback", "clean", "native"}
<1> USE DEF SwapLater, CopyPcs
<1>1. job[p].src = "stage" /\ job[p].pc = "route" /\ Local(p) /\ UNCHANGED <<disk, installed>>
  BY AtPackage, DiskStays DEF Route, SwapPcs, FailedSwap
<1> DEFINE kind   == ProbedKind(job[p].inst.kind, job[p].form)
           engine == IF kind = Unsupported THEN kind ELSE EngineFor(kind, job[p].inst.suffix)
           pc == IF engine = Unsupported THEN "rollback"
                 ELSE IF engine \in {"zip", "portable"} THEN "clean" ELSE "native"
           j == [job[p] EXCEPT !.engine = engine, !.pc = pc]
<1>5. job' = [job EXCEPT ![p].engine = engine, ![p].pc = pc]
  BY DEF Route
<1>2. pc \in {"rollback", "clean", "native"}
  OBVIOUS
<1> HIDE DEF engine, pc
<1>3. j.pc = pc /\ j.src = "stage"
  BY <1>1 DEF Control, JobTyped, Jobs
<1>4. job' = [job EXCEPT ![p] = j]
  BY <1>5 DEF Control
<1> HIDE DEF j
<1> QED BY <1>1, <1>2, <1>3, <1>4, Plain, OneMoves

(* An engine, up to the replacement.                                       *)
LEMMA EngineEffect ==
  ASSUME Control, DiskTyped, NEW p \in Procs,
         InstallNative(p) \/ CleanStage(p) \/ StageFile(p) \/ StageDone(p) \/ StageFails(p)
  PROVE  PlainEffect(p)
<1> USE DEF SwapLater, CopyPcs
<1>1. job[p].pc \in {"native", "clean", "extract"}
  BY DEF InstallNative, CleanStage, StageFile, StageDone, StageFails
<1>2. job[p].src = "stage" /\ Target(p) = job[p].pkg /\ job[p].pkg \in Slots
  BY <1>1, AtPackage DEF SwapPcs, FailedSwap, Slots
<1>3. Local(p)
  <2>1. CASE UNCHANGED disk
    BY <2>1, DiskStays
  <2>2. ASSUME NEW tree, disk' = [disk EXCEPT !.stage = tree] PROVE Local(p)
    BY <2>2, PutStage DEF Local
  <2>3. ASSUME NEW tree, disk' = [disk EXCEPT !.at[job[p].pkg] = tree] PROVE Local(p)
    BY <1>2, <2>3, PutAt DEF Local
  <2>4. CASE InstallNative(p)
    BY <2>3, <2>4 DEF InstallNative
  <2>5. CASE CleanStage(p)
    BY <2>2, <2>5 DEF CleanStage
  <2>6. CASE StageFile(p)
    BY <2>2, <2>6 DEF StageFile
  <2>7. CASE StageFails(p)
    BY <2>1, <2>2, <2>7 DEF StageFails, StageCut
  <2> QED BY <2>1, <2>4, <2>5, <2>6, <2>7 DEF StageDone
<1>4. \/ UNCHANGED job /\ StageFile(p)
      \/ \E pc \in {"done", "rollback"} : Goto(p, pc)
      \/ CleanStage(p) /\ Goto(p, "extract")
      \/ StageDone(p) /\ Goto(p, "sweep")
  BY DEF InstallNative, CleanStage, StageFile, StageDone, StageFails, Goto
<1>5. UNCHANGED installed
  BY DEF InstallNative, CleanStage, StageFile, StageDone, StageFails
<1>6. CASE UNCHANGED job /\ StageFile(p)
  BY <1>1, <1>2, <1>3, <1>5, <1>6, RuntimeApart DEF PlainEffect
<1> QED BY <1>1, <1>2, <1>3, <1>4, <1>5, <1>6, GotoPlain

LEMMA CompleteEffect ==
  ASSUME Control, DiskTyped, NEW p \in Procs, Complete(p)
  PROVE  PlainEffect(p)
<1> USE DEF SwapLater, CopyPcs
<1>1. Local(p) /\ UNCHANGED disk
  BY DiskStays DEF Complete
<1>2. job[p].src = "stage" /\ job[p].pc # "idle"
  BY AtPackage DEF Complete, Installed, SwapPcs, FailedSwap
<1> QED BY <1>1, <1>2, IdleJob, Plain, GotoPlain, IdleMoves DEF Complete, PlainEffect

LEMMA RollbackEffect ==
  ASSUME Control, DiskTyped, NEW p \in Procs,
         RollbackStage(p) \/ RollbackBackup(p) \/ RollbackDir(p)
  PROVE  PlainEffect(p) /\ job'[p].pc \in UndoPcs \union {"idle"}
<1> USE DEF SwapLater, CopyPcs, UndoPcs
<1>1. job[p].src = "stage" /\ job[p].pc # "idle"
  BY AtPackage DEF RollbackStage, RollbackBackup, RollbackDir, SwapPcs, FailedSwap
<1>2. Target(p) = job[p].pkg /\ job[p].pkg \in Slots
  BY <1>1, TargetIs
<1>3. CASE RollbackStage(p)
  <2> DEFINE j == [job[p] EXCEPT !.pc = "rollbackold", !.before = None]
  <2>1. j.pc = "rollbackold" /\ j.src = "stage"
    BY <1>1 DEF Control, JobTyped, Jobs
  <2>2. job' = [job EXCEPT ![p] = j]
    BY <1>3 DEF RollbackStage, Control
  <2>3. PICK tree : disk' = [disk EXCEPT !.stage = tree]
    BY <1>3 DEF RollbackStage
  <2>4. Local(p)
    BY <2>3, PutStage DEF Local
  <2> HIDE DEF j
  <2>5. UNCHANGED installed
    BY <1>3 DEF RollbackStage
  <2> QED BY <1>1, <2>1, <2>2, <2>4, <2>5, RuntimeApart, Plain, OneMoves
<1>4. CASE RollbackBackup(p)
  <2>1. PICK tree : disk' = [disk EXCEPT !.old[job[p].pkg] = tree]
    BY <1>4 DEF RollbackBackup
  <2>2. Local(p)
    BY <1>2, <2>1, PutOld DEF Local
  <2>3. Goto(p, "rollbackdir") /\ UNCHANGED installed
    BY <1>4 DEF RollbackBackup
  <2> QED BY <1>1, <2>2, <2>3, GotoPlain, GotoMoves
<1>5. CASE RollbackDir(p)
  <2>1. PICK tree : disk' = [disk EXCEPT !.at[job[p].pkg] = tree]
    BY <1>5 DEF RollbackDir
  <2>2. Local(p)
    BY <1>2, <2>1, PutAt DEF Local
  <2>3. job' = [job EXCEPT ![p] = Idle] /\ UNCHANGED installed
    BY <1>5 DEF RollbackDir
  <2> QED BY <1>1, <2>2, <2>3, RuntimeApart, IdleMoves DEF PlainEffect
<1> QED BY <1>3, <1>4, <1>5

LEMMA CrashEffect ==
  ASSUME Control, DiskTyped, NEW p \in Procs, Crash(p), job[p].pc \in CopyPcs => disk.far
  PROVE  PlainEffect(p) /\ job'[p].pc = "idle"
<1> USE DEF SwapLater, CopyPcs
<1>1. /\ job[p].pc # "idle" /\ Target(p) \in Slots /\ job' = [job EXCEPT ![p] = Idle]
      /\ UNCHANGED installed
  BY TargetIs DEF Crash
<1>2. CASE disk' = [disk EXCEPT !.boot[p] = None]
  BY <1>1, <1>2, PutBoot, IdleMoves DEF Local, PlainEffect
<1>3. CASE job[p].pc = "extract" /\ StageCut(p)
  BY <1>1, <1>3, PutStage, IdleMoves DEF StageCut, Local, PlainEffect
<1>4. CASE /\ job[p].pc \in {"copy", "copyfresh"}
           /\ \E tree : disk' = [disk EXCEPT !.at[Target(p)] = tree, !.boot[p] = None]
  <2>1. PICK tree : disk' = [disk EXCEPT !.at[Target(p)] = tree, !.boot[p] = None]
    BY <1>4
  <2>2. PICK s \in Slots : s = Target(p)
    BY <1>1
  <2>3. /\ DiskTyped' /\ disk'.old = disk.old /\ disk'.far = disk.far
        /\ \A r \in Slots \ {s} : disk'.at[r] = disk.at[r]
        /\ \A q \in Procs \ {p} : disk'.boot[q] = disk.boot[q]
    BY <2>1, <2>2, PutAtBoot
  <2>4. Local(p) /\ disk.far
    BY <1>4, <2>2, <2>3 DEF Local
  <2> QED BY <1>1, <2>4, IdleMoves DEF PlainEffect
<1>5. ASSUME job[p].pc \in {"copy", "copyfresh"}, NEW piece,
             disk' = [disk EXCEPT !.at[Target(p)] = @ \union {[piece EXCEPT !.cut = TRUE]},
                                  !.boot[p] = None]
      PROVE  \E tree : disk' = [disk EXCEPT !.at[Target(p)] = tree, !.boot[p] = None]
  BY <1>5
<1> QED BY <1>2, <1>3, <1>4, <1>5 DEF Crash

LEMMA BeginEffect ==
  ASSUME Control, DiskTyped, NEW p \in Procs, NEW k \in Packages, NEW offer \in Offers,
         NEW host \in Hosts, NEW ignore \in BOOLEAN, Begin(p, k, offer, host, ignore)
  PROVE  PlainEffect(p) /\ job'[p].pc = "prepare"
<1> DEFINE j == [Idle EXCEPT !.pc = "prepare", !.pkg = k, !.inst = SelectInstaller(offer, host),
                             !.ignore = ignore]
<1>1. j.pc = "prepare" /\ j.src = "stage"
  BY DEF Idle
<1>2. job' = [job EXCEPT ![p] = j] /\ UNCHANGED <<disk, installed>>
  BY DEF Begin
<1> HIDE DEF j
<1> QED BY <1>1, <1>2, DiskStays, Plain, OneMoves DEF SwapLater, CopyPcs
--------------------------------------------------------------------------------
(* Every step is one of these.  Only a runtime is copied, and only from     *)
(* another volume.                                                         *)
CopiesFar == \A p \in Procs : job[p].pc \in CopyPcs => disk.far

LEMMA StepKinds ==
  ASSUME Control, DiskTyped, CopiesFar, [Next]_vars
  PROVE  \/ \E p \in Procs : PlainEffect(p)
         \/ \E p \in Procs : ReplaceStep(p) /\ UNCHANGED installed
         \/ \E k \in Packages : Uninstall(k)
         \/ UNCHANGED vars
<1>1. ASSUME NEW p \in Procs, Step(p)
      PROVE  PlainEffect(p) \/ (ReplaceStep(p) /\ UNCHANGED installed)
  BY <1>1, PrepareEffect, BootEffect, StampEffect, BootEndsEffect, DownloadEffect, RouteEffect,
     EngineEffect, CompleteEffect, RollbackEffect DEF Step
<1>2. ASSUME NEW p \in Procs, Crash(p) PROVE PlainEffect(p)
  BY <1>2, CrashEffect DEF CopiesFar
<1> QED BY <1>1, <1>2, BeginEffect DEF Next

LEMMA UninstallEffect ==
  ASSUME DiskTyped, NEW k \in Packages, Uninstall(k)
  PROVE  /\ DiskTyped' /\ UNCHANGED job
         /\ \A s \in Slots \ {k} : disk'.at[s] = disk.at[s]
         /\ disk'.old = disk.old /\ disk'.stage = disk.stage /\ disk'.boot = disk.boot
         /\ disk'.far = disk.far
<1>1. PICK s \in Slots : s = k
  BY DEF Slots
<1>2. disk' = [disk EXCEPT !.at[s] = None] /\ UNCHANGED job
  BY <1>1 DEF Uninstall
<1> QED BY <1>1, <1>2, PutAt

(* On one volume a replacement only moves trees.                           *)
LEMMA NearSwap ==
  ASSUME NEW p, NEW pc, NEW at, NEW old, NEW source, SwapEffect(p, pc, at, old, source),
         ~OtherVolume(p), pc \notin CopyPcs
  PROVE  \E a \in {at, old, source, None}, o \in {at, old, None, {}}, rest \in {source, None},
            next \in (SwapPcs \union FailedSwap) \ CopyPcs : Becomes(p, next, a, o, rest)
  BY DEF SwapEffect, CopyPcs, SwapPcs, FailedSwap

LEMMA FarSwap ==
  ASSUME NEW p, NEW pc, NEW at, NEW old, NEW source, SwapEffect(p, pc, at, old, source)
  PROVE  job'[p].pc \in CopyPcs => OtherVolume(p) \/ pc \in CopyPcs
  BY DEF SwapEffect, CopyPcs, Becomes

LEMMA CopiesStayFar ==
  ASSUME Control, DiskTyped, CopiesFar, [Next]_vars
  PROVE  CopiesFar' /\ DiskTyped' /\ disk'.far = disk.far
<1>1. ASSUME NEW p \in Procs, PlainEffect(p)
      PROVE  CopiesFar' /\ DiskTyped' /\ disk'.far = disk.far
  BY <1>1 DEF PlainEffect, Local, CopiesFar, SwapLater
<1>2. ASSUME NEW p \in Procs, SweepBackup(p)
      PROVE  CopiesFar' /\ DiskTyped' /\ disk'.far = disk.far
  BY <1>2, SweepEffect DEF Local, CopiesFar, CopyPcs, Becomes
<1>3. ASSUME NEW p \in Procs, ReplaceStep(p), ~SweepBackup(p)
      PROVE  CopiesFar' /\ DiskTyped' /\ disk'.far = disk.far
  BY <1>3, SwapStepEffect, FarSwap DEF Local, CopiesFar, OtherVolume
<1>4. ASSUME NEW k \in Packages, Uninstall(k)
      PROVE  CopiesFar' /\ DiskTyped' /\ disk'.far = disk.far
  BY <1>4, UninstallEffect DEF CopiesFar
<1>5. CASE UNCHANGED vars
  BY <1>5 DEF vars, CopiesFar, DiskTyped
<1> QED BY <1>1, <1>2, <1>3, <1>4, <1>5, StepKinds

--------------------------------------------------------------------------------
(* The runtime, on the volume of its staging directory: whole, of this or   *)
(* the earlier version, an empty directory, or not there.                  *)
RuntimeTrees == {None, {}, WholeTree(OldRuntime), WholeTree(Runtime)}

NearRuntime ==
  /\ disk.at[Runtime] \in RuntimeTrees /\ disk.old[Runtime] \in RuntimeTrees
  /\ \A p \in Procs :
       /\ job[p].pc = "stamp" => disk.boot[p] = Binary
       /\ job[p].src = "boot" => disk.boot[p] \in {None, WholeTree(Runtime)}

RuntimeGood == CopiesFar /\ (disk.far \/ NearRuntime)

LEMMA WholeRuntime ==
  WholeTree(Runtime) = Binary \union {Piece(Runtime, "VERSION", FALSE)}
  BY Apart DEF WholeTree, Parts, Binary

LEMMA PlainRuntime ==
  ASSUME NearRuntime, NEW p \in Procs, PlainEffect(p), ~disk.far
  PROVE  NearRuntime'
<1>1. \A q \in Procs \ {p} : job'[q] = job[q] /\ disk'.boot[q] = disk.boot[q]
  BY DEF PlainEffect, Local
<1> QED BY <1>1, WholeRuntime DEF PlainEffect, NearRuntime

LEMMA SwapRuntime ==
  ASSUME Control, DiskTyped, CopiesFar, NearRuntime, NEW p \in Procs, ReplaceStep(p), ~disk.far
  PROVE  NearRuntime'
<1> DEFINE at == disk.at[Target(p)]
           old == disk.old[Target(p)]
<1>1. job[p].pc \in SwapPcs \ (CopyPcs \union {"idle", "stamp"}) /\ ~OtherVolume(p)
  BY ReplaceGoesTo DEF CopiesFar, OtherVolume, SwapPcs, CopyPcs
<1>2. /\ Local(p) /\ job'[p].src = job[p].src
      /\ \A q \in Procs \ {p} : job'[q] = job[q]
      /\ \E a \in {at, old, Source(p), None}, o \in {at, old, None, {}},
            rest \in {Source(p), None}, next \in (SwapPcs \union FailedSwap) \ CopyPcs :
              Becomes(p, next, a, o, rest)
  <2>1. CASE SweepBackup(p)
    BY <2>1, SweepEffect DEF SwapPcs, FailedSwap, CopyPcs
  <2>2. CASE ~SweepBackup(p)
    BY <1>1, <2>2, SwapStepEffect, NearSwap
  <2> QED BY <2>1, <2>2
<1>3. PICK a \in {at, old, Source(p), None}, o \in {at, old, None, {}},
           rest \in {Source(p), None}, next \in (SwapPcs \union FailedSwap) \ CopyPcs :
             Becomes(p, next, a, o, rest)
  BY <1>2
<1>4. job'[p].pc # "stamp"
  BY <1>3 DEF Becomes, SwapPcs, FailedSwap, CopyPcs
<1>5. CASE job[p].src # "boot"
  <2>1. disk'.at[Runtime] = disk.at[Runtime] /\ disk'.old[Runtime] = disk.old[Runtime]
    BY <1>1, <1>2, <1>5, RuntimeApart
  <2> QED BY <1>2, <1>4, <1>5, <2>1 DEF NearRuntime, Local
<1>6. CASE job[p].src = "boot"
  <2>1. Target(p) = Runtime /\ Source(p) = disk.boot[p]
    BY <1>6 DEF Target, Source
  <2>2. disk'.at[Runtime] \in RuntimeTrees /\ disk'.old[Runtime] \in RuntimeTrees
    BY <1>3, <1>6, <2>1 DEF Becomes, NearRuntime, RuntimeTrees
  <2>3. disk'.boot[p] \in {None, WholeTree(Runtime)}
    BY <1>3, <1>6, <2>1 DEF Becomes, NearRuntime
  <2> QED BY <1>2, <1>4, <2>2, <2>3 DEF NearRuntime, Local
<1> QED BY <1>5, <1>6

LEMMA RuntimeStep ==
  ASSUME Control, DiskTyped, RuntimeGood, [Next]_vars
  PROVE  DiskTyped' /\ RuntimeGood'
<1>1. CopiesFar' /\ DiskTyped' /\ disk'.far = disk.far
  BY CopiesStayFar DEF RuntimeGood
<1>2. ASSUME ~disk.far, NearRuntime PROVE NearRuntime'
  <2>1. ASSUME NEW k \in Packages, Uninstall(k) PROVE NearRuntime'
    BY <1>2, <2>1, UninstallEffect, Apart DEF NearRuntime, Slots
  <2>2. CASE UNCHANGED vars
    BY <1>2, <2>2 DEF vars, NearRuntime
  <2> QED BY <1>2, <2>1, <2>2, StepKinds, PlainRuntime, SwapRuntime DEF RuntimeGood
<1> QED BY <1>1, <1>2 DEF RuntimeGood

LEMMA InitRuntime ==
  ASSUME Init
  PROVE  DiskTyped /\ RuntimeGood
<1>1. PICK far \in BOOLEAN, runtime \in {None, WholeTree(OldRuntime)} :
        disk = [at    |-> [s \in Slots |-> IF s = Runtime THEN runtime ELSE None],
                old   |-> [s \in Slots |-> None],
                stage |-> None, boot |-> [p \in Procs |-> None], far |-> far]
  BY DEF Init
<1>2. disk \in Disks(RuntimeTrees)
  BY <1>1 DEF Disks, RuntimeTrees
<1>3. /\ disk.at[Runtime] \in RuntimeTrees /\ disk.old[Runtime] \in RuntimeTrees
  BY <1>2 DEF Disks, Slots
<1>4. \A p \in Procs : job[p].pc = "idle" /\ job[p].src = "stage"
  BY DEF Init, Idle
<1> QED BY <1>2, <1>3, <1>4 DEF DiskTyped, RuntimeGood, NearRuntime, CopiesFar, CopyPcs

(* A runtime that an install takes for available is complete, wherever any  *)
(* bootstrap was interrupted, unless it was copied from another volume      *)
(* (local_runtime_available against bootstrap_local_runtime, sevenz.rs).    *)
THEOREM RuntimeStaysWhole == Spec => []RuntimeIsWhole
<1>1. Init => DiskTyped /\ RuntimeGood
  BY InitRuntime
<1>2. Control /\ DiskTyped /\ RuntimeGood /\ [Next]_vars => (DiskTyped /\ RuntimeGood)'
  BY RuntimeStep
<1>3. RuntimeGood => RuntimeIsWhole
  <2> SUFFICES ASSUME NearRuntime, LocalRuntimeAvailable
               PROVE  disk.at[Runtime] = WholeTree(Runtime)
    BY DEF RuntimeGood, RuntimeIsWhole
  <2>1. Piece(Runtime, "VERSION", FALSE) \in disk.at[Runtime] /\ disk.at[Runtime] # None
    BY DEF LocalRuntimeAvailable
  <2>2. Piece(Runtime, "VERSION", FALSE) \notin WholeTree(OldRuntime)
    BY DEF WholeTree, Piece, Runtime, OldRuntime
  <2> QED BY <2>1, <2>2 DEF NearRuntime, RuntimeTrees
<1> QED BY <1>1, <1>2, <1>3, ControlInvariant, PTL DEF Spec
--------------------------------------------------------------------------------
(* What a replacement remembers: the tree that was there stays in the slot  *)
(* or in its backup.  Other processes do not touch a package that this one  *)
(* has claimed; the runtime has one slot for all of them.                  *)
Mine(p) == job[p].src = "stage" \/ Alone

Keeps(j, at, old) ==
  /\ j.pc \in {"move", "aside"} => j.before = at
  /\ j.pc \in {"finish", "copy", "uncopy", "restore"} => j.before = old
  /\ j.pc = "copyfresh" => j.before = None
  /\ j.pc = "unwound" => j.before \in {None, at}

KeepsBefore == \A p \in Procs : Mine(p) => Keeps(job[p], disk.at[Target(p)], disk.old[Target(p)])

LEMMA Elsewhere ==
  ASSUME Control, NEW p \in Procs, NEW q \in Procs, p # q, Local(q), job'[p] = job[p],
         job[p].pc # "idle", job[p].src = "stage"
  PROVE  /\ Target(p)' = Target(p)
         /\ disk'.at[Target(p)] = disk.at[Target(p)] /\ disk'.old[Target(p)] = disk.old[Target(p)]
<1>1. Target(p) \in Packages /\ Target(p) = job[p].pkg
  BY TargetIs
<1>2. Target(q) # Target(p)
  BY <1>1, Apart DEF Control, Claims, Target
<1> QED BY <1>1, <1>2 DEF Local, Slots, Target

(* Whatever another process does.                                          *)
LEMMA OthersKeep ==
  ASSUME Control, KeepsBefore, NEW q \in Procs, Local(q), \A p \in Procs \ {q} : job'[p] = job[p]
  PROVE  \A p \in Procs \ {q} :
            Mine(p)' => Keeps(job[p], disk.at[Target(p)], disk.old[Target(p)])'
<1> SUFFICES ASSUME NEW p \in Procs \ {q}, Mine(p)'
             PROVE  Keeps(job[p], disk.at[Target(p)], disk.old[Target(p)])'
  OBVIOUS
<1>1. job'[p] = job[p] /\ job[p].src = "stage" /\ Mine(p)
  BY DEF Mine, Alone
<1>2. CASE job[p].pc = "idle"
  BY <1>1, <1>2 DEF Keeps
<1>3. CASE job[p].pc # "idle"
  BY <1>1, <1>3, Elsewhere DEF KeepsBefore
<1> QED BY <1>2, <1>3

LEMMA SwapKeeps ==
  ASSUME Control, DiskTyped, KeepsBefore, NEW p \in Procs, ReplaceStep(p), Mine(p)
  PROVE  Keeps(job[p], disk.at[Target(p)], disk.old[Target(p)])'
<1> DEFINE at == disk.at[Target(p)]
           old == disk.old[Target(p)]
<1>1. Keeps(job[p], at, old)
  BY DEF KeepsBefore
<1>2. job'[p].src = job[p].src /\ job'[p].pkg = job[p].pkg
  BY SweepEffect, SwapStepEffect
<1>3. Target(p)' = Target(p)
  BY <1>2 DEF Target
<1>4. CASE SweepBackup(p)
  BY <1>3, <1>4, SweepEffect DEF Becomes, Keeps
<1>5. CASE ~SweepBackup(p)
  <2>1. job'[p].before = job[p].before /\ SwapEffect(p, job[p].pc, at, old, Source(p))
    BY <1>5, SwapStepEffect
  <2> HIDE DEF at, old
  <2>2. Keeps(job'[p], disk'.at[Target(p)], disk'.old[Target(p)])
    BY <1>1, <2>1 DEF SwapEffect, Becomes, Keeps
  <2> QED BY <1>3, <2>2
<1> QED BY <1>4, <1>5

LEMMA KeepsStep ==
  ASSUME Control, DiskTyped, CopiesFar, KeepsBefore, [Next]_vars
  PROVE  KeepsBefore'
<1>1. ASSUME NEW p \in Procs, PlainEffect(p) PROVE KeepsBefore'
  <2>1. Keeps(job[p], disk.at[Target(p)], disk.old[Target(p)])'
    BY <1>1 DEF PlainEffect, SwapLater, CopyPcs, Keeps
  <2> QED BY <1>1, <2>1, OthersKeep DEF PlainEffect, KeepsBefore
<1>2. ASSUME NEW p \in Procs, ReplaceStep(p) PROVE KeepsBefore'
  <2>1. /\ Local(p) /\ job'[p].src = job[p].src
        /\ \A q \in Procs \ {p} : job'[q] = job[q]
    BY <1>2, SweepEffect, SwapStepEffect
  <2>2. Mine(p)' => Mine(p)
    BY <2>1 DEF Mine, Alone
  <2> QED BY <1>2, <2>1, <2>2, SwapKeeps, OthersKeep DEF KeepsBefore
<1>3. ASSUME NEW k \in Packages, Uninstall(k) PROVE KeepsBefore'
  <2>1. \A p \in Procs : job[p].pc # "idle" => Target(p) \in Slots \ {k}
    <3> SUFFICES ASSUME NEW p \in Procs, job[p].pc # "idle" PROVE Target(p) \in Slots \ {k}
      OBVIOUS
    <3>1. CASE job[p].src = "boot"
      BY <3>1, TargetIs, Apart
    <3>2. CASE job[p].src # "boot"
      BY <1>3, <3>2, TargetIs, Apart DEF Uninstall, Control, Claims
    <3> QED BY <3>1, <3>2
  <2>2. \A p \in Procs : job'[p] = job[p] /\ Target(p)' = Target(p) /\ Mine(p)' = Mine(p)
    BY <1>3, UninstallEffect DEF Target, Mine, Alone
  <2>3. \A p \in Procs : job[p].pc = "idle" \/ UNCHANGED <<disk.at[Target(p)], disk.old[Target(p)]>>
    BY <1>3, <2>1, <2>2, UninstallEffect
  <2>4. ASSUME NEW p \in Procs, Mine(p)'
        PROVE  Keeps(job[p], disk.at[Target(p)], disk.old[Target(p)])'
    BY <2>2, <2>3, <2>4 DEF KeepsBefore, Keeps
  <2> QED BY <2>4 DEF KeepsBefore
<1>4. CASE UNCHANGED vars
  BY <1>4 DEF vars, KeepsBefore, Mine, Alone, Keeps, Target
<1> QED BY <1>1, <1>2, <1>3, <1>4, StepKinds

LEMMA KeepsAlways == Spec => [](Control /\ DiskTyped /\ CopiesFar /\ KeepsBefore)
<1>1. Init => DiskTyped /\ CopiesFar /\ KeepsBefore
  <2> SUFFICES ASSUME Init PROVE DiskTyped /\ CopiesFar /\ KeepsBefore
    OBVIOUS
  <2>1. \A p \in Procs : job[p].pc = "idle"
    BY DEF Init, Idle
  <2> QED BY <2>1, InitRuntime DEF RuntimeGood, KeepsBefore, Keeps
<1>2. Control /\ DiskTyped /\ CopiesFar /\ KeepsBefore /\ [Next]_vars
        => (DiskTyped /\ CopiesFar /\ KeepsBefore)'
  BY CopiesStayFar, KeepsStep
<1> QED BY <1>1, <1>2, ControlInvariant, PTL DEF Spec

(* A package whose replacement fails, and says no more than that, has the   *)
(* directory that it had, with any number of processes about               *)
(* (finish_replacement_after_backup, move_or_copy.rs).                      *)
PackageRollsBack ==
  \A p \in Procs :
     job[p].src = "stage" /\ job[p].pc = "unwound" /\ job[p].before # None =>
        disk.at[job[p].pkg] = job[p].before

THEOREM PackagesRollBack == Spec => []PackageRollsBack
<1>1. KeepsBefore => PackageRollsBack
  BY DEF KeepsBefore, Mine, Keeps, PackageRollsBack, Target
<1> QED BY <1>1, KeepsAlways, PTL

(* The runtime's replacement too, where no second process replaces it.     *)
THEOREM ReplacementsRollBack == Alone => (Spec => []RollsBack)
<1> SUFFICES ASSUME Alone PROVE Spec => []RollsBack
  OBVIOUS
<1>1. KeepsBefore => RollsBack
  BY DEF KeepsBefore, Mine, Keeps, RollsBack
<1> QED BY <1>1, KeepsAlways, PTL
--------------------------------------------------------------------------------
(* What an install alone stages is its payload's tree, and no step but its  *)
(* own takes that away.                                                    *)
Made(j) == FilesOf(j.pkg, j.engine)

StagedGood(j, stage, at) ==
  /\ j.pc = "extract" => stage \subseteq Made(j)
  /\ j.src = "stage" /\ j.pc \in {"sweep", "move", "aside", "finish"} => stage = Made(j)
  /\ j.src = "stage" /\ j.pc \in {"forget", "replaced"} => at = Made(j)

Staged == \A p \in Procs : StagedGood(job[p], disk.stage, disk.at[Target(p)])

(* A package that is installed belongs to no process's job.                *)
LEMMA TreesStay ==
  ASSUME Control, PreservesTree, NEW p \in Procs, Local(p), UNCHANGED installed
  PROVE  PreservesTree'
<1> SUFFICES ASSUME NEW k \in Packages, installed[k] \in {"zip", "portable"}
             PROVE  disk'.at[k] = disk.at[k]
  BY DEF PreservesTree, FilesOf
<1>1. Target(p) # k
  BY Apart, EngineNames DEF Control, Claims, Target
<1> QED BY <1>1 DEF Local, Slots

LEMMA PlainStaged ==
  ASSUME Control, Control', DiskTyped, Staged, NEW p \in Procs, PlainEffect(p)
  PROVE  StagedGood(job[p], disk.stage, disk.at[Target(p)])'
<1>1. CASE job'[p].pc \notin {"extract", "sweep"}
  BY <1>1 DEF PlainEffect, SwapLater, StagedGood
<1>2. CASE job'[p].src = "boot" /\ job'[p].pc \in {"extract", "sweep"}
  <2>1. job'[p].pc # "extract"
    BY <1>2 DEF Control, JobGood, GoodAt, SwapPcs, FailedSwap, CopyPcs
  <2> QED BY <1>2, <2>1 DEF StagedGood
<1>3. CASE CleanStage(p)
  <2>1. PICK left \in Cleaned(disk.stage) :
          /\ disk' = [disk EXCEPT !.stage = IF left.ok THEN {} ELSE left.tree]
          /\ job' = [job EXCEPT ![p].pc = IF left.ok THEN "extract" ELSE "rollback"]
    BY <1>3 DEF CleanStage
  <2>2. CASE left.ok
    <3>1. job'[p].pc = "extract" /\ disk'.stage = {}
      BY <2>1, <2>2, GotoMoves, PutStage DEF Goto
    <3> QED BY <3>1 DEF StagedGood
  <2>3. CASE ~left.ok
    <3>1. job'[p].pc = "rollback"
      BY <2>1, <2>3, GotoMoves DEF Goto
    <3> QED BY <3>1 DEF StagedGood
  <2> QED BY <2>2, <2>3
<1>4. CASE StageFile(p)
  <2>1. PICK piece \in Made(job[p]) : disk' = [disk EXCEPT !.stage = disk.stage \union {piece}]
    BY <1>4 DEF StageFile, Made, DiskTyped, Disks
  <2>2. disk'.stage = disk.stage \union {piece} /\ job' = job /\ job[p].pc = "extract"
    BY <1>4, <2>1, PutStage DEF StageFile
  <2> QED BY <2>2 DEF Staged, StagedGood
<1>5. CASE StageDone(p)
  <2>1. /\ job'[p].pc = "sweep" /\ job'[p].pkg = job[p].pkg /\ job'[p].engine = job[p].engine
        /\ disk'.stage = disk.stage /\ job[p].pc = "extract"
        /\ FilesOf(job[p].pkg, job[p].engine) \subseteq disk.stage
    BY <1>5, GotoMoves DEF StageDone
  <2>2. disk.stage = Made(job[p])
    <3>1. disk.stage \subseteq Made(job[p]) /\ Made(job[p]) \subseteq disk.stage
      BY <2>1 DEF Staged, StagedGood, Made
    <3> QED BY <3>1
  <2>3. Made(job'[p]) = Made(job[p])
    BY <2>1 DEF Made
  <2>4. StagedGood(job'[p], disk'.stage, disk'.at[Target(p)'])
    BY <2>1, <2>2, <2>3 DEF StagedGood
  <2> QED BY <2>4
<1> QED BY <1>1, <1>2, <1>3, <1>4, <1>5 DEF PlainEffect

LEMMA SwapStaged ==
  ASSUME Control, DiskTyped, Staged, NEW p \in Procs, ReplaceStep(p)
  PROVE  StagedGood(job[p], disk.stage, disk.at[Target(p)])'
<1> DEFINE at == disk.at[Target(p)]
           old == disk.old[Target(p)]
<1>1. StagedGood(job[p], disk.stage, at)
  BY DEF Staged
<1>2. /\ job'[p].src = job[p].src /\ job'[p].pkg = job[p].pkg /\ job'[p].engine = job[p].engine
  BY SweepEffect, SwapStepEffect
<1>3. Target(p)' = Target(p) /\ Made(job'[p]) = Made(job[p])
  BY <1>2 DEF Target, Made
<1>4. job[p].pc \in CopyPcs => job[p].src = "boot"
  BY DEF Control, JobGood, GoodAt
<1>5. CASE job[p].src = "boot"
  <2>1. job'[p].pc # "extract"
    BY ReplaceGoesTo, GotoMoves, SweepEffect, SwapStepEffect
       DEF SwapEffect, Becomes, CopyPcs
  <2> QED BY <1>2, <1>5, <2>1 DEF StagedGood
<1>6. CASE job[p].src # "boot" /\ SweepBackup(p)
  <2>1. \E pc \in {"move", "unwound"} : \E rest : Becomes(p, pc, at, rest, disk.stage)
    BY <1>6, SweepEffect DEF Source
  <2>2. job[p].pc = "sweep"
    BY <1>6 DEF SweepBackup
  <2> QED BY <1>1, <1>2, <1>3, <1>6, <2>1, <2>2 DEF Becomes, StagedGood
<1>7. CASE job[p].src # "boot" /\ ~SweepBackup(p)
  <2>1. SwapEffect(p, job[p].pc, at, old, disk.stage)
    BY <1>7, SwapStepEffect DEF Source
  <2>2. job[p].src = "stage"
    BY <1>7 DEF Control, JobTyped, Jobs
  <2> HIDE DEF at, old
  <2>3. StagedGood(job'[p], disk'.stage, disk'.at[Target(p)])
    BY <1>1, <1>2, <1>3, <1>4, <2>1, <2>2
       DEF SwapEffect, Becomes, StagedGood, OtherVolume, CopyPcs
  <2> QED BY <1>3, <2>3
<1> QED BY <1>5, <1>6, <1>7

LEMMA CompletePreserves ==
  ASSUME Control, Staged, PreservesTree, NEW p \in Procs, Complete(p)
  PROVE  PreservesTree'
<1>1. UNCHANGED disk
  BY DEF Complete
<1>2. CASE UNCHANGED installed
  BY <1>1, <1>2 DEF PreservesTree, FilesOf
<1>3. CASE installed' = [installed EXCEPT ![job[p].pkg] = job[p].engine]
  <2>1. job[p].pc # "idle" /\ job[p].src = "stage"
    BY AtPackage DEF Complete, Installed, SwapPcs, FailedSwap, CopyPcs
  <2>2. job[p].engine \in Packed => disk.at[job[p].pkg] = FilesOf(job[p].pkg, job[p].engine)
    <3>1. CASE job[p].pc = "done"
      BY <3>1 DEF Control, JobGood, GoodAt, NativePcs
    <3>2. CASE job[p].pc = "replaced"
      BY <2>1, <3>2 DEF Staged, StagedGood, Made, Target
    <3> QED BY <3>1, <3>2 DEF Complete, Installed
  <2> QED BY <1>1, <1>3, <2>2 DEF PreservesTree, FilesOf, Packed, Control
<1> QED BY <1>2, <1>3 DEF Complete

LEMMA StagedStep ==
  ASSUME Alone, Control, DiskTyped, CopiesFar, Staged, PreservesTree, [Next]_vars
  PROVE  Staged' /\ PreservesTree'
<1>1. ASSUME NEW p \in Procs, StagedGood(job[p], disk.stage, disk.at[Target(p)])' PROVE Staged'
  BY <1>1 DEF Staged, Alone
<1>2. ASSUME NEW p \in Procs, PlainEffect(p) PROVE Staged' /\ PreservesTree'
  BY <1>1, <1>2, StepControl, PlainStaged, TreesStay, CompletePreserves DEF PlainEffect
<1>3. ASSUME NEW p \in Procs, ReplaceStep(p), UNCHANGED installed PROVE Staged' /\ PreservesTree'
  BY <1>1, <1>3, SwapStaged, TreesStay, SweepEffect, SwapStepEffect
<1>4. ASSUME NEW k \in Packages, Uninstall(k) PROVE Staged' /\ PreservesTree'
  <2>1. PreservesTree'
    <3> SUFFICES ASSUME NEW m \in Packages, installed'[m] \in {"zip", "portable"}
                 PROVE  disk'.at[m] = FilesOf(m, installed[m]) /\ installed'[m] = installed[m]
      BY DEF PreservesTree, FilesOf
    <3>1. installed' = [installed EXCEPT ![k] = None]
      BY <1>4 DEF Uninstall
    <3>2. m # k /\ installed'[m] = installed[m]
      BY <3>1, Apart, EngineNames DEF Control
    <3> QED BY <1>4, <3>2, UninstallEffect DEF PreservesTree, Slots
  <2>2. ASSUME NEW p \in Procs, job[p].src = "stage", job[p].pc \in {"forget", "replaced"}
        PROVE  disk'.at[Target(p)] = disk.at[Target(p)]
    <3>1. Target(p) \in Packages /\ Target(p) = job[p].pkg
      BY <2>2, TargetIs
    <3>2. Target(p) # k
      BY <1>4, <3>1, Apart DEF Uninstall, Control, Claims
    <3> QED BY <1>4, <3>1, <3>2, UninstallEffect DEF Slots
  <2>3. \A p \in Procs : StagedGood(job[p], disk.stage, disk.at[Target(p)])'
    BY <1>4, <2>2, UninstallEffect DEF Staged, StagedGood, Target, Made, FilesOf
  <2> QED BY <2>1, <2>3 DEF Staged
<1>5. CASE UNCHANGED vars
  BY <1>5 DEF vars, Staged, StagedGood, Target, PreservesTree, Made, FilesOf
<1> QED BY <1>2, <1>3, <1>4, <1>5, StepKinds

(* An installed zip or portable package has its payload's files, all of     *)
(* them and no others, whatever an interrupted install of any package left  *)
(* behind, where one process installs at a time (archive/install.rs,        *)
(* portable/install.rs).  With two, the staging directory they share does   *)
(* not belong to either, and the property fails.                           *)
THEOREM TreesArePreserved == Alone => (Spec => []PreservesTree)
<1> SUFFICES ASSUME Alone PROVE Spec => []PreservesTree
  OBVIOUS
<1>1. Init => Staged /\ PreservesTree
  <2> SUFFICES ASSUME Init PROVE Staged /\ PreservesTree
    OBVIOUS
  <2>1. \A p \in Procs : job[p].pc = "idle"
    BY DEF Init, Idle
  <2>2. \A k \in Packages : installed[k] = None
    BY DEF Init
  <2> QED BY <2>1, <2>2, Apart, EngineNames DEF Staged, StagedGood, PreservesTree
<1>2. Control /\ DiskTyped /\ CopiesFar /\ Staged /\ PreservesTree /\ [Next]_vars
        => (Staged /\ PreservesTree)'
  BY StagedStep
<1> QED BY <1>1, <1>2, KeepsAlways, PTL DEF Spec
================================================================================
