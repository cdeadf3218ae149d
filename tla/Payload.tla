-------------------------------- MODULE Payload --------------------------------
(***************************************************************************)
(* The file side of an install, which module Install takes as one step:    *)
(* an installer is selected, the 7-Zip runtime is bootstrapped if the URL  *)
(* asks for it, the payload is downloaded, verified, probed and handed to  *)
(* an engine, which stages it and swaps it in (install/mod.rs, download.rs,*)
(* sevenz.rs, archive/install.rs, portable/install.rs, flow.rs).           *)
(***************************************************************************)
EXTENDS Replacement, Selection, Routing

CONSTANTS
  Offers,      \* what a catalog may list for a package: sequences of installers
  Hosts,       \* the machines: architecture, family, elevation
  Arriving,    \* what the bytes of a download may be
  System7z     \* whether a 7z.exe is on the search path

Engines == {EngineOrder[n] : n \in DOMAIN EngineOrder}

ASSUME PayloadAssumption == /\ Arriving \subseteq Forms /\ System7z \in BOOLEAN
                            /\ None \notin Engines \union Forms \union {Unsupported}

VARIABLE installed   \* the engine that installed a package, or None

vars == <<disk, job, installed>>

Idle == [pc |-> "idle", pkg |-> None, inst |-> None, ignore |-> FALSE, form |-> None,
         good |-> TRUE, engine |-> None, src |-> "stage", before |-> None]

Init ==
    /\ \E far \in BOOLEAN, runtime \in {None, WholeTree(OldRuntime)} :
        disk = [at    |-> [s \in Slots |-> IF s = Runtime THEN runtime ELSE None],
                old   |-> [s \in Slots |-> None],
                stage |-> None, boot |-> [p \in Procs |-> None], far |-> far]
    /\ job = [p \in Procs |-> Idle]
    /\ installed = [k \in Packages |-> None]

\* The files that an engine makes of a package's payload.
FilesOf(k, engine) ==
    IF engine = "portable" THEN {Piece(k, "bin", FALSE)} ELSE WholeTree(k)

\* 7z.exe and 7z.dll exist and the VERSION file can be read and matches.
LocalRuntimeAvailable ==
    /\ disk.at[Runtime] # None
    /\ \A part \in Parts(Runtime) : \E x \in disk.at[Runtime] : x.part = part
    /\ Piece(Runtime, "VERSION", FALSE) \in disk.at[Runtime]

RuntimeBootstrapRequired(installer) ==
    installer.suffix = "sevenzip" /\ ~System7z /\ ~LocalRuntimeAvailable

--------------------------------------------------------------------------------
(* Planning and the 7-Zip runtime. *)

\* A package that is neither installed nor being installed is resolved to an
\* installer with an engine; everything else is refused without a trace.
Begin(p, k, offer, host, ignore) ==
    LET installer == SelectInstaller(offer, host)
    IN /\ job[p].pc = "idle"
       /\ installed[k] = None
       /\ \A q \in Procs : job[q].pkg # k
       /\ Selectable(offer, host)
       /\ EngineFor(installer.kind, installer.suffix) # Unsupported
       /\ job' = [job EXCEPT ![p] = [Idle EXCEPT !.pc = "prepare", !.pkg = k,
                                                 !.inst = installer, !.ignore = ignore]]
       /\ UNCHANGED <<disk, installed>>

\* What is left of the package's directory goes, or the install ends.
Prepare(p) ==
    /\ job[p].pc = "prepare"
    /\ \E left \in Cleaned(disk.at[job[p].pkg]) :
        /\ disk' = [disk EXCEPT !.at[job[p].pkg] = left.tree]
        /\ job' = [job EXCEPT ![p] = IF left.ok THEN [@ EXCEPT !.pc = "runtime"] ELSE Idle]
    /\ UNCHANGED installed

\* The user may decline the bootstrap, which ends the install.
EnsureRuntime(p) ==
    /\ job[p].pc = "runtime"
    /\ IF RuntimeBootstrapRequired(job[p].inst)
       THEN \/ job' = [job EXCEPT ![p] = Idle]
            \/ Goto(p, "fetch")
       ELSE Goto(p, "download")
    /\ UNCHANGED <<disk, installed>>

\* Both downloads are verified before anything is unpacked.
FetchRuntime(p) ==
    /\ job[p].pc = "fetch"
    /\ disk' = [disk EXCEPT !.boot[p] = {}]
    /\ Goto(p, "unpack") \/ Goto(p, "unboot")
    /\ UNCHANGED installed

\* Mutant: the exit status of the extractor is not looked at.
UnpackRuntimeUnchecked(p) ==
    /\ job[p].pc = "unpack"
    /\ \E cut \in BOOLEAN :
        disk' = [disk EXCEPT !.boot[p] = {Piece(Runtime, "bin", cut)}]
    /\ Goto(p, "stamp")
    /\ UNCHANGED installed

\* 7zr.exe extracts 7z.exe and 7z.dll (one file here), or fails with part of them
\* written.
UnpackRuntime(p) ==
    /\ job[p].pc = "unpack"
    /\ \/ /\ disk' = [disk EXCEPT !.boot[p] = {Piece(Runtime, "bin", FALSE)}]
          /\ Goto(p, "stamp")
       \/ /\ disk' = [disk EXCEPT !.boot[p] = {Piece(Runtime, "bin", TRUE)}]
          /\ Goto(p, "unboot")
    /\ UNCHANGED installed

\* VERSION is written last, and the staged runtime takes the place of the old one.
StampRuntime(p) ==
    /\ job[p].pc = "stamp"
    /\ \/ /\ disk' = [disk EXCEPT !.boot[p] = @ \union {Piece(Runtime, "VERSION", FALSE)}]
          /\ job' = [job EXCEPT ![p].pc = "sweep", ![p].src = "boot"]
       \/ Goto(p, "unboot") /\ UNCHANGED disk
    /\ UNCHANGED installed

\* Nothing finds the staging directory again, whose name is of this moment:
\* whether cleaning it up succeeds makes no difference.
RuntimeReady(p) ==
    /\ job[p].pc = "replaced"
    /\ job[p].src = "boot"
    /\ disk' = [disk EXCEPT !.boot[p] = None]
    /\ job' = [job EXCEPT ![p].pc = "download", ![p].src = "stage", ![p].before = None]
    /\ UNCHANGED installed

DropBootstrap(p) ==
    /\ \/ job[p].pc = "unboot"
       \/ job[p].src = "boot" /\ job[p].pc \in {"unwound", "torn"}
    /\ disk' = [disk EXCEPT !.boot[p] = None]
    /\ job' = [job EXCEPT ![p] = Idle]
    /\ UNCHANGED installed

--------------------------------------------------------------------------------
(* The payload. *)

\* What arrives is the payload that the catalog means (good) or is not; bytes
\* that a checked hash does not match, and every other failure, end the download.
Download(p) ==
    /\ job[p].pc = "download"
    /\ \/ \E form \in Arriving, good \in BOOLEAN :
            /\ VerifyStrategy(job[p].inst, job[p].ignore) # "refused"
            /\ good \/ VerifyStrategy(job[p].inst, job[p].ignore) = "unchecked"
            /\ job' = [job EXCEPT ![p].pc = "route", ![p].form = form, ![p].good = good]
       \/ Goto(p, "rollback")
    /\ UNCHANGED <<disk, installed>>

\* The probe corrects the installer type, and with it the engine.
Route(p) ==
    LET kind   == ProbedKind(job[p].inst.kind, job[p].form)
        engine == IF kind = Unsupported THEN kind ELSE EngineFor(kind, job[p].inst.suffix)
    IN /\ job[p].pc = "route"
       /\ job' = [job EXCEPT ![p].engine = engine,
                             ![p].pc = IF engine = Unsupported THEN "rollback"
                                       ELSE IF engine \in {"zip", "portable"} THEN "clean"
                                       ELSE "native"]
       /\ UNCHANGED <<disk, installed>>

\* A native installer puts its files where it wants to, perhaps here, or fails.
InstallNative(p) ==
    /\ job[p].pc = "native"
    /\ \E tree \in {None, FilesOf(job[p].pkg, job[p].engine)} :
        disk' = [disk EXCEPT !.at[job[p].pkg] = tree]
    /\ Goto(p, "done") \/ Goto(p, "rollback")
    /\ UNCHANGED installed

\* Mutant: the staging directory is created where it is missing, and not cleaned.
KeepStage(p) ==
    /\ job[p].pc = "clean"
    /\ disk' = [disk EXCEPT !.stage = IF @ = None THEN {} ELSE @]
    /\ job' = [job EXCEPT ![p].pc = "extract"]
    /\ UNCHANGED installed

\* The staging directory that all packages share is emptied; or that fails.
CleanStage(p) ==
    /\ job[p].pc = "clean"
    /\ \E left \in Cleaned(disk.stage) :
        /\ disk' = [disk EXCEPT !.stage = IF left.ok THEN {} ELSE left.tree]
        /\ job' = [job EXCEPT ![p].pc = IF left.ok THEN "extract" ELSE "rollback"]
    /\ UNCHANGED installed

\* The extractor can read the payload; 7z needs its runtime.
Extractable(p) ==
    LET kind == ResolveArchiveKind(job[p].form, job[p].inst.suffix)
    IN /\ Readable(kind, job[p].form)
       /\ kind = "sevenzip" =>
            System7z \/ /\ disk.at[Runtime] # None
                        /\ WholeTree(Runtime) \subseteq disk.at[Runtime]

\* A file of which only a part gets into the staging directory.
StageCut(p) ==
    /\ disk.stage # None
    /\ \E piece \in FilesOf(job[p].pkg, job[p].engine) \ disk.stage :
        disk' = [disk EXCEPT !.stage = @ \union {[piece EXCEPT !.cut = TRUE]}]

\* Files arrive in the staging directory one after the other.
StageFile(p) ==
    /\ job[p].pc = "extract"
    /\ job[p].engine = "zip" => Extractable(p)
    /\ disk.stage # None
    /\ \E piece \in FilesOf(job[p].pkg, job[p].engine) \ disk.stage :
        disk' = [disk EXCEPT !.stage = @ \union {piece}]
    /\ UNCHANGED <<job, installed>>

StageDone(p) ==
    /\ job[p].pc = "extract"
    /\ disk.stage # None
    /\ FilesOf(job[p].pkg, job[p].engine) \subseteq disk.stage
    /\ Goto(p, "sweep")
    /\ UNCHANGED <<disk, installed>>

\* Mutant: a failed extraction is tried again.
StageRetries(p) ==
    /\ job[p].pc = "extract"
    /\ \/ UNCHANGED disk
       \/ StageCut(p)
    /\ Goto(p, "clean")
    /\ UNCHANGED installed

\* A file cannot be read or written: it stays short, or it and the others are
\* cleaned up again, which the ZIP and TAR readers do.
StageFails(p) ==
    /\ job[p].pc = "extract"
    /\ \/ UNCHANGED disk
       \/ StageCut(p)
       \/ /\ disk.stage # None
          /\ disk' = [disk EXCEPT !.stage = @ \ FilesOf(job[p].pkg, job[p].engine)]
    /\ Goto(p, "rollback")
    /\ UNCHANGED installed

\* The engine has reported success.
Installed(p) ==
    \/ job[p].pc = "done"
    \/ job[p].pc = "replaced" /\ job[p].src = "stage"

\* The install is recorded, unless the user has cancelled it.
Complete(p) ==
    /\ Installed(p)
    /\ \/ /\ installed' = [installed EXCEPT ![job[p].pkg] = job[p].engine]
          /\ job' = [job EXCEPT ![p] = Idle]
       \/ Goto(p, "rollback") /\ UNCHANGED installed
    /\ UNCHANGED disk

--------------------------------------------------------------------------------
(* Rollback: staging, backup and directory, each as far as it goes. *)

RollbackStage(p) ==
    /\ \/ job[p].pc = "rollback"
       \/ job[p].src = "stage" /\ job[p].pc \in {"unwound", "torn"}
    /\ \E left \in Cleaned(disk.stage) : disk' = [disk EXCEPT !.stage = left.tree]
    /\ job' = [job EXCEPT ![p].pc = "rollbackold", ![p].before = None]
    /\ UNCHANGED installed

RollbackBackup(p) ==
    /\ job[p].pc = "rollbackold"
    /\ \E left \in Cleaned(disk.old[job[p].pkg]) :
        disk' = [disk EXCEPT !.old[job[p].pkg] = left.tree]
    /\ Goto(p, "rollbackdir")
    /\ UNCHANGED installed

RollbackDir(p) ==
    /\ job[p].pc = "rollbackdir"
    /\ \E left \in Cleaned(disk.at[job[p].pkg]) :
        disk' = [disk EXCEPT !.at[job[p].pkg] = left.tree]
    /\ job' = [job EXCEPT ![p] = Idle]
    /\ UNCHANGED installed

--------------------------------------------------------------------------------
\* Removing a zip or portable package takes its directory with it (module Remove).
Uninstall(k) ==
    /\ installed[k] # None
    /\ disk' = [disk EXCEPT !.at[k] = None]
    /\ installed' = [installed EXCEPT ![k] = None]
    /\ UNCHANGED job

\* A process is killed; a file that it was writing stays short.
Crash(p) ==
    /\ job[p].pc # "idle"
    /\ job' = [job EXCEPT ![p] = Idle]
    /\ \/ disk' = [disk EXCEPT !.boot[p] = None]
       \/ job[p].pc = "extract" /\ StageCut(p)
       \/ /\ job[p].pc \in {"copy", "copyfresh"}
          /\ \E piece \in Source(p) \ disk.at[Target(p)] :
                disk' = [disk EXCEPT !.at[Target(p)] = @ \union {[piece EXCEPT !.cut = TRUE]},
                                     !.boot[p] = None]
    /\ UNCHANGED installed

Step(p) ==
    \/ Prepare(p) \/ EnsureRuntime(p) \/ FetchRuntime(p) \/ UnpackRuntime(p)
    \/ StampRuntime(p) \/ RuntimeReady(p) \/ DropBootstrap(p)
    \/ Download(p) \/ Route(p) \/ InstallNative(p)
    \/ CleanStage(p) \/ StageFile(p) \/ StageDone(p) \/ StageFails(p)
    \/ ReplaceStep(p) /\ UNCHANGED installed
    \/ Complete(p)
    \/ RollbackStage(p) \/ RollbackBackup(p) \/ RollbackDir(p)

Next ==
    \/ \E p \in Procs :
        \/ \E k \in Packages, offer \in Offers, host \in Hosts, ignore \in BOOLEAN :
              Begin(p, k, offer, host, ignore)
        \/ Step(p)
        \/ Crash(p)
    \/ \E k \in Packages : Uninstall(k)

Spec == Init /\ [][Next]_vars
FairSpec == Spec /\ \A p \in Procs : WF_vars(Step(p))

--------------------------------------------------------------------------------
(* Properties. *)

\* A zip or portable package that was installed has the files of its own payload
\* in its directory, all of them and no others, whatever earlier installs left
\* in the staging directory ("This preserves the packaged directory tree as-is",
\* archive/install.rs).
PreservesTree ==
    \A k \in Packages :
        installed[k] \in {"zip", "portable"} => disk.at[k] = FilesOf(k, installed[k])

\* A replacement that fails without reporting a failed rollback leaves the
\* directory that was there as it was (finish_replacement_after_backup).
RollsBack ==
    \A p \in Procs :
        job[p].pc = "unwound" /\ job[p].before # None =>
            disk.at[Target(p)] = job[p].before

\* A runtime that is taken for available is complete, wherever its bootstrap
\* was interrupted, if it was not copied from another volume
\* (local_runtime_available against bootstrap_local_runtime).
RuntimeIsWhole ==
    LocalRuntimeAvailable => disk.far \/ disk.at[Runtime] = WholeTree(Runtime)

\* Bytes other than the catalog means are installed only where it has no hash
\* for them or the user has tolerated its MD5 (verify_strategy).
VerifiedOrTolerated ==
    \A p \in Procs :
        Installed(p) /\ ~job[p].good =>
            \/ job[p].inst.hash = NoHash
            \/ job[p].inst.hash = "md5" /\ job[p].ignore

\* An archive is never installed as a single file, whatever its catalog entry
\* and its URL call it ("archive payloads do not fall back to the raw-copy
\* engine", registry.rs).
ArchivesAreUnpacked ==
    \A p \in Procs :
        Installed(p) /\ job[p].form \in Archives => job[p].engine # "portable"

\* Every install comes to an end, however its steps fail.
EveryInstallEnds == \A p \in Procs : job[p].pc # "idle" ~> job[p].pc = "idle"
================================================================================
