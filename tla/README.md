# A formal model of WinBrew

WinBrew is a catalog-first package manager for Windows. This directory holds
TLA+ models of the whole of it: how install, remove, repair and the cleanup at
startup change the package index, the recovery journals, the package directories
and the shims, when any step may fail, when the process may be killed, and when
several processes run at once; how one payload gets from a URL into its directory;
what repair makes of packages that lose files; how a catalog is crawled, parsed
and published night after night; how it comes to a client's disk; and what becomes of
all that when configuration and environment change between commands. TLC checks
the models on small instances; TLAPS proves, for every value of the constants, every
safety property that the passing runs check: of the multi-process commit, the files of an
install, the catalog's tables and patches, its distribution, repair, the rules and the
premises, and, for one process at a time, that the index and the journals are a
write-ahead log.

Paths below are relative to the repository. Checking needs only the TLA+ tools,
the community modules and TLAPS:

    tlc -config Failures.cfg MCCli      # and Orderly, Racing, Contending, LostFiles
    tlc -config Payload.cfg MCPayload
    tlc -config Drift.cfg MCDrift
    tlc -config Nightly.cfg MCNightly
    tlc -config Releases.cfg Distribution     # and RefusedPatch
    tlc -config Rules.cfg MCRules
    tlc -config LiveContent.cfg MCPremises
    tlapm CliProofs.tla                 # and the other *Proofs, and NumberTheorems

## 1. The system

| Component | Code | State | Operations |
|---|---|---|---|
| Recovery journal | `crates/database/src/journal` | `data/pkgdb/<name>-<version>/journal.jsonl` | open for a package, append, flush, read and judge, read for replay, delete |
| Index and command registry | `crates/database/src/{installed_packages,command_registry,connection}.rs` | SQLite tables `installed_packages`, `command_registry`, WAL mode, busy timeout 5 s | insert, update status, update identity, commit with journal, replay, delete, list |
| Startup cleanup | `crates/cli/src/services/bootstrap/cleanup.rs` | none of its own | fail Installing rows, remove their directories and temp workspaces |
| Install | `crates/app/src/operations/install` | memory of the process | resolve, inspect, prepare, mark, download, probe, run the engine, roll back, commit, publish shims |
| Download, probe, verification | `install/download.rs`, `crates/core/src/{network,fs}` | temp workspace | transfer, hash, probe the payload's kind |
| Engines | `crates/engines` | package directory, `packages/staging` | archive, portable, msi, msix, native, font: install and remove |
| File primitives | `crates/core/src/fs` | | cleanup with deferred delete, replace a directory, finalize a temp file |
| Remove | `crates/app/src/operations/remove` | memory of the process | plan, stage to trash, engine uninstall, delete row, shims, journal, trash |
| Doctor | `crates/app/src/operations/doctor` | none | scan packages, journals, orphan directories, MSI inventory |
| Repair | `crates/cli/src/commands/repair.rs`, `crates/app/src/operations/repair` | the report, taken once | replay journals, replay conflicting ones, remove orphans, restore files, reinstall |
| Shims | `crates/app/src/operations/shims` | one file per command | publish, remove |
| Catalog refresh | `crates/app/src/operations/update` | `catalog.db`, `metadata.json`, fixed temp names | choose, download or patch, verify, swap |
| Catalog search, installer selection | `crates/app/src/catalog` | read only | find a package by name, pick the installer for a host |
| Command resolution | `crates/models/src/command_resolution.rs` | none | which commands a version exposes, its fingerprint, whether that is stale |
| 7-Zip bootstrap | `install/sevenz.rs` | one directory | fetch, unpack, stamp, replace |
| MSI inventory | `crates/windows/src/deployment/msi`, `crates/database/src/msi_inventory.rs` | tables | scan a package's database, record, look up |
| Configuration, layout | `crates/database/src/config`, `crates/core/src/paths.rs` | one file per root | read, list, get, set, unset; overrides from the environment; resolve the paths |
| Windows bindings | `crates/windows` | Windows' own: the uninstall registry, MSIX packages, user fonts | look up, register, remove |
| User interface, read-only commands, models | `crates/{cli,ui,models}` | none | |
| Publisher | `infra/publisher`, `.github/workflows/catalog.yml` | object store: snapshot, `metadata.json`, patches; D1 table `update_plans` | compare, make and upload a patch, upload snapshot and metadata, replace the plans |
| Update worker | `infra/api/update` | none (reads `update_plans`) | select the plan for a client's hash, or the latest full one |
| Crawler | `infra/crawler` | stdout and the winget file of a run | sync buckets, read the winget index, write lines, retry |
| Parser | `infra/parser` | the catalog database | open or reuse, take lines, upsert, prune, commit |

How they interact. A `winbrew` process is single-threaded as far as this state
goes: it runs the startup cleanup, then one command, then exits. There is no
daemon and no lock around a command. Everything shared between processes is in
files, and the one thing that orders two processes is SQLite's write lock. The
commit of an install is a transaction whose first statement (an UPDATE) takes
that lock and which writes and syncs the journal *before* `tx.commit`; so the
write lock is held across file operations, and a crash between the two leaves a
committed journal whose package is not installed. Doctor and repair exist for
that case. Startup, install, remove and repair all identify a package by its
name, never by who is working on it.

The catalog comes to a client along another path, with no lock at all. A
workflow run builds it, uploads the snapshot, then its metadata, and finally
replaces the table of plans; a client asks the worker for a plan by the hash in
its `metadata.json`, fetches metadata and snapshot (or patches a copy), verifies,
and renames the two files into place one after the other. Runs exclude one
another (the workflow's concurrency group); run and client share only the store
and the table, and either may stop between any two steps.

Before that, crawler and parser are two programs joined by a pipe, of which the
first is two goroutines; the parser works on the catalog of the night before, which
a cache brings back or not. All of its work is one transaction, so it leaves either
a new catalog or the old one, but it cannot tell the end of the stream from the
death of the crawler: the shell's `pipefail` does.

What is hard here, and what makes each part correct:

- **Journal.** It is append-only, may end in part of a line, and may be resumed.
  No two writers may interleave, nothing may follow a Commit, and a package
  that is installed must keep a journal.
- **Index.** Status is written by name, with no check of the earlier status; an
  installed package must not stop being installed except by a remove. A command
  has one owner; a conflict is looked up long before it matters.
- **Install.** Every exit must leave the store as it was or in a state the next
  command repairs; rollback is two best-effort steps.
- **Remove.** Files first, then the row, then the journal, with a rename back
  when the row cannot be deleted.
- **Startup.** It must fail dead installs only.
- **Repair.** Each group acts on a report that the group before may have made
  stale; its replays must restore a package that works.
- **Payload.** All packages share `packages/staging`, and a payload need not be what
  its entry or its URL says; whatever fails, a directory must hold one package's
  files, all of them, or what it held before.
- **Drift.** Repair must heal what the report names, touch nothing else, put back
  files of the installed version only, and ask before it replaces anything.
- **Crawler and parser.** A catalog is published only if the crawl behind it was
  complete; rowids and installer ids carry over from night to night, for patches
  are written by them.
- **Publisher.** It writes to two stores in several steps and may die between
  any of them; nothing may be announced before what it leads to is there.
- **Refresh.** The objects it fetches may be replaced between its requests, and
  a kill may leave catalog and metadata of different releases; what it swaps in
  must be one release, and a client must reach the newest one in the end.
- **Configuration and layout.** Databases and journals follow `paths.data`, shims the
  root, package directories `paths.packages` or the engine; a removal finds its way
  back from the directory alone. What an install left must be found again although the
  values have changed since.
- **Everything together.** Any sequence of commands must leave index, registry,
  files, journals and shims in agreement; every command must end.

`PROJECT.json` lists the hazards one by one, each at its line.

## 2. The modules

    Journal ── Store ─┬─ Startup ─┐
                      ├─ Install ─┤
                      ├─ Remove ──┼─ Cli ── MCCli        (for TLC)
                      └─ Repair ──┘    ├─ CliProofs
                                       │      └─ SoloProofs
                         WriteAhead ───┘  (abstract, by INSTANCE)

    Publisher ── Refresh ── Distribution          (for TLC)
                                └─ DistributionProofs

    CatalogTables ─┬─ Crawler ── Parser ─┬─ Nightly ─┬─ MCNightly    (for TLC)
                   └─ CatalogPatch ──────┘           └─ NightlyProofs

    Replacement ─┐
    Selection ───┼─ Payload ─┬─ MCPayload            Drift ─┬─ MCDrift
    Routing ─────┘           └─ PayloadProofs               └─ DriftProofs

    Settings ── Layout ── Native ── Premises ─┬─ MCPremises ── MCRules
    Selection, Commands, MsiPaths, ───────────┴─ Rules ─┴─ RulesProofs
    Retry, Manifests

NumberTheorems (induction over numbers) is under NightlyProofs and RulesProofs.

**Journal** is the file of one package version as its readers see it: whether it
exists, for each line whether it parses and as which entry, whether the last
line ends in a newline, and whether the whole is UTF-8, as a file is not whose last write
was cut inside a character (`Garbled`). `Committed`, `Incomplete`, `TrailingEntries` and
`Malformed` are the verdicts of `JournalReader::read_committed`; `Replayable`
and `FirstMeta` are what `read_committed_package` accepts and takes. `Openable`
and `Opened` are `JournalWriter::open_at`, which also opens a journal that it could not
read: one that is not UTF-8 (`Openable` says so), and any at all after an I/O error
(`OpenJournal` in Install). `Extend` is an append: bytes written
after an unterminated line join that line and spoil it. `TornWrites` are the
files an interrupted append may leave.

**Store** declares the shared state and the memory of a process.

| Variable | Code |
|---|---|
| `rows` | `installed_packages`, by name: status, version, engine |
| `owner` | `command_registry`: the UNIQUE command name and its package |
| `writer` | the process whose open transaction holds SQLite's write lock |
| `dirs` | `packages/<name>` and `packages/<name>.trash`: a version's files, part of them, or nothing |
| `journals` | one journal for each package and version |
| `shims` | the package that a command's shim runs |
| `proc` | for each process: where it is (`pc`) and the locals it still uses |

A statement outside a transaction is one step; it needs the write lock to be
free. If another process holds the lock it may wait or time out (`WriteFails`).
`Cleanup` and `CleanupFails` are `cleanup_path`.

**Startup** is `cleanup_stale_installations`: `Launch` lists the Installing
rows, `MarkStaleFailed` and `RemoveStaleDir` deal with each.

**Install** has one action for each step of `install::run`: `ResolveAndInspect`
(resolve, inspect and the early refusals), `DropFailedRow`, `ClearInstallDir`,
`Abandon`, `MarkInstalling`, `BuildClientFails`, `ProbeAndReclassify`,
`EngineInstalls`, `InstallFails`, `RollbackRow`, `RollbackDir`,
then the commit: `BeginCommit` (UPDATE and the registry's conflict check),
`OpenJournal`, which goes on to `journal` or, where it could not read the file, to `blind`,
`WriteJournal`, `CommitTx`, each of which may instead leave
through `AbortTx`; `MarkCommitFailed`; and the shims, `ReadCommands` and
`PublishShims`. Other processes see the transaction's rows only after `CommitTx`.

**Remove** is `plan.rs` and `execution.rs`: `PlanRemoval`, `DeclineRemoval`,
`StartRemoval`, then `StageForRemoval` for zip and portable packages or
`Uninstall` for the native engines, `DeleteRemovedRow` or
`DeleteRemovedRowFails` (the rename back), `RemoveShims`, `RemoveJournal`,
`RemoveTrash`.

**Repair** takes the doctor's findings once (`Inspect`, with the journals that it could
read, `JournalsRead`), then prepares and
replays the orphan journals as a batch and the conflicting ones one by one
(`Prepare`, `SkipConflict`, `Replay`, `ReplayShims`, `NextGroup`, which passes over
a group with nothing to do), then removes
the orphan directories of that same report (`ConfirmOrphans`, `RemoveOrphan`).

**Cli** composes them: any process may take a `Step` or, where crashes are
allowed, `Crash`, which rolls its transaction back and may leave a journal or a
directory half written. It states the properties.

**WriteAhead** is the promise without the mechanism: a version is put on record
before it is installed, stays on record while it is installed, and only what is
on record is installed. `Cli` implements it under the mapping
`installed` = the version of an `ok` row, `evidence` = the journals that end in
a Commit or that repair replays (`Evidence`).

**Publisher** is a workflow run: `Build` (crawler and parser), `Compare`
(`publish` reads the remote metadata), `UploadPatch` or `SkipPatch`,
`UploadSnapshot` and `UploadMetadata` (`uploadObjects`), and `PublishPlans` (the
last steps of the workflow execute the SQL that `buildUpdatePlanRows` wrote);
`RunFails` ends a run anywhere. `Selection` is the update worker's answer.

| Variable | Code |
|---|---|
| `bucket` | the object store: the snapshot's bytes, the hash in `metadata.json`, the patches (the hashes in their key, and the snapshot they were made from) |
| `plans` | the rows of `update_plans` |
| `run` | the run in progress: where it is, the catalog it built, the remote hash it read, its patch |
| `built` | the newest catalog built |
| `files` | a client's `catalog.db`, `metadata.json` and the two `.download` files |
| `refresh` | the refresh in progress: where it is, the hash it started from, target and patch |
| `failures` | how many failures there were, for the bound |

**Refresh** is `refresh_catalog_with_api_url` step by step: `StartRefresh`,
`Select`, `ApplyPatch` and its `Fallback`, `FetchMetadata`, `FetchSnapshot`,
`SwapCatalog`, `SwapMetadata`. `RefreshFails` returns an error anywhere,
`PatchFails` sends a patch to the fallback, `RefreshDies` is a kill that leaves
the temporary files behind, the one being written in part.

**Distribution** composes the two and states the properties.

**Replacement** has directory trees as sets of pieces, each whole or cut short,
and `replace_directory` one system call at a time (`SweepBackup`, `MoveIn`,
`MoveAside`, `Finish`, `CopyPiece`, `CopyDone`, `RemoveCopy`, `Restore`,
`ForgetBackup`), any of which may fail. `Cleaned` is what `cleanup_path` may leave.

**Selection** is `select_installer`, **Routing** what decides which engine gets a
payload: `EngineFor` by catalog type and URL, `ProbedKind` by the bytes,
`ResolveArchiveKind` for the archive engine, `VerifyStrategy` for the hash.

**Payload** is the file side of an install: `Begin` (selection), `Prepare`, the
runtime bootstrap (`EnsureRuntime`, `FetchRuntime`, `UnpackRuntime`,
`StampRuntime`, `RuntimeReady`, `DropBootstrap`), `Download`, `Route`, then
`InstallNative` or the staging (`CleanStage`, `StageFile`, `StageDone`,
`StageFails`) and the steps of Replacement, `Complete`, and the rollback in its
three steps. It details what Install takes in one step, `EngineInstalls`; the two
are separate models, and agree in that a finished staged install leaves exactly
its own files and a failed one reports it.

| Variable | Code |
|---|---|
| `disk` | `packages/<name>`, its `.old`, `packages/staging`, the 7-Zip runtime and each process's bootstrap directory, which may be on another volume |
| `job` | the install that each process is at: step, installer, payload, engine |
| `installed` | the engine that a package was installed with, or none |

**Drift** is what becomes of an installed package whose files go missing: the
doctor's diagnoses of directories and MSI inventories (`DirectoryDrifts`,
`LostFiles`, `OrphanDirs`), the plan made of them (`StartRepair`), the prompts
(`Ask`, with -y, `core.default_yes` and --force in `Approved`), orphan cleanup,
file restore (`ResolveRestore`, `AskFallback`, `StagePackage`, `RestoreFile`,
`RestoreFails`, `EndRestore`) and reinstall (`FindReplacement`, `Uninstall`,
`Reinstall`). Files are lost and the catalog moves between and during repairs. A row and
its directory go by the package's name; what the catalog has are entries, of which several
may have one name. `Resolutions` is the search by name: any of the entries of that very
name, since which of them ranks first is up to the full-text index, and only where there
is none an entry whose name resembles it.

| Variable | Code |
|---|---|
| `catalog` | the version that `catalog_packages` offers of an entry |
| `row` | `installed_packages`: version, engine, and whether `install_dir` is the one under `packages` |
| `tree` | the files of a package under `packages` and elsewhere, by entry and version |
| `snapshot` | the packages with rows in the MSI inventory tables |
| `job` | the repair: its plan, the package it is at, the entry it found for it, what it was told |

**CatalogTables** is the catalog database as a value: packages with their rowid,
content and stamp, installers with their id and canonical key, the lists of each installer
(platforms, commands, protocols, file extensions, capabilities: `lists`), the full-text
index, the AUTOINCREMENT sequence; and the parser's statements with the triggers
and cascades they set off (`UpsertPackage`, `SyncInstallers`, `Prune`).
**CatalogPatch** is what the publisher writes for two catalogs, `PatchBetween`,
whether it gives up, `Drifted`, and what those statements do, `ApplyPatch`: an upsert
without the lists leaves none (`ReplacePackage`, `ReplaceInstallers`), an update leaves the
old ones (`UpdateInstallers`). `Published` is what the publisher selects and compares of a row.

**Crawler** is one run of two goroutines of an errgroup: Scoop (`SyncBucket`,
`StartWriting`, `WriteScoopLine`, `BucketBreaks`, `FinishScoop`) and winget
(`StageWinget`, `WriteWingetLine`, `FinishWinget`), with their failures and
cancellation. **Parser** is one run as one transaction: `OpenCatalog`,
`TakeScoopLine`, `EndOfStream`, `TakeWingetLine`, `Finish`, `ParserFails`.
**Nightly** joins them: `StartJob` restores the cached catalog or not, `PipeLine`
and `PipeBreaks` are the pipe, `EndBuild` the shell's verdict and the checks after
it, `PublishRelease`, `CompleteJob` and `JobFails` the rest of the job.

| Variable | Code |
|---|---|
| `upstream` | what each package's manifest holds during a run |
| `crawl` | the goroutines, synced and broken buckets, lines on stdout and in the winget file |
| `parse` | the parser's step, its transaction's database, the ids read and seen |
| `catalog` | the committed database at the output path |
| `flow` | the job's step, the catalog it started from, the cached and the released one |
| `day` | how many runs there were, which is also the rows' stamp |

**Commands** is `resolve_command_exposure` with the fingerprint and replay's
verdict (`CommandStatus`). **MsiPaths** is the walk over the Directory table,
from whatever row comes next in the hash map. **Retry** is `DoConfig` with its
clock, deadline and cancellation, durations wrapping at `Width` bits.
**Manifests** is what the crawler takes from winget's index and a manifest
(`CompareWingetVersions`, `LatestRow`, `ResolvedInstallers`, `Skipped`) and what
the parser makes of it (`ParseLossy`, `CompareSemver`, `MergeInstaller`). The crawler
compares in lower case (`LowerParts`), the parser as written; every token keeps its
separator, and `-` within an identifier joins (`Identifiers`).

**Settings** is the configuration: its keys (`KEYS`), what a value may be
(`ValidateConfigValue`), the file (`Missing`, `Malformed` or `Saved`, `Load` filling in
defaults), the variables that count (`CaptureEnv`), whose file it is (`StorageRoot`),
and the commands (`EffectiveValue`, `SetValue`, `UnsetValue`). **Layout** is where a root's
things are (`ResolvedPaths`, `PackageInstallDir` with `SafePathComponent`) and the way
back (`InstallRootFromPackageDir`). **Native** is the part of the engines and bindings that
is WinBrew's: an executable's switches, the registry entry taken for its own
(`CaptureNativeExeMetadata`) and the program run later (`SplitUninstallCommand`), where a
Windows Installer product is taken to be (`ResolveInstallDir`), MSIX packages found by
name, and fonts (`InstallUserFont`).

**Premises** composes the three: whole commands, one step each, with any change of
configuration or environment between them (`ChangeEnvironment`, `ConfigSet`,
`InstallPackage`, `RemovePackage`, `ReplayJournals`, `CleanOrphans`).

| Variable | Code |
|---|---|
| `offered` | the packages of the catalog: name, kind, font file, MSIX identity |
| `settings` | each root's `data/winbrew.toml` |
| `environment` | the `WINBREW_*` variables of the next command |
| `index` | the rows of every database: package, directory, status, full name |
| `disk` | directories, journals (below which `pkgdb`, for which directory), shims (in which directory) |
| `windows` | font files and their registry values, registered MSIX packages |

**Rules** asks Selection, Commands, MsiPaths, Retry, Manifests, Settings and Native one
question per behaviour and states what the answer must be in terms that do not
repeat the algorithm; a ninth question lets Premises run.

### Abstractions

- A catalog is its hash, and hashes are numbered in the order of the builds.
  The parser stamps the rows that it writes (`updated_at`, `sqlite.rs:23`), so
  no catalog older than the released one is ever built again; one that was built
  and not released, or the released one, may be offered again, as when the
  publisher is run anew on the same files. A hash stands for its bytes: the
  model has no collisions.
- A patch is what its statements do (`PatchActions`) and the catalogs it was
  made from and for. Applied to its own base it yields the target's rows, in
  bytes that may or may not be the target's; otherwise bytes of no catalog.
- Requests see the store as it is: caches in the worker and the CDN are left out.
  The rows of `update_plans` change in one step (how D1 executes a file is
  outside the code). Rows are never stale (`is_stale` is always written as 0),
  and the release lineage, which nothing reads, is left out.
- One refresh at a time: `update/mod.rs` leaves locking to a higher layer.

- Names, versions, commands and file contents are model values. A directory is
  identified with the version whose files it holds, or `Partial`.
- Inspecting the row, the directory and the owners of an install is one step, and
  so is the doctor's scan: nothing is decided between their reads.
- A download, an engine, an uninstaller, a probe and the answer to a prompt may
  fail or say no at any time, in every run. The constant `Faults` adds classes of
  failure: `crash`, `db` (a write to SQLite), `read` (a read), `fs` (a directory
  or a shim), `journal` (opening, appending, syncing), `journal_read` (reading a journal).
- Of a journal that is not UTF-8 no reader sees a line, so only the last one is kept,
  which is what the next append may join. A write that is cut inside a character is
  one of the Metadata line: the Commit line has none of more than one byte.
- The advisory lock of the journal writer is left out: a writer always holds
  SQLite's write lock, so `try_lock` finds it free.
- The check for dependents in remove never refuses: every row is written with an
  empty list of dependencies.
- The journals of a batch are replayed in any order (the code's order is that of
  a directory listing).
- Payload: a file is there, there in part, or not; a tree has two files. Bytes
  that do not match a checked hash end the download. A process that is killed
  loses its bootstrap directory, whose name nothing finds again.
- Drift: removing and installing the package that a reinstall is for are one step
  each, with their failures; a copied file has its content, or is cut short. An MSI
  inventory names the files of its package. Hashes are left out: inventories that
  the program makes have none. Names differ by more than the case of their letters: two
  that do not are two rows for the index and one directory for Windows.
- Nightly: a manifest is one of a few contents, or one that the crawler does not
  list (`Unlisted`), or that the parser refuses (`Refused`), and does not change
  while a run reads it. A content determines its installers' canonical keys and what they
  list; `Trimmed` is the content without what is listed. The raw record goes with
  its package. A new
  rowid is SQLite's, the largest in use plus one; installer ids never come back.
  Retries are inside the steps that they repeat.
- Premises: a path is a sequence of components, a component a sequence of tokens; texts
  that are compared without regard to case are equal. A command finds its directories
  as it left them. Each command is one step; Cli has its interleavings and failures.
- Rules: names, paths, versions and manifests have the structure that the code
  branches on and no text. The numbers of a version have up to two digits and no zeros in
  front, one separator stands between two tokens, and a word is its place in the
  order of texts, with another word for its lower case (`ToLower`). The words of a command
  line are single arguments, but for the program that a quote holds together.

## 3. What is checked

`MCCli` gives the constants of `Cli` their values. `MaxLines` = 2 bounds the lines of a
journal after a torn write, which is what one Metadata and one Commit can
leave, and of a journal that is opened unread; a whole write adds two, so journals of four
lines with a Commit in the middle come about. Processes and packages are permuted (symmetry) in `Contending` only, which
has no liveness property.

| Run | Instance | Faults | Checks |
|---|---|---|---|
| `Failures` | 1 process, 1 package, 2 versions, 1 command | all six | `TypeOK`, `JournalTrail`, `WriteAheadLog`, `InstalledUntilRemoved` |
| `Orderly` | 1 process, 2 packages, 2 versions, 2 commands | none | `Settled`, `NoStaleRows` |
| `Racing` | 2 processes, 1 package, 1 version, no commands, fair | crash, journal, journal_read | `CommitIsExclusive`, `CommittedJournalIsFinal`, `EveryCommandEnds` |
| `Contending` | 2 processes, 2 native packages, 1 version, 1 command | none | `OwnersWereInstalled`, `CommandsAreNotStolen` |
| `Releases` | `MaxBuild` = 3 catalogs, one client, fair | `MaxFailures` = 2, of runs, refreshes or patches | `AnnouncedIsAvailable`, `SwapsOneRelease`, `CurrentIsTrue`, `ClientsCatchUp` |
| `Nightly` | 3 packages of 2 sources, 3 contents, one of them another with other lists, 4 feeds, `MaxRuns` = 3, `MaxRowid` = 6, fair | every step of crawler, parser and job; evictions, reruns on one date | `WholeCatalog`, `TablesAgree`, `DeltasFollow`, `PatchGivesTheRelease`, `BuildEnds` |
| `Payload` | 1 process, 1 package, 3 offers, 5 kinds of bytes, runtime absent or old, same or another volume, fair | every system call, kills, wrong bytes | `PreservesTree`, `RollsBack`, `RuntimeIsWhole`, `VerifiedOrTolerated`, `ArchivesAreUnpacked`, `EveryInstallEnds` |
| `Drift` | 2 names, 3 entries (two of one name, an MSI and an archive or an MSI elsewhere; one that may be withdrawn), lookalikes either way, 2 versions, 2 files, `MaxChanges` = 2, fair | every step of a repair, kills | `FilesAreTheirRows`, `RepairHeals`, `RepairsOnlyReported`, `HighRiskNeedsConsent`, `EveryRepairEnds` |
| `Rules` (nine questions) | up to 3 installers; 2 fields of up to 2 commands and executables; up to 3 directories; 8-bit durations; 3 index rows; up to 3 manifest entries; 5 configuration files, 4 sets of variables; registries of up to 2 other entries; catalogs of up to 2 packages on 2 roots, `MaxRows` = 2 | cancellation, failing attempts; engines that fail | `SelectionIsBest`, `ExposureIsSafe`, `DirectoriesResolve`, `LatestIsWritten`, `InstallersAreMerged`, `RetryBacksOff`, `OneSettingAtATime`, `OwnCommandRuns`, `NothingIsLeftBehind` |

Why these bounds are enough for the cases that matter. One package with two
versions has upgrades, leftovers of an earlier version's failed install and
journals of both versions, the cases that `Failures` is about; two packages add
only the competition for commands, which `Orderly` (sequential) and `Contending`
(concurrent) have. In `Orderly` the second version exposes one command more, so
an update widens a package's commands, and one package's payload may turn out to
be a native installer, so that both removal strategies and the reclassification
run. `Racing` has a staged package that exposes no commands (what
processes do to each other's commands is what `Contending` is for), `Contending` native ones. Two processes suffice for every race between commands the hazards name,
because each is between one step of one process and one step of another; the
theorems of section 5 remove the bound for the properties they state.
In `Releases` three catalogs give a client an old, a current and a coming
release, which is what a refresh can be caught between, and a run that dies
between snapshot and metadata a third catalog to make its patch for; two failures
let a run and a refresh die, or two runs in a row. One client is enough: clients
share nothing. The theorems remove both bounds for the safety properties.
`Failures` and `Racing` let any read of a journal fail, and a cut write leave a file that
is not UTF-8. In `Nightly` three runs are what it takes to reuse a freed rowid (add, drop, add)
and to build on another catalog than the released one (publish, fail before saving,
build on the older cache), one package of the three comes from the other source, and
the feeds include one after which no package is left. `Payload` installs one
package after the other for as long as it likes, so a second install meets
whatever the first left; its offers have every verification and a URL of each
relevant kind. In `Drift` two changes let files go missing and the catalog move
on before or during the repair, or two packages need one at once; rows start at any
version up to the catalog's, of any entry of their name, so that files of the two entries
can come to stand side by side; and a repair looks
at nothing but what is missing and what the catalog has when it gets there; the
theorems remove the bound for the safety properties. `Rules` uses eight bits and a cap
of 30 so that nine attempts overflow a duration as 63 do in the code. Its premises have two roots (the default and
one from the environment) and a `paths.data` that may lie outside either, which is every
way two commands can disagree about where a journal, a row or a shim is; its catalogs
have a package of each engine whose directory or name is not simply the root's and the
catalog's, two of them together where they share something (a font's registry value); and
two rows and journals let one package be installed below both roots, or be failed
in one and committed in the other.

The type invariants of `Distribution` and `Drift` are proved (section 5) and not
checked again.

What the runs show:

- `JournalTrail`, `WriteAheadLog`: with one command at a time, no crash, torn
  write or failed statement leaves a package installed without a journal that
  ends in a Commit or that repair replays up to its first one, and every step of the program is a step of the write-ahead
  log. "Ends in a Commit" is deliberately weaker than "reads as committed": see
  `TrailIsReadable` in section 4.
- `InstalledUntilRemoved`: no rollback, failed commit or startup cleanup ever
  fails the row of an installed package, though each writes by name.
- `Settled`: with no faults but failing downloads, engines and declined prompts,
  between commands the index, files, journal, registry and shims of every package
  agree, an installed package has one journal, and one that is not installed has
  left nothing behind.
- `NoStaleRows`: no command meets an Installing row but its own; what
  `build_client`'s error leaves behind, startup clears.
- `CommitIsExclusive`, `CommittedJournalIsFinal`: `open_at`
  checks the journal before it opens it and writes later; what keeps a second
  writer out in between is that the transaction has already taken SQLite's lock.
  Excepted is the write of a commit that opened the journal without having been able to
  read it: see "Unread" in section 4.
- `CommandsAreNotStolen`, `OwnersWereInstalled`: the check made inside the
  transaction, not the one before the download, is what keeps a command with its
  owner; and the registry never names a package that was not installed.
- `EveryCommandEnds`: no deadlock and no livelock, and nobody keeps the write lock:
  every process is again and again idle without it. The transaction's holder never waits
  for another process, and repair goes through a finite report.

- `AnnouncedIsAvailable`: snapshot, metadata and plans go out in the order in
  which they depend on each other, and no run that dies, nor the one after it,
  breaks that order. (A dying run may strand a release: it is in the store and
  no plan leads to it until the next release.)
- `SwapsOneRelease`: the check of the snapshot against the downloaded metadata,
  and of that against the plan's target, is what keeps a client from mixing two
  releases that are published between its requests.
- `CurrentIsTrue`: because the catalog is renamed before the metadata, a refresh
  killed between the two never leaves a client that the worker calls current
  with another catalog.
- `ClientsCatchUp`: once a complete release stays, a client that keeps being
  refreshed gets it, whatever its earlier refreshes left behind; in particular a
  patch that cannot be applied always ends in the full snapshot.

- `WholeCatalog`: the parser commits whatever arrived before the stream ended, so a
  crawl that broke off leaves a smaller catalog that looks complete; the shell's
  `pipefail`, and nothing else, keeps it from being published.
- `TablesAgree`, `DeltasFollow`: upserts keep rowids, known installers keep their
  ids, and the triggers keep the index in step over nights of changes, deletions,
  evicted caches and runs on the same date. What drifts is a build on another base
  than the last release, never one on its own base.
- `PatchGivesTheRelease`: where the publisher does not find drift, its statements,
  conflicts by id, rowid and key included, give the new release's rows, in every column
  that the publisher selects. (They give neither its other columns nor its full-text index:
  see section 4.)
- `BuildEnds`: neither program waits for ever for the other; a broken pipe ends
  the writer, the crawler's exit ends the reader.
- `PreservesTree`: an installed archive or portable package has exactly its own
  files, whatever earlier installs, killed or failed anywhere, left in the shared
  staging directory. `RollsBack`: a failed replacement whose rollback worked
  leaves what was there. `RuntimeIsWhole`: VERSION is written last and the swap is
  one rename, so a runtime that is taken for available is complete; the copy from
  another volume is excepted, and section 4 says why.
- `VerifiedOrTolerated`, `ArchivesAreUnpacked`: wrong bytes get in only without a hash
  or with a tolerated MD5, and whatever entry and URL say, the probe sends an
  archive to the archive engine. `EveryInstallEnds`: no failure path loops.
- `FilesAreTheirRows`: file restore compares versions before it copies, although the
  catalog moves on at any time: whichever entry of a name the search ranks first, a package
  has files of its row's version only, and of entries that its name can be taken for
  (`Candidates`). `RepairHeals`: a repair that ended well, with nothing
  declined, leaves nothing for the next, although it may have installed another entry of
  the name (but for packages that install elsewhere or can be taken for a lookalike,
  see section 4). `RepairsOnlyReported`, `HighRiskNeedsConsent`: nothing but what
  was reported, or what a reported name can be taken for, is touched, and one approval never carries over to another question
  or package. `EveryRepairEnds` under the fairness of its steps.
- `SelectionIsBest`: a host is refused exactly if nothing suits it, and elevation never
  costs it an installer. `ExposureIsSafe`: exposed names are safe and distinct up
  to case; what repair calls fresh would be decided the same today, and a respelling
  is never stale. `DirectoriesResolve`: the outcome does not depend on the order of
  a hash map. `LatestIsWritten`: the crawler's choice does not depend on the order of
  the index and is, for versions on whose spelling the two orders do not part (`OneOrder`,
  `SpelledAlike`), the newest by the parser's order too. `InstallersAreMerged`: rows and commands do not
  depend on the order of a manifest. `RetryBacksOff`: waits stay between half the
  backoff and one and a half times the cap for every attempt, overflow included.
- `OneSettingAtATime`: although `config set` writes the whole configuration back, it
  changes the one key that was meant, whatever was missing from the file and whatever the
  environment overrides; a refusal writes nothing; what is shown can be set again.
- `OwnCommandRuns`: an executable package that is where it was told to be is never
  removed with another application's program, whichever entries of its name the registry
  has in whatever order, and with its own unless they leave that open or the command cannot
  be split.
- `NothingIsLeftBehind`: a journal or a shim that its package's directory leads to
  belongs to an installed package, although the commands that installed, removed
  or replayed ran with other roots and another `paths.data`; a registered font is there.
  The condition "leads to" is there for the packages of section 4's "Stranded".

Fairness (`FairSpec`) is weak fairness of each running process's steps. The code
justifies it: a process is a straight-line program whose every wait is bounded
(SQLite's busy timeout is 5 s) but for the download, an engine's process and the
user, which are assumed to return, answer or be cancelled. No fairness is
assumed between the outcomes of a step, and none of starting a command.
`Distribution` has weak fairness of the refresh alone: its steps are requests
that return or fail, and the user runs `winbrew update` again (failures are
bounded, as they must be for anything to be reached). Nothing is assumed of the
publisher: `ClientsCatchUp` speaks of releases that stand. `Nightly` has weak
fairness of crawler, parser and job: they are processes that the runner
schedules, requests time out, and none of their failures is fair. `Payload` and `Drift`
have it of the steps of a running install or repair, whose prompts the user answers;
no kill, failure or new start is fair, and nothing is assumed about which outcome a
step has. Deadlock is checked in every run but two: a workflow stops after `MaxRuns`
(`Nightly`), a rule with its answer (`Rules`).

## 4. Where the code and its documents disagree

Three runs check one statement each that a comment or a document makes, and TLC finds
a behaviour of the code that breaks it.

| Run | Statement | Behaviour |
|---|---|---|
| `LostFiles` | a committed journal without a row is "the documented Incomplete install recovery case that repair replays" (`installed_packages.rs`) | startup removes the directory of the Installing row first; the replay then makes the package installed with no files |
| `RefusedPatch` | "a legitimate patch only ever needs to insert, update, delete, or read rows" (`patch.rs`) | every published patch begins with `PRAGMA foreign_keys = ON;`, which the client's authorizer denies: each patch update falls back to the full snapshot |
| `LiveContent` | orphan cleanup is for what "can be removed without touching live content" (`recovery-policy.md:71`) | the doctor compares the names of directories with the names of packages; a package whose name has a `/`, `\` or `:` is in a directory of another name, which is reported, and deleted with the package installed |

More, that have no run of their own. The first seven are properties of module Cli; to
see each, check it in place of `ReplayFindsTheFiles` in `LostFiles.cfg`, with the
processes and faults named.

- Unread (`NoTrailingEntries`; faults `crash`, `journal_read`): `open_at` refuses a journal
  that is "already committed", but takes an error of reading it for nothing wrong
  (`writer.rs:44`): where an I/O error hides a committed journal, the retry appends a second
  Metadata and Commit, after which every reader calls the journal corrupt. The same arm opens
  a file that is not UTF-8, whose package is then installed with a journal nobody can read.
- `StartupSparesTheLiving` (two processes, no faults): rows are left Installing "by a
  previous crash or forced termination" (`cleanup.rs`), but a command that starts
  during an install fails its row and removes its directory.
- `TrailIsReadable` (invariant; fault `journal`): "either both the journal and the
  SQLite row end up durable, or neither does" (`installed_packages.rs`), but a retry
  that appends to a line without its newline commits with a journal nobody can read.
- `CleanStart` (invariant; fault `crash`): after preparation "the next attempt starts from
  a known-good state" (`state.rs`), but the committed journal of a failed commit stays,
  and `open_at` refuses every retry of that version.
- `OrphanCleanupSparesInstalled` (fault `db`, or `read`): orphan cleanup is for what can
  go "without touching live content" (`recovery-policy.md`), but a journal and a
  directory without a row are both in the report, and the replay of the one installs
  what the cleanup of the other deletes; and the doctor takes a package list that it
  cannot read for an empty one.
- `JournalTrail` (invariant; two processes, no faults): "never leave a package visible in
  SQLite with no journal at all" (`installed_packages.rs`), but a remove deletes by
  name the journal that a concurrent install of the version has open.
- `PreservesTree` fails with two processes and two packages in `Payload.cfg`: the
  installs share `packages/staging`.
- `RuntimeIsWhole` fails without its exception: from another volume and with no earlier
  runtime, `replace_directory` copies straight into the target, and a kill leaves a
  truncated file with a VERSION beside it.
- What repair restores or reinstalls is looked up by name, and names are not unique in the
  catalog (`catalog.sql:15`, the identity is source, namespace and source id):
  `resolve_catalog_package` takes the first entry of that name in the order of the
  full-text search (`search.rs:90`). So a file may be restored from another entry
  of the name if the versions are written alike, next to files of the one that was installed,
  and a reinstall may bring another one. `Candidates` allows it.
- Without an entry of the name the search may return a lookalike as its only match, and
  repair installs that: it touches a package that was not reported (`Affected` allows it),
  and the reported one goes on ailing (`Incurable`).
- Names that differ in the case of letters alone are equal to that search, but two rows
  for the index, and one directory for Windows: not modelled.
- `RepairHeals` fails without its exception: an MSI with an InstallLocation of its own
  is inventoried under the directory it was given, so its files are always missing.
- A patch does not keep the full-text index in step: `INSERT OR REPLACE` fires no delete
  trigger, so the replaced row's entry stays (against "should be preserved through
  incremental writes", `docs/pipeline.md`). `CatalogPatch` models it, and
  `SameRows` leaves the index out.
- A patch does not carry what a package lists: platforms, commands, protocols, file
  extensions, capabilities and `env_add_path`, which the publisher neither selects nor compares
  (`release_artifacts.go:483`, `596`), are NULL in every package and installer that a patch
  writes anew (`634`, `665`). A change in them alone would go unnoticed, were it
  not for the stamp: every package of a build has a new `updated_at`, is unequal by that, and
  is written anew. A client that follows patches would see the `commands` of no package.
  (No patch is ever applied: `RefusedPatch`.)
- `DefaultYesRemovesNothing`, checked in place of the properties of `Drift.cfg`:
  "repair's Medium/High Risk and Destructive confirmations ignore it entirely"
  (`recovery-policy.md:87`, of `core.default_yes`), but orphan cleanup, the Medium Risk
  group, leaves its question to `ui.confirm`, which answers yes by itself (`repair.rs:180`).
- Stranded: journals are "retained ... for the package lifetime" (`recovery-policy.md`)
  and no longer, but a removal looks for journal and shims below the root that the
  recorded directory leads to (`remove/execution.rs`). That is another one for a font,
  an MSI package that says where it is, and any package when `paths.data` or
  `paths.packages` is not below the root: both stay, and since `open_at` refuses
  a committed journal, that version cannot be installed again.
- One such journal, whose directory is not below the packages root, makes the replay of
  the whole batch fail (`journal/replay.rs`): `ReplayJournals` needs all of them there.
- Two names that differ in replaced characters have one directory, against the comment on
  uniqueness at `paths.rs:203`.
- `CaptureNativeExeMetadata`: two entries of one priority make the answer ambiguous even
  if a better one comes later; and a package whose own entry has no commands may be
  given those of another application that says nothing of its place. `OwnCommandRuns`
  leaves both out, and `ExecutableAssumption` another application of the same name that
  says that it is in the same directory. An uninstall command with a quote that stays open, a
  single one in a name included, or with two arguments that are equal up to their first `=`
  (`split_switches`, `validate_unique_switches`) is refused and never run, while the
  directory goes.
- An MSIX package is found by full or family name only, so one that the catalog names
  otherwise is registered with Windows and reported as failed. Two fonts of one file name
  and kind (`.ttf`, `.ttc`) overwrite each other's registry value. When the value of a font
  cannot be removed, that is logged and the file deleted all the same (`font.rs:58`): the
  registry then names a file that is gone. Premises lets no removal of a value fail.
- `config get` says "overridden by environment" of every key, but of those that a command
  runs with only `paths.root` is (`CommandContext` takes the file's values).
- The backoff is right only for a cap of at most a quarter of a duration's range: nearer
  to its end, a delay and the half of it that the jitter adds wrap around, and the next
  attempt comes at once. The code's cap is 30 s of 64 bits (`RetryAssumption`).
- The two orders of versions disagree on numbers alone after `-` (`1.2.3-4`), a text
  after `+`, a pre-release that has metadata too, `-` within an identifier (`1.2.3-rc-10`
  is older than `1.2.3-rc-2` for the parser), versions that begin with a word
  (`OneOrder` leaves these out), and words whose order changes in lower case: for the
  crawler `1.2.3-RC1` is newer than `1.2.3-beta`, for the parser older (`SpelledAlike`).

## 5. What is proved

`CliProofs` proves these for all finite or infinite sets of processes, packages,
versions and commands, every choice of `Exposes`, `Manifest` and `Probe`, and
every set of faults. The assumptions are the named ASSUMEs of `Journal` and
`Store`: `None` and `Partial` are fresh values, the constants have their types.

| Theorem | Statement |
|---|---|
| `Invariance` | `Spec => []Inv`, `Inv == TypeOK /\ CommitIsExclusive /\ OwnersWereInstalled` |
| `TypeCorrect`, `CommitsAreExclusive`, `Owners` | its three parts |
| `NoTheft` | `Spec => CommandsAreNotStolen` |
| `FinalJournal` | `Spec => CommittedJournalIsFinal` |
| `NoTrailing` | `Spec => []NoTrailingEntries`, if journals can be read ("journal_read" not in `Faults`; checked by no run) |

The argument. A process in `open`, `journal` or `commit` holds the write lock,
and every statement of every other process needs the lock free; so while a
commit is under way no row, owner or journal it depends on changes except by it.
`CommitIsExclusive` says so: the holder is in its transaction, whoever is in one
is the holder, its row is still there, its commands are still free for it, and
between `open_at`'s check and the flush its journal is still openable, unless it was opened
unread (`blind`). The last
conjunct is not inductive without the others. The one action outside the lock
that touches journals is `RemoveJournal`, and deleting a journal keeps it
openable. The proof classifies every action as one of: outside any transaction
(rows and registry change only if the lock is free), entering one, inside one,
or leaving one (`Shape`); each action's lemma gives its class, and
`GoodIsExclusive` shows once that each class keeps the invariant.
`FinalJournal` and `NoTrailing` follow from it with the lemmas
about what an append does to an openable file: an openable
journal is not committed, and rewriting one leaves nothing after a Commit, in a file that is
not UTF-8 as little as in an incomplete one.
`Inv` is checked by TLC too, part by part, in `Failures`, `Racing` and
`Contending`.

`SoloProofs` is about the same module where one process runs at a time (`Alone ==
\A c, d \in Procs : c = d`), for any packages, versions and commands, and but for the last
two through every crash, torn write and failed statement. With two processes
`JournalTrail` fails (section 4).

| Theorem | Statement, under `Alone` |
|---|---|
| `SoloInvariance`, `TrailOfTheInstalled` | `Spec => []Solo`, `[]JournalTrail` |
| `LogIsWriteAhead` | `Spec => WriteAheadLog`: Cli implements WriteAhead |
| `OnlyRemoveUninstalls` | `Spec => InstalledUntilRemoved` |
| `StaleRowsAreFailed` | `Spec => []NoStaleRows`, if no write to SQLite fails |
| `PackagesSettle` | `Spec => []Settled`, if `Faults = {}` |

`JournalTrail` is not inductive: that a rollback leaves an installed package alone
depends on what the process remembers of a row it saw many steps ago. `Solo` adds to it
`Inv`, `NoTrailingEntries` and `Plan`: for each place in a command, what row and journal
are there (an install's own row is Installing, a journal being committed ends in a Commit,
every journal that repair is to replay still does). From it follows what any step can do
to index and journals together (`Kind`): nothing that shows; withdraw a package, by its
removal; install one from what is on record; change a journal that ends in no Commit; or
delete the journal of a package that is not installed. These are WriteAhead's actions,
its `Log!Next` or a stutter, so the refinement and `InstalledUntilRemoved` are corollaries.
`NoStaleRows` needs `Tidy` besides: startup has every Installing row on its list and
strikes off only those it failed.

`Settled` speaks of the time between two commands only. `Settling`, which implies it and
is inductive next to `Solo`, speaks of every step: a package that no process is busy with
is at rest (`AtRest`), and a process is busy only from the engine's success or failure to
the end of the install, and from the staging of a removal to its end. On that way
`Memory` says that what the process once read is still so (the row is its row, the
commands are the registry's or free to claim) and `Course` how far it is: which of
directory, journal, owners and shims are there already. So a step is either one of a
calm process that changes nothing at rest, or one that moves the busy process's package
along, and repair, which finds every package at rest, finds nothing to do. The hypothesis
`Faults = {}` still lets every download, probe, engine and uninstaller fail and every user
decline; with any of the fault classes the code itself leaves packages in disagreement,
which is what repair is for.

`PayloadProofs` is about `Payload` for any packages, offers, hosts and volumes.

| Theorem | Statement |
|---|---|
| `ControlInvariant` | `Spec => []Control` |
| `PayloadsAreVerified`, `ArchivesGetUnpacked` | `Spec => []VerifiedOrTolerated`, `[]ArchivesAreUnpacked`, any number of processes |
| `RuntimeStaysWhole` | `Spec => []RuntimeIsWhole`, any number of processes |
| `PackagesRollBack` | a failed replacement of a package restores it, any number of processes |
| `ReplacementsRollBack`, `TreesArePreserved` | under `Alone`: `Spec => []RollsBack`, `[]PreservesTree` |

`Control` says that what each process remembers fits its step (`GoodAt`: when the
engine is known, what has been verified), and that a package being installed is not
installed and is one process's only (`Claims`). Each step then changes the disk in one
process's slots and in the staging directory at most (`Local`). For the runtime, which all
processes replace, `RuntimeGood` holds whoever moves; for a package's slot, `Keeps` follows
where the earlier tree is; for what is staged, `Staged` says that it is the payload's tree,
and that is the one part which needs `Alone`: staging is shared, and with two processes
and two packages `PreservesTree` fails.

`DistributionProofs` proves the safety properties of `Distribution` for every
`MaxBuild` and `MaxFailures` in Nat (`BoundsAssumption`), that is for any number
of releases and failures.

| Theorem | Statement |
|---|---|
| `Invariance` | `Spec => []Inv` |
| `DistributionTyped`, `PublishedInOrder`, `OneReleaseSwapped`, `CurrentCatalogIsTrue` | `Spec => []TypeOK`, `[]AnnouncedIsAvailable`, `[]SwapsOneRelease`, `[]CurrentIsTrue` |

Three conjuncts make `Inv` inductive. `RunIsInOrder`: the hash a run read is
still the released one, and older than what it built, up to its upload; its patch
is in the store; no plan is newer than what it replaces. `PlansAgree`: all plans
lead to one release, and only that release is current. `ClientIsBehind`: no
client holds, or asks for, a release that the plans have not reached, and a
refresh never goes back behind its metadata. `CurrentIsTrue` then is a squeeze:
the target that `SwapCatalog` puts in place is not newer than the plans' release,
and not older than the metadata; a plan that calls that metadata current has it
for its release, so the three are one.

`NightlyProofs` is about `Nightly` for any packages, buckets, contents, feeds and
number of runs.

| Theorem | Statement |
|---|---|
| `NightlyInvariant` | `Spec => []Inv` |
| `TypesHold`, `CatalogsAgree`, `BuildsFollowTheirBase`, `PublishedCatalogIsWhole` | `Spec => []TypeOK`, `[]TablesAgree`, `[]DeltasFollow`, `[]WholeCatalog` |
| `PatchesReproduceReleases` | `Spec => []PatchGivesTheRelease` |

`Good` says of one database that its tables agree and that every installer id is at
most the sequence; each statement keeps it (`UpsertEffect`, `SyncEffect`,
`WriteEffect`, `PruneEffect`). The new installers of a package get the ids after
the sequence in the order of their keys, so that ids are distinct is a fact about the
rank of a key in a finite set (`Rank`, `RankIsKey`). `Inv` adds: lines written are
lines listed, all of them once a goroutine is done (`CrawlFaithful`); the transaction
holds what was read, as it was (`Taken`, `ParseFaithful`); and its rows follow those
of the base (`BuildFollows`). `WholeCatalog` is then the meeting of the two ends at
`EndBuild`. The assumptions are the named ones of CatalogTables, Crawler and Parser.

A patch is a loop over packages, each with its own statements on what the ones before
left. `PatchReproduces` goes through it by induction (`Halfway`): what the loop has gone
past, or need not write, has the row and the installers of the target; the others have
those of the base, or nothing, because a row that is written evicts another one of
its rowid. It never evicts what is past (`HalfwayGoesOn`), since no two rows of the target
share a rowid; and what is left in the end is what the new catalog has not, which is then
removed. `ReleaseWhole` says that what was released last was whole when it was, which the
theorem needs besides `Inv`: the build at hand may have another catalog for its base.
The rows and installers are what the publisher knows of them (`Published`); the lists
take no part in it.

`DriftProofs` is about `Drift` for any names, entries, lookalikes, files, versions and
changes: no assumption is made on which entries share a name or resemble one another.

| Theorem | Statement |
|---|---|
| `TypesHold`, `RestoresOwnFiles` | `Spec => []TypeOK`, `[]FilesAreTheirRows` |
| `OnlyReportedIsRepaired`, `ConsentComesFirst` | `Spec => RepairsOnlyReported`, `HighRiskNeedsConsent` |
| `RepairLeavesNothing` | `Spec => []RepairHeals` |

Its invariant says that the plan names installed packages, each in one group and all
in the report (`PlanGood`), and that the package at hand is agreed to, that the entry found
for it is one of its `Candidates` and, while files are copied, that it is installed in the
version of the stage (`TargetGood`). That only candidates are found rests on `Published`:
an entry that may not be withdrawn is in the catalog, and while one of the name is, no
lookalike is taken. The last part is where the interleaving with the catalog matters: the
catalog may move between comparison and copy, but the stage is of the version compared.
`RepairHeals` needs more, `Healing`: until it fails or is declined something, a repair
has every package that ails and can be cured (`Pending`) in its plan or at hand
(`AllInPlan`), or has just removed it to install it anew; the groups are emptied in their order (`InTurn`); what was
reported lost of a package covers what is lost, and what is left to copy covers what
is still lost (`LossKnown`, `CopyGood`, by `Covers`); and a font's home is elsewhere
(`HomesGood`). Each step then heals the package it takes from the plan, and lets no
other ail: files get lost only between repairs, and a reinstalled package is whole
under `packages\` unless its files belong elsewhere. `NoneAssumption` says that the
value for an absence is no version, row, content or directory.

`RulesProofs` is about `Rules`, and with it `Premises`, for any tables, catalogs, hosts,
configurations, manifests, registries, retry plans and listings.

| Theorem | Statement |
|---|---|
| `EveryTableResolves` | `Spec => []DirectoriesResolve` |
| `NothingStays` | `Spec => []NothingIsLeftBehind` |
| `RetriesBackOff` | `Spec => RetryBacksOff` |
| `EveryHostGetsTheBest`, `SettingsStayApart` | `Spec => []SelectionIsBest`, `[]OneSettingAtATime` |
| `ExposureStaysSafe`, `EveryInstallerIsMerged` | `Spec => []ExposureIsSafe`, `[]InstallersAreMerged` |
| `LatestVersionIsWritten`, `OwnCommandIsRun` | `Spec => []LatestIsWritten`, `[]OwnCommandRuns` |

Three of the questions take many steps and have inductive invariants. `WalkInv`, of the
walk over a Directory table: what is resolved is closed under parents, so no endless row
is ever among it, and what is being visited is a chain of parents, endless as soon as it
meets itself or a missing row. `PremisesInv`: a journal or shim that its directory leads
back to belongs to a package installed there (`JournalsOwned`, `ShimsOwned`), and every
registered font has the file that its value names (`FontsMatch`), whatever
the configuration and the environment have become. `RetryInv`: a call that may still make
an attempt has waited for it as long as `CalculateDelay` says, and
the powers of two bound what that is.

The others answer in one step, so the invariant is that the answer is the operator's for
the question; the work is in the operators, of which the properties do not repeat the
algorithm. The selection by rank is a minimum under the preference. Merging after n entries
has a closed form (`After`: one installer for each key, with the commands of all that
have it), in which the order of the entries does not occur. A configuration that was
loaded or set has a value of the right kind for every key (`ConfigTyped`), and that is
what makes it one that can be set again. For the versions, `Before` is the order of
two lists of tokens, and `Older` that of two versions: by the core, then by what kind of
extra there is, then by that. It is total and transitive, so that the best of the rows
(`BestOf`) does not depend on their order; words that stand in one order as written and in
lower case are compared alike (`LoweredAlike`), identifiers that dots part are single
tokens (`DotsJoinNothing`), and so the parser writes the parts so that its own
order is the same (`PartsAreWritten`, `WrittenInOrder`). For the registry, an application's
own entry has a priority above 10 and all others one below 4, so it is the best and nothing
after it ties with it; two others before it may, and that tie stays (`OwnLeads`).

The assumptions are named in Rules and Retry. Most say what a constant is
(`SelectionAssumption`, `ManifestAssumption`, `ExposureAssumption`, `DirectoryAssumption`),
as the types of the code do. The ones that say more: the rows of an index have versions with
tokens, of `Words` that have a lower case (`WordAssumption`), and there is one
(`ListingAssumption`; the crawler asks only of ids it has rows of);
a configuration's values are ones that could be set (`SettingsAssumption`; `Config::load`
refuses others); a cap is far from the end of a duration (`RetryAssumption`); and
`ExecutableAssumption`: the commands of an application's own entry begin with its program,
no longer beginning is a file, and no other entry of its name claims its directory.

`NumberTheorems` is the induction behind these. The library's induction theorems
take an operator as a parameter, which the provers cannot instantiate; a set of numbers
they can. `LeastNumber` and `AllNumbers` say that a set of naturals that has 0 and the
successor of each member has all, `StepsCompose` that a function which follows one step
after another has what each step keeps, and `LargestNumber` gives the last
of a bounded set. What the models compute over sequences and sets is written
as recursive functions, whose defining equation is then a step.

Only model-checked: the five liveness properties (`EveryCommandEnds`, `EveryInstallEnds`,
`EveryRepairEnds`, `BuildEnds`, `ClientsCatchUp`), since fairness and ENABLED are beyond
the prover, and the disagreements of section 4.

## 6. What is not modelled

- Temp workspaces, and what a deferred delete leaves behind under another name.
- A power cut: SQLite in WAL mode with `synchronous=NORMAL` may lose its last
  transactions while the synced journals survive. Only process death is modelled.
- Collisions of sanitised journal keys and of `.trash` names: two names that differ
  only in characters that are replaced share a journal directory for one version.
- What a native installer or uninstaller does to the machine; the file, registry and
  shortcut tables of the MSI inventory.
- The doctor's diagnoses without an action, permissions and hashes; a failing
  list of Installing rows at startup. By reading: a healthy font is always reported as
  `install_directory_not_a_directory`, because its recorded directory is a file.
- Two refreshes at once, which share the names of their temporary files; the
  move aside of a target that a rename cannot replace, which for a moment leaves no
  catalog at all; caches between store and client.
- Ranking and full-text queries of the catalog search.
- Configuration commands at once: each reads and writes the whole file, so two
  lose an update, and nothing promises otherwise. Which directory Windows gives for
  `%LOCALAPPDATA%`, and the detection of the host.
- HTTP, git and archive formats; the contents of manifests beyond what decides
  versions, installers and commands; the nightly archive of the crawl.
- The calls of the Windows bindings themselves, read-only commands, wording and layout, fixtures.

## 7. Plan

1. `Payload` with two processes, once installs have staging directories of their own,
   and as a detailed form of Install's `EngineInstalls` by a refinement mapping.
2. Durability: the power cut, with a durable prefix of the transactions.
3. `Refresh` with two clients on one catalog directory, and `finalize_temp_file` in
   its two renames.
4. An abstract specification of a client's catalog (it moves from release to
   release and never back), with Distribution shown to implement it; and Nightly and
   Distribution joined at the snapshot.
5. Proofs: the refinement of 4.
