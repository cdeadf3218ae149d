-------------------------------- MODULE Premises --------------------------------
(***************************************************************************)
(* Where the packages of one machine are and where WinBrew looks for them, *)
(* while the configuration and the environment change between commands.    *)
(* Every command is one step: module Cli has their interleavings and their *)
(* failures.  The index and the journals follow paths.data, the shims the  *)
(* root, the directories paths.packages or the engine; a removal and a     *)
(* replay find the root by going up from the package's directory.          *)
(***************************************************************************)
EXTENDS Native

CONSTANTS
    Catalogs,       \* what a catalog may offer: packages [name, kind, file, identity]
    Settable,       \* <<typed, value>>: what config set and unset are asked for
    Environments,   \* the variables that a command may find
    Locations,      \* where a Windows Installer product may say it is; <<>> for nowhere
    MaxRows         \* bound on the rows of all databases, and on all journals, together

VARIABLES
    offered,       \* one of the catalogs, for good
    settings,      \* from the root of a file to the file
    environment,
    index,         \* rows of the databases: [db, pkg, dir, status, full]
    disk,          \* directories, journals [pkgdb, pkg, dir, full], shims [shims, pkg, dir]
    windows        \* fonts, and registered MSIX packages

premises == <<offered, settings, environment, index, disk, windows>>

Env    == CaptureEnv(environment)
Config == Load(settings[StorageRoot(Env)])
Paths  == ResolvedPaths(Config, Env)

StorageRoots == {StorageRoot(CaptureEnv(e)) : e \in Environments}

PremisesInit ==
    /\ offered \in Catalogs
    /\ settings = [r \in StorageRoots |-> Missing]
    /\ environment \in Environments
    /\ index = {}
    /\ disk = [dirs |-> {}, journals |-> {}, shims |-> {}]
    /\ windows = [fonts |-> [files |-> {}, values |-> <<>>], registered |-> {}]

\* Nothing to look at.
NoPremises ==
    /\ offered = {} /\ settings = <<>> /\ environment = <<>> /\ index = {}
    /\ disk = <<>> /\ windows = <<>>

--------------------------------------------------------------------------------

ChangeEnvironment ==
    /\ environment' \in Environments
    /\ UNCHANGED <<offered, settings, index, disk, windows>>

\* config set and unset.
ConfigSet ==
    /\ \E s \in Settable, set \in BOOLEAN :
         LET saved == IF set THEN SetValue(Config, Env, s[1], s[2]) ELSE UnsetValue(Config, Env, s[1])
         IN Accepted(saved) /\ settings' = [settings EXCEPT ![StorageRoot(Env)] = saved]
    /\ UNCHANGED <<offered, environment, index, disk, windows>>

--------------------------------------------------------------------------------

Row(p, dir, status, full) == [db |-> Paths.db, pkg |-> p, dir |-> dir, status |-> status, full |-> full]
RowsHere == LET db == Paths.db IN {r \in index : r.db = db}
RowsOf(p) == {r \in RowsHere : r.pkg = p}
Installed == {r \in RowsHere : r.status = "ok"}

\* A font exposes no command; any other package one, which is its name's, and whose
\* shim takes the place of the one that the package has there.
ShimOf(at, p, dir) == IF p.kind = "font" THEN {} ELSE {[shims |-> at, pkg |-> p, dir |-> dir]}
Published(shims, new) ==
    {s \in shims : \A n \in new : <<s.shims, s.pkg>> # <<n.shims, n.pkg>>} \union new

\* What an engine may come back with; the directory that was asked for is made
\* first, wherever the package ends up.
Receipt(dir, made, machine, full) ==
    [ok |-> TRUE, dir |-> dir, made |-> made, windows |-> machine, full |-> full]
Failure(machine) == [ok |-> FALSE, windows |-> machine]
Registry(p, location) ==
    [machine |-> <<[key |-> p.name, location |-> location]>>, wow |-> <<>>, user |-> <<>>]

EngineInstall(p, dir) ==
    {Failure(windows)} \union
      CASE p.kind = "msi" ->
             {LET d == ResolveInstallDir(Registry(p, location), p.name, dir)
              IN Receipt(d, {dir, d}, windows, {}) : location \in Locations}
        [] p.kind = "msix" ->
             LET done    == MsixInstall(windows.registered, p.identity, p.name)
                 machine == [windows EXCEPT !.registered = done.registered]
             IN {IF done.full = {} THEN Failure(machine) ELSE Receipt(dir, {dir}, machine, done.full)}
        [] p.kind = "font" ->
             {LET machine == [windows EXCEPT !.fonts = InstallUserFont(@, p.file, loads)]
              IN IF loads THEN Receipt(InstalledPath(p.file), {}, machine, {}) ELSE Failure(machine) :
                loads \in BOOLEAN}
        [] OTHER -> {Receipt(dir, {dir}, windows, {})}

\* A failed row of the package and its directory go first; the journal is written
\* where this command's layout has it, for the directory that the engine reports,
\* and is refused where one is committed.
InstallPackage ==
    /\ Cardinality(index) < MaxRows /\ Cardinality(disk.journals) < MaxRows
    /\ LET paths == Paths
       IN \E p \in {p \in offered : \A r \in RowsOf(p) : r.status = "failed"} :
            LET dir       == PackageInstallDir(paths, p.name)
                others    == index \ RowsOf(p)
                cleared   == {d \in disk.dirs : ~IsUnder(d, dir)}
                committed == \E j \in disk.journals : j.pkgdb = paths.pkgdb /\ j.pkg = p
            IN \E outcome \in EngineInstall(p, dir) :
                 /\ windows' = outcome.windows
                 /\ IF ~outcome.ok \/ committed
                    THEN /\ index' = others \union {Row(p, dir, "failed", {})}
                         /\ disk' = [disk EXCEPT !.dirs = cleared \union
                                       (IF outcome.ok THEN outcome.made ELSE {})]
                    ELSE /\ index' = others \union {Row(p, outcome.dir, "ok", outcome.full)}
                         /\ disk' = [dirs |-> cleared \union outcome.made,
                                     journals |-> disk.journals \union
                                       {[pkgdb |-> paths.pkgdb, pkg |-> p,
                                         dir |-> outcome.dir, full |-> outcome.full]},
                                     shims |-> Published(disk.shims,
                                                        ShimOf(paths.shims, p, outcome.dir))]
    /\ UNCHANGED <<offered, settings, environment>>

\* Mutant of RootOf: the root is the one that the command runs with.
CurrentRoot(dir) == Paths.root

\* The root that a package's directory leads to.
RootOf(dir) == InstallRootFromPackageDir(dir)

EngineRemove(r) ==
    CASE r.pkg.kind = "msix" -> [windows EXCEPT !.registered = MsixRemove(@, r.full)]
      [] r.pkg.kind = "font" /\ r.dir = InstalledPath(r.pkg.file) ->
           [windows EXCEPT !.fonts = RemoveUserFont(@, r.pkg.file)]
      [] OTHER -> windows

\* Windows' own packages cannot go without the receipt of their installation; a
\* failed one has no commands whose shims could be removed.
RemovePackage ==
    /\ \E r \in RowsHere :
         /\ r.pkg.kind \in {"msi", "msix"} => r.status = "ok"
         /\ index' = index \ {r}
         /\ windows' = EngineRemove(r)
         /\ disk' = [dirs |-> {d \in disk.dirs : ~IsUnder(d, r.dir)},
                     journals |-> {j \in disk.journals :
                                     <<j.pkgdb, j.pkg>> # <<PkgdbAt(In(RootOf(r.dir), "data")), r.pkg>>},
                     shims |-> IF r.status # "ok" THEN disk.shims
                               ELSE {s \in disk.shims :
                                       <<s.shims, s.pkg>> # <<ShimsAt(RootOf(r.dir)), r.pkg>>}]
    /\ UNCHANGED <<offered, settings, environment>>

--------------------------------------------------------------------------------

\* Doctor reports the journals that no installed package has; repair replays all
\* of them, or none when one has its directory somewhere else.  No two are of one
\* package: it has one journal below one pkgdb (committed, in InstallPackage).
OrphanJournals ==
    LET pkgdb     == Paths.pkgdb
        installed == {r.pkg : r \in Installed}
    IN {j \in disk.journals : j.pkgdb = pkgdb /\ j.pkg \notin installed}

ReplayJournals ==
    /\ OrphanJournals # {}
    /\ \A j \in OrphanJournals : IsUnder(j.dir, Paths.packages)
    /\ LET Restored(j) == Row(j.pkg, j.dir, "ok", j.full)
       IN /\ index' = {r \in index : \A j \in OrphanJournals : r \notin RowsOf(j.pkg)}
                        \union {Restored(j) : j \in OrphanJournals}
          /\ disk' = [disk EXCEPT !.shims =
                        Published(@, UNION {ShimOf(ShimsAt(RootOf(j.dir)), j.pkg, j.dir) :
                                             j \in OrphanJournals})]
    /\ UNCHANGED <<offered, settings, environment, windows>>

\* A directory is an orphan when it does not have the name, as the catalog spells
\* it, of an installed package.
OrphanDirectories ==
    LET packages == Paths.packages
        known    == {r.pkg.name : r \in Installed}
    IN {d \in disk.dirs : d # <<>> /\ Front(d) = packages /\ Last(d) \notin known}

CleanOrphans ==
    /\ OrphanDirectories # {}
    /\ disk' = [disk EXCEPT !.dirs = {d \in @ : \A o \in OrphanDirectories : ~IsUnder(d, o)}]
    /\ UNCHANGED <<offered, settings, environment, index, windows>>

PremisesStep ==
    \/ ChangeEnvironment \/ ConfigSet
    \/ InstallPackage \/ RemovePackage \/ ReplayJournals \/ CleanOrphans

PremisesSpec == PremisesInit /\ [][PremisesStep]_premises

--------------------------------------------------------------------------------

\* A journal or a shim whose package's directory leads back to it belongs to a
\* package that is installed there, whatever root and configuration the commands
\* ran with that installed, removed or replayed others; and a font that is
\* registered is there.
NothingIsLeftBehind ==
    offered # {} =>
    LET Owned(pkg, dir) == \E r \in index : r.status = "ok" /\ r.pkg = pkg /\ r.dir = dir
    IN /\ \A j \in disk.journals : PkgdbOfDir(j.dir) = j.pkgdb => Owned(j.pkg, j.dir)
       /\ \A s \in disk.shims : ShimsOfDir(s.dir) = s.shims => Owned(s.pkg, s.dir)
       /\ \A v \in DOMAIN windows.fonts.values : windows.fonts.values[v] \in windows.fonts.files

\* "Use this for stale package records or recovery artifacts that can be removed
\* without touching live content" (docs/recovery-policy.md:71): the cleanup never
\* takes the directory of a package that the same database has as installed.
LiveContentStays ==
    [][CleanOrphans => \A r \in Installed : r.dir \in disk.dirs => r.dir \in disk'.dirs]_premises
================================================================================
