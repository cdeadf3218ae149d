--------------------------------- MODULE Native ---------------------------------
(***************************************************************************)
(* The engines that leave the work to Windows (crates/engines/src/windows) *)
(* and the bindings below them (crates/windows): executables, Windows      *)
(* Installer packages, MSIX packages and fonts.  The installers, the       *)
(* registry and the package manager themselves are not WinBrew's.  Texts   *)
(* that are compared without regard to case are equal here.                *)
(***************************************************************************)
EXTENDS Layout, Functions, FiniteSetsExt

CONSTANTS
    WindowsDir,    \* %SystemRoot%, or <<>> without the variable
    UserFonts      \* %LOCALAPPDATA%\Microsoft\Windows\Fonts

\* A word is a name, or a name, "=" and a value; an argument is a word, or the words
\* that quotes hold together.  Its signature is what it says up to its first "=".
Flag(name) == [name |-> name, assigned |-> FALSE, value |-> <<>>]
Assign(name, value) == [name |-> name, assigned |-> TRUE, value |-> value]
SwitchSignature(arg) ==
    LET last == Min({Len(arg)} \union {n \in DOMAIN arg : arg[n].assigned})
    IN <<[n \in 1..last |-> arg[n].name], arg[last].assigned>>

\* What split_switches takes: no quote stays open, and no two arguments have one
\* signature.
SplitSwitches(open, args) ==
    ~open /\ IsInjective([n \in DOMAIN args |-> SwitchSignature(args[n])])
Singly(words) == [n \in DOMAIN words |-> <<words[n]>>]

SilentFlags == [exe |-> <<>>, nullsoft |-> <<"/s">>, burn |-> <<"/quiet", "/norestart">>,
                inno |-> <<"/verysilent", "/suppressmsgboxes", "/norestart", "/sp-">>]
DirSwitch == [inno |-> "/dir", nullsoft |-> "/d"]

PushFlagIfMissing(args, flag) ==
    IF \E n \in DOMAIN args : args[n] = Flag(flag) THEN args ELSE Append(args, Flag(flag))
HasArgPrefix(args, name) == \E n \in DOMAIN args : args[n].assigned /\ args[n].name = name

\* A generic executable needs switches of its own; only the two families that are
\* known to take a directory are given one, unless the catalog gives it.
ArgsRefused(installer) ==
    \/ ~SplitSwitches(installer.switches.open, Singly(installer.switches.args))
    \/ installer.kind = "exe" /\ installer.switches.args = <<>>
BuildInstallArgs(installer, dir) ==
    LET silent == FoldLeft(PushFlagIfMissing, installer.switches.args, SilentFlags[installer.kind])
    IN IF installer.kind \in DOMAIN DirSwitch /\ ~HasArgPrefix(silent, DirSwitch[installer.kind])
       THEN Append(silent, Assign(DirSwitch[installer.kind], dir))
       ELSE silent

--------------------------------------------------------------------------------
\* The uninstall registry: three lists of [key, display, location, quiet, plain],
\* where a command is [words, quoted, open] and one without words is not there: its
\* words between blanks, how many of them the quotes it begins with hold together,
\* and the words from which on a quote stays open.

UninstallRoots(registry) == registry.machine \o registry.wow \o registry.user

UninstallEntryMatches(e, filter) ==
    \E n \in 0..Len(e.display) : SubSeq(e.display, n + 1, n + Len(filter)) = filter

\* The first of the roots whose key has a value that is not blank.
ReadUninstallLocation(registry, key) ==
    LET found == SelectSeq(UninstallRoots(registry), LAMBDA e : e.key = key /\ e.location # <<>>)
    IN IF found = <<>> THEN <<>> ELSE Head(found).location

Told(command) == command.words # <<>>

\* Mutant of NativeExeMetadataPriority: a published location counts for nothing.
PriorityWithoutLocation(entry, dir) == IF ~Told(entry.quiet) THEN 1 ELSE IF Told(entry.plain) THEN 3 ELSE 2

\* An entry that says where it is, and says so rightly, before any that does not;
\* then both commands, the quiet one, the plain one.
NativeExeMetadataPriority(entry, dir) ==
    (IF entry.location = dir THEN 10 ELSE 0)
      + (IF ~Told(entry.quiet) THEN 1 ELSE IF Told(entry.plain) THEN 3 ELSE 2)

Candidate(e, app, dir) ==
    /\ UninstallEntryMatches(e, app)
    /\ e.display = app /\ e.location \in {<<>>, dir}
    /\ Told(e.quiet) \/ Told(e.plain)

\* Entries are taken in the registry's order.  Two of one priority are not told
\* apart, not even when a better one comes after both.
NoMatch == [priority |-> 0, entry |-> <<>>, tie |-> FALSE]
Consider(best, e, dir) ==
    LET priority == NativeExeMetadataPriority(e, dir)
    IN IF priority > best.priority THEN [best EXCEPT !.priority = priority, !.entry = <<e>>]
       ELSE [best EXCEPT !.tie = @ \/ priority = best.priority]
BestMatches(roots, app, dir) ==
    LET best[n \in Nat] == IF n \notin DOMAIN roots THEN NoMatch
                           ELSE IF Candidate(roots[n], app, dir) THEN Consider(best[n - 1], roots[n], dir)
                           ELSE best[n - 1]
    IN best
CaptureNativeExeMetadata(registry, app, dir) ==
    LET roots == UninstallRoots(registry)
        best  == BestMatches(roots, app, dir)[Len(roots)]
    IN IF best.tie THEN <<>> ELSE best.entry

\* The program of a command: what is quoted, else the longest beginning that is a
\* file, else the first word; not any when what is split as switches, the rest of
\* the command or all of it, is refused.
LongestExistingFilePrefix(files, words) ==
    Max({0} \union {n \in DOMAIN words : SubSeq(words, 1, n) \in files})
Rest(words, size)      == Singly(SubSeq(words, size + 1, Len(words)))
Arguments(words, size) == <<SubSeq(words, 1, size)>> \o Rest(words, size)
SplitUninstallCommand(files, command) ==
    LET longest == LongestExistingFilePrefix(files, command.words)
        size    == IF command.quoted > 0 THEN command.quoted ELSE IF longest > 0 THEN longest ELSE 1
        whole   == command.quoted > 0 \/ longest = 0
        taken   == IF whole THEN SplitSwitches(1 \in command.open, Arguments(command.words, size))
                   ELSE SplitSwitches(size + 1 \in command.open, Rest(command.words, size))
    IN IF Told(command) /\ taken THEN SubSeq(command.words, 1, size) ELSE <<>>

\* The quiet command is preferred.  Whatever becomes of it, the directory goes.
UninstallCommand(entry) == IF Told(entry.quiet) THEN entry.quiet ELSE entry.plain
RunUninstallCommand(files, captured) ==
    IF captured = <<>> THEN <<>> ELSE SplitUninstallCommand(files, UninstallCommand(Head(captured)))

\* What every executable install and removal begins with.
ValidInstallDir(dir) == dir # <<>> /\ \A n \in DOMAIN dir : dir[n] # <<"..">>
ValidPackageName(name) == name # <<>>

--------------------------------------------------------------------------------
\* Windows Installer.

\* A drive, the Windows directory, and whatever holds it or lies in it.
UnsafeRelocationTarget(path) ==
    \/ Len(path) < 2
    \/ WindowsDir # <<>> /\ (IsUnder(path, WindowsDir) \/ IsUnder(WindowsDir, path))

\* Where the product says it is, rather than where it was told to be.
ResolveInstallDir(registry, product, requested) ==
    LET location == ReadUninstallLocation(registry, product)
    IN IF location = <<>> \/ UnsafeRelocationTarget(location) THEN requested ELSE location

--------------------------------------------------------------------------------
\* MSIX: identities are [name, family, full].

\* The package manager finds by full and by family name, not by the name alone.
MatchingPackageFullNames(registered, asked) ==
    {k.full : k \in {k \in registered : asked \in {k.full, k.family}}}

\* Windows has registered the package by the time its full name is asked for.
MsixInstall(registered, identity, asked) ==
    LET matching == MatchingPackageFullNames(registered \union {identity}, asked)
    IN [registered |-> registered \union {identity},
        full |-> IF Cardinality(matching) = 1 THEN matching ELSE {}]
MsixRemove(registered, full) == {k \in registered : k.full \notin full}

--------------------------------------------------------------------------------
\* Fonts: the user's font files, [stem, extension], and the registry's values,
\* from a name to the file.

FontValueSuffix == [ttf |-> "(TrueType)", ttc |-> "(TrueType)",
                    otf |-> "(OpenType)", otc |-> "(OpenType)"]
FontRegistryValueName(file) == <<file.stem, FontValueSuffix[file.extension]>>
WithValue(values, name, file) ==
    [n \in DOMAIN values \union {name} |-> IF n = name THEN file ELSE values[n]]
Without(values, name) == Restrict(values, DOMAIN values \ {name})

InstalledPath(file) == Append(UserFonts, <<file.stem, ".", file.extension>>)

RemoveUserFont(fonts, file) ==
    [files |-> fonts.files \ {file}, values |-> Without(fonts.values, FontRegistryValueName(file))]

\* The file is copied over one of its name and registered; when it does not load,
\* both are taken away.
InstallUserFont(fonts, file, loads) ==
    IF file.extension \notin DOMAIN FontValueSuffix THEN fonts
    ELSE IF ~loads THEN RemoveUserFont(fonts, file)
    ELSE [files |-> fonts.files \union {file},
          values |-> WithValue(fonts.values, FontRegistryValueName(file), file)]
================================================================================
