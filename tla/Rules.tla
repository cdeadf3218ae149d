--------------------------------- MODULE Rules ---------------------------------
(***************************************************************************)
(* The rules that take no part in the larger models' state, each applied   *)
(* to every input of a small instance: which installer a host gets, which  *)
(* commands a package exposes, how an MSI package's directories resolve,   *)
(* when the crawler tries again, what of winget's index and manifests the  *)
(* catalog gets, what the configuration takes and shows, which program an  *)
(* executable package is removed with; and the commands of module Premises.*)
(***************************************************************************)
EXTENDS Selection, Commands, MsiPaths, Retry, Manifests, Premises

CONSTANTS
    Selections,      \* <<installers, host>>: what an installer is selected from
    Exposures,    \* <<entry, entry>>: a catalog entry when a package is installed, and later
    Tables,       \* Directory tables
    Listings,     \* the rows of one id in winget's index, [version, rowid], in the order read
    ManifestSet,  \* installer manifests
    Changes,      \* what config is asked for: [file, variables, typed, value, set]
    Executables   \* an executable's installation and what it leaves in the registry:
                  \* [app, dir, installer, place, published, hive, quiet, plain, program,
                  \*  registry, files]

VARIABLES
    question,   \* what is asked: [of, about]
    answer

ASSUME SelectionAssumption ==
    \A c \in Selections :
       /\ c[1] \in Seq([arch : Architectures, scope : Scopes, platform : SUBSET STRING])
       /\ c[2] \in [arch : Architectures, server : BOOLEAN, elevated : BOOLEAN]

\* An id in the index has rows, and a version has tokens, a digit after its prefix.
ASSUME ListingAssumption ==
    \A l \in Listings :
       /\ l \in Seq([version : [prefixed : BOOLEAN, tokens : Seq(Tokens)], rowid : Int])
       /\ l # <<>> /\ \A n \in DOMAIN l : /\ l[n].version.tokens # <<>>
                                        /\ l[n].version.prefixed => StartsWithDigit(l[n].version.tokens[1])

\* The installer's commands run a program whose path they begin with, and no longer
\* beginning is a file; nothing else of the name says that it lives in the directory.
ASSUME ExecutableAssumption ==
    \A x \in Executables :
       /\ DOMAIN x.registry = {"machine", "wow", "user"} /\ x.hive \in DOMAIN x.registry
       /\ \A h \in DOMAIN x.registry :
             /\ x.registry[h] \in Seq(ToSet(x.registry[h]))
             /\ \A e \in ToSet(x.registry[h]) : e.display = x.app => e.location # x.dir
       /\ x.app \in Seq(ToSet(x.app)) /\ x.program \in Seq(ToSet(x.program)) /\ x.program # <<>>
       /\ \A c \in {x.quiet, x.plain} :
             /\ c.words \in Seq(ToSet(c.words))
             /\ Told(c) =>
                  /\ Len(x.program) <= Len(c.words) /\ SubSeq(c.words, 1, Len(x.program)) = x.program
                  /\ c.quoted \in {0, Len(x.program)}
                  /\ \A n \in DOMAIN c.words : n > Len(x.program) => SubSeq(c.words, 1, n) \notin x.files

ASSUME ManifestAssumption ==
    \A m \in ManifestSet :
       /\ m = [files |-> m.files, defaults |-> m.defaults, installers |-> m.installers]
       /\ m.installers \in Seq(ToSet(m.installers))

\* The texts of a field are those that are in it.
ASSUME ExposureAssumption ==
    \A e \in Exposures : \A entry \in {e[1], e[2]} :
       /\ Unset # entry.bin
       /\ entry.bin.json \in {"absent", "blank"} => entry.bin.texts = <<>>
       /\ \A raw \in {entry.package, entry.installer, entry.bin} : DOMAIN raw.texts \subseteq Nat

\* What is in the file could be set, and so could the defaults.
ASSUME SettingsAssumption ==
    /\ {Just("info"), Just("debug,winbrew::core=trace")} \subseteq Filters
    /\ DefaultRoot # <<>>
    /\ \A c \in Changes : \A k \in SavedKeys(c.file) \intersect KEYS :
          /\ k \in Flags => c.file.values[k] \in BOOLEAN
          /\ k \in LogFilters => c.file.values[k] \in Filters \ {<<>>}
          /\ k \in Places => c.file.values[k] # <<>>

ASSUME DirectoryAssumption ==
    /\ Top \notin Directories
    /\ \A t \in Tables : \E D \in SUBSET Directories : t \in [D -> DirectoryRows]

vars == <<question, answer, rows, scan, retry, premises>>

NoAnswer == [is |-> "none"]
Asked(of) == question.of = of

Init ==
    /\ answer = NoAnswer
    /\ \/ /\ \/ \E c \in Selections : question = [of |-> "installer", about |-> c]
             \/ \E e \in Exposures : question = [of |-> "commands", about |-> e]
             \/ \E l \in Listings : question = [of |-> "version", about |-> l]
             \/ \E f \in ManifestSet : question = [of |-> "manifest", about |-> f]
             \/ \E c \in Changes : question = [of |-> "setting", about |-> c]
             \/ \E x \in Executables : question = [of |-> "uninstaller", about |-> x]
          /\ rows = <<>> /\ scan = NoScan /\ retry = NoRetry /\ NoPremises
       \/ /\ question = [of |-> "directories"]
          /\ rows \in Tables /\ scan = NoScan /\ retry = NoRetry /\ NoPremises
       \/ /\ question = [of |-> "retry"]
          /\ \E plan \in Plans : retry = Fresh(plan)
          /\ rows = <<>> /\ scan = NoScan /\ NoPremises
       \/ /\ question = [of |-> "premises"]
          /\ rows = <<>> /\ scan = NoScan /\ retry = NoRetry /\ PremisesInit

AnswerInstaller ==
    /\ Asked("installer") /\ answer = NoAnswer
    /\ LET installers == question.about[1]
           host       == question.about[2]
       IN answer' = IF Selectable(installers, host)
                    THEN [is |-> "installer", installer |-> SelectInstaller(installers, host)]
                    ELSE [is |-> "refused"]
    /\ UNCHANGED <<question, rows, scan, retry, premises>>

\* At the install, and again when repair looks at the committed journal.
AnswerCommands ==
    /\ Asked("commands") /\ answer = NoAnswer
    /\ LET committed == ResolveCommandExposure(question.about[1])
           current   == ResolveCommandExposure(question.about[2])
       IN answer' = [is |-> "commands", committed |-> committed, current |-> current,
                     status |-> CommandStatus(committed, current)]
    /\ UNCHANGED <<question, rows, scan, retry, premises>>

AnswerVersion ==
    /\ Asked("version") /\ answer = NoAnswer
    /\ LET row == LatestRow(question.about)
       IN answer' = [is |-> "version", row |-> row, written |-> ParseLossy(row.version)]
    /\ UNCHANGED <<question, rows, scan, retry, premises>>

AnswerManifest ==
    /\ Asked("manifest") /\ answer = NoAnswer
    /\ answer' = IF Skipped(question.about) THEN [is |-> "skipped"]
                 ELSE [is |-> "installers", installers |-> WrittenInstallers(question.about)]
    /\ UNCHANGED <<question, rows, scan, retry, premises>>

\* config set or unset, and then config get of the same key.
AnswerSetting ==
    /\ Asked("setting") /\ answer = NoAnswer
    /\ LET c       == question.about
           env     == CaptureEnv(c.variables)
           outcome == IF ~Loads(c.file) THEN Refusal("malformed file", {})
                      ELSE IF c.set THEN SetValue(Load(c.file), env, c.typed, c.value)
                      ELSE UnsetValue(Load(c.file), env, c.typed)
           after   == IF Accepted(outcome) THEN outcome ELSE c.file
       IN answer' = [is |-> "setting", outcome |-> outcome, after |-> after,
                     shown |-> IF Accepted(outcome) THEN EffectiveSections(Load(after), env) ELSE <<>>]
    /\ UNCHANGED <<question, rows, scan, retry, premises>>

\* The installer goes where it is told to, or to its own place, and publishes that
\* or nothing; later the program is run that was found then.
AnswerUninstaller ==
    /\ Asked("uninstaller") /\ answer = NoAnswer
    /\ LET x        == question.about
           args     == BuildInstallArgs(x.installer, x.dir)
           told     == {a.value : a \in {a \in Range(args) : a.assigned /\ a.name \in Range(DirSwitch)}}
           location == IF ~x.published THEN <<>> ELSE IF told = {} THEN x.place
                       ELSE CHOOSE d \in told : TRUE
           entry    == [key |-> x.app, display |-> x.app, location |-> location,
                        quiet |-> x.quiet, plain |-> x.plain]
           captured == CaptureNativeExeMetadata([x.registry EXCEPT ![x.hive] = Append(@, entry)],
                                                x.app, x.dir)
       IN answer' = IF ~ValidInstallDir(x.dir) \/ ~ValidPackageName(x.app) \/ ArgsRefused(x.installer)
                    THEN [is |-> "refused"]
                    ELSE [is |-> "uninstaller", location |-> location,
                          runs |-> RunUninstallCommand(x.files, captured)]
    /\ UNCHANGED <<question, rows, scan, retry, premises>>

Scan == Asked("directories") /\ ScanStep /\ UNCHANGED <<question, answer, retry, premises>>
Try  == Asked("retry") /\ RetryStep /\ UNCHANGED <<question, answer, rows, scan, premises>>
Use  == Asked("premises") /\ PremisesStep /\ UNCHANGED <<question, answer, rows, scan, retry>>

Next ==
    \/ AnswerInstaller \/ AnswerCommands \/ AnswerVersion \/ AnswerManifest
    \/ AnswerSetting \/ AnswerUninstaller
    \/ Scan \/ Try \/ Use

Spec == Init /\ [][Next]_vars

--------------------------------------------------------------------------------

\* How far an installer is from the host's own: an elevated host would rather have
\* a machine installer than its own architecture, and that than a neutral one.
Distance(installer, host) ==
    (IF host.elevated /\ installer.scope # "machine" THEN 3 ELSE 0)
      + (IF installer.arch = host.arch THEN 0 ELSE IF installer.arch = "any" THEN 1 ELSE 2)

Compatible(installer, host) == PlatformMatches(installer, host) /\ ScopeMatches(installer, host)

\* A host is refused exactly when no installer suits its platform and rights;
\* otherwise it gets the first of those that are nearest to it, and elevation
\* never costs a host what it could install without.
SelectionIsBest ==
    Asked("installer") /\ answer # NoAnswer =>
      LET installers == question.about[1]
          host       == question.about[2]
          Suits(n)   == Compatible(installers[n], host)
      IN IF answer.is = "refused"
         THEN \A n \in DOMAIN installers :
                 ~Suits(n) /\ ~Compatible(installers[n], [host EXCEPT !.elevated = FALSE])
         ELSE \E n \in DOMAIN installers :
                 /\ answer.installer = installers[n] /\ Suits(n)
                 /\ \A m \in DOMAIN installers : Suits(m) =>
                       \/ Distance(installers[n], host) < Distance(installers[m], host)
                       \/ /\ Distance(installers[n], host) = Distance(installers[m], host)
                          /\ n <= m

\* The names in a catalog entry's lists, as a set and in lower case.
Spelling(raw) == {Folded(NameOf(raw.texts[n])) : n \in DOMAIN raw.texts}

\* Every exposed command is a safe file name, no two of them differ in case only,
\* and each is one that the entry names.  A decision that repair calls fresh is
\* the one it would make today, up to case; and a catalog that only spells or
\* orders the same commands differently is never called stale.
ExposureIsSafe ==
    Asked("commands") /\ answer # NoAnswer =>
      LET before == question.about[1]
          after  == question.about[2]
      IN /\ answer.committed.is = "resolved" =>
              /\ answer.committed.commands # {}
              /\ \A n \in answer.committed.commands :
                    /\ SafeName(n)
                    /\ \A m \in answer.committed.commands : Folded(m) = Folded(n) => m = n
                    /\ Folded(n) \in Spelling(before.package) \union Spelling(before.installer)
                                       \union Spelling([texts |-> [k \in DOMAIN before.bin.texts |->
                                                                    BinName(before.bin.texts[k])]])
         /\ answer.status = "fresh" =>
              /\ FoldedAll(answer.committed.commands) = FoldedAll(answer.current.commands)
              /\ answer.committed.source = answer.current.source
         /\ (/\ before.bin = after.bin /\ before.identity = after.identity
             /\ Spelling(before.package) = Spelling(after.package)
             /\ Spelling(before.installer) = Spelling(after.installer))
              => answer.status # "stale"

\* The two orders part on a version that begins with a word, and on one that is
\* semantic as it stands and has numbers alone after "-", a text after "+", or
\* identifiers that another separator than "." parts.
OneOrder(version) ==
    LET tokens == version.tokens
    IN /\ StartsWithDigit(tokens[1])
       /\ Semantic(version) /\ Len(tokens) > 3 =>
             /\ tokens[4].sep = "-" <=> \E i \in 4..Len(tokens) : ~AllDigits(tokens[i])
             /\ \A i \in 5..Len(tokens) : tokens[i].sep = "."

\* They part, too, on words whose order changes in lower case.
SpelledAlike(left, right) ==
    \A i \in DOMAIN left.tokens, j \in DOMAIN right.tokens :
       LET w == left.tokens[i].w
           v == right.tokens[j].w
       IN Sign(ToLower[w] - ToLower[v]) = Sign(w - v)

\* Whatever the order of the index, the crawler takes one and the same row of an
\* id, and none of the others is newer: by the crawler's own comparison, and by
\* the order of the versions that the parser would write for them, unless the two
\* orders part on their spelling.
LatestIsWritten ==
    Asked("version") /\ answer # NoAnswer =>
      \A n \in DOMAIN question.about :
        LET row   == question.about[n]
            order == CompareWingetVersions(row.version, answer.row.version)
        IN /\ order < 0 \/ (order = 0 /\ row.rowid <= answer.row.rowid)
           /\ (/\ OneOrder(row.version) /\ OneOrder(answer.row.version)
               /\ SpelledAlike(row.version, answer.row.version)) =>
                CompareSemver(ParseLossy(row.version), answer.written) <= 0

\* A package is skipped, or the catalog has one row for every installer that its
\* manifest tells apart, with all the commands that any of its entries has and
\* no others, whatever the order of the entries.
InstallersAreMerged ==
    Asked("manifest") /\ answer # NoAnswer /\ answer.is = "installers" =>
      LET manifest == question.about
          entries  == ResolvedInstallers(manifest)
      IN /\ {CanonicalKey(i) : i \in answer.installers} = {CanonicalKey(i) : i \in ToSet(entries)}
         /\ \A i, j \in answer.installers : CanonicalKey(i) = CanonicalKey(j) => i = j
         /\ \A i \in answer.installers :
               i.commands = UNION {entries[n].commands :
                                     n \in {n \in DOMAIN entries :
                                              CanonicalKey(entries[n]) = CanonicalKey(i)}}
         /\ answer.installers =
               WrittenInstallers([manifest EXCEPT !.installers = Reverse(@)])

\* A change is refused exactly when the file does not parse, the key is not one as
\* it stands, or the value is not one of the key's, and then nothing is written; a
\* suggestion is a key.  Otherwise no other key has another value, however the
\* environment overrides it; what the key shows is the environment's value, or the
\* new one; and what is shown of the file can be set again and changes nothing.
OneSettingAtATime ==
    Asked("setting") /\ answer # NoAnswer =>
      LET c      == question.about
          env    == CaptureEnv(c.variables)
          key    == TypedKey(c.typed)
          before == Load(c.file)
          after  == Load(answer.after)
          shown  == answer.shown
          Own(k) == [section |-> k[1], name |-> k[2], upper |-> FALSE]
          wanted == IF c.set THEN ParsedValue(key, c.value) ELSE DefaultConfig[key]
      IN IF ~Accepted(answer.outcome)
         THEN /\ answer.after = c.file
              /\ \/ ~Loads(c.file) \/ c.typed.upper \/ key \notin KEYS
                 \/ c.set /\ (c.value = <<>> \/ ~ValidateConfigValue(key, c.value))
              /\ \A k \in answer.outcome.suggested : Known(Own(k))
         ELSE /\ Loads(c.file) /\ ~c.typed.upper /\ key \in KEYS
              /\ c.set => c.value # <<>> /\ ValidateConfigValue(key, c.value)
              /\ \A k \in KEYS \ {key} : after[k] = before[k]
              /\ IF key \in DOMAIN env THEN shown[key] = [value |-> env[key], source |-> "env"]
                 ELSE shown[key] = [value |-> EntryValue([before EXCEPT ![key] = wanted], key),
                                    source |-> "file"]
              /\ \A k \in KEYS : shown[k].source = "file" =>
                    SetValue(after, env, Own(k), shown[k].value) = answer.after

ReadsWell(command, size) == SplitSwitches(command.open # {}, Arguments(command.words, size))

\* An executable package that went where it was told to, and says so, is never
\* removed with the program of another application of its name; and it is removed
\* with its own unless several others leave the registry's entries ambiguous, or a
\* quote of its command stays open or two of its arguments have one signature.
OwnCommandRuns ==
    Asked("uninstaller") /\ answer # NoAnswer =>
      LET x == question.about
      IN answer.is = "uninstaller" /\ answer.location = x.dir
           /\ (Told(x.quiet) \/ Told(x.plain)) /\ x.program \in x.files =>
             /\ answer.runs \in {<<>>, x.program}
             /\ Len(UninstallRoots(x.registry)) < 2 /\ ReadsWell(UninstallCommand(x), Len(x.program)) =>
                   answer.runs = x.program
================================================================================
