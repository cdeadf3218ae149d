-------------------------------- MODULE MCRules --------------------------------
EXTENDS Rules, MCPremises

CONSTANTS tool, edit, root, bin, lib, exe, here, there

\* Any list of up to three installers, on a desktop or a server, elevated or not.
MCInstallers == [arch : {"x64", "any", "arm64"}, scope : {"user", "machine"},
                 platform : {{AnyHost}, {"windows.server"}}]
MCHosts == [arch : {"x64"}, server : BOOLEAN, elevated : BOOLEAN]
MCSelections == (UNION {[1..n -> MCInstallers] : n \in 0..3}) \X MCHosts

Text(stem, dotted, upper) == [dir |-> FALSE, stem |-> stem, dotted |-> dotted, upper |-> upper]
Texts == {Text(tool, FALSE, TRUE), Text(tool, FALSE, FALSE), Text(edit, TRUE, FALSE),
          Text(Marker, FALSE, FALSE)}
Raw(json, texts) == [json |-> json, texts |-> texts]

MCLists == {Raw("absent", <<>>), Raw("malformed", <<>>), Raw("array", <<>>)}
             \union {Raw("array", <<t>>) : t \in Texts}
             \union {Raw("array", <<t, u>>) : t, u \in Texts}
MCFewLists == {Raw("absent", <<>>), Raw("array", <<Text(edit, TRUE, TRUE)>>)}
MCBins == {Raw("absent", <<>>), Raw("blank", <<>>), Raw("malformed", <<>>), Raw("other", <<>>),
           Raw("string", <<Text(edit, TRUE, FALSE)>>),
           Raw("array", <<Text(tool, TRUE, TRUE), Text(Nothing, TRUE, FALSE)>>)}
MCEntries == [package : MCLists, installer : MCFewLists, bin : MCBins, identity : {"same"}]

\* What changes between the install and the repair: one of the three fields.
MCExposures ==
    {<<e, [e EXCEPT !.package = l]>> : e \in MCEntries, l \in MCLists}
      \union {<<e, [e EXCEPT !.installer = l]>> : e \in MCEntries, l \in MCFewLists}
      \union {<<e, [e EXCEPT !.bin = b]>> : e \in MCEntries, b \in MCBins}

\* Every table over two or three directories, a parent that has no row included.
MCTables ==
    UNION {[D -> DirectoryRows] :
              D \in {{root, bin}, {root, bin, lib}}}

\* More attempts than a duration has bits, a base that does not divide the cap,
\* deadlines that a delay reaches or misses.
MCPlans == [max : {0, 3, 9}, base : {0, 1, 3}, deadline : {None, 0, 4, 20}]

\* One core with every kind of ending, two shorter cores, words in front and in between;
\* of three words one is another in capitals, and the third is between the two.
MCWords   == 1..3
MCRC      == 1
MCBeta    == 2
MCRc      == 3
MCToLower == [w \in 0..3 |-> IF w = MCRC THEN MCRc ELSE w]
Token(sep, n, w) == [n |-> n, w |-> w, sep |-> sep]
Number(n)        == Token(".", n, 0)
Spelled(sep, w)  == Token(sep, -1, w)
Version(prefixed, tokens) == [prefixed |-> prefixed, tokens |-> tokens]
MCEndings ==
    {<<>>} \union {<<Token(s, 4, 0)>> : s \in {".", "-", "+"}}
      \union {<<Spelled(s, MCRc)>> : s \in {".", "-", "+", "other"}}
      \union {<<Spelled("-", w)>> : w \in {MCRC, MCBeta}}
      \union {<<Spelled("-", MCRc), Token(s, n, 0)>> : s \in {".", "-"}, n \in {2, 10}}
      \union {<<Token("-", 2, MCRc)>>, <<Token("-", 10, MCRc)>>, <<Number(4), Spelled(".", MCBeta)>>,
              <<Spelled("-", MCRc), Token("+", 5, 0)>>}
MCVersions ==
    {Version(FALSE, <<Number(1), Number(2), Number(3)>> \o e) : e \in MCEndings}
      \union {Version(TRUE, <<Number(1), Number(2)>>),
              Version(FALSE, <<Number(1), Number(2), Token(".", 3, MCRc)>>),
              Version(FALSE, <<Number(1), Spelled(".", MCRc), Number(2)>>),
              Version(FALSE, <<Spelled(".", MCRc), Token("-", 9, 0)>>)}

\* One row, or any three in either order of their rowids.
MCListings ==
    {<<[version |-> v, rowid |-> 1]>> : v \in MCVersions}
      \union {[n \in 1..3 |-> [version |-> t[n], rowid |-> IF up THEN n ELSE 3 - n]] :
                 t \in [1..3 -> MCVersions], up \in BOOLEAN}

\* Installers that say everything, or leave something to the manifest.
Own(url, scope, loud, quiet, commands) ==
    [type |-> exe, url |-> url, scope |-> scope, switches |-> <<loud, quiet>>, commands |-> commands]
MCOwn == {Own(u, sc, Blank, q, c) : u \in {here, there}, sc \in {Blank, "user"}, q \in {Blank, "/S"},
                                   c \in {<<tool>>, <<Blank, edit>>}}
           \union {Own(Blank, "global", "/q", Blank, <<>>), Own(Blank, Blank, "/q", Blank, <<>>)}
MCDefaults == {Own(u, sc, loud, Blank, c) : u \in {Blank, here}, sc \in {Blank, "user"},
                                           loud \in {Blank, "/q"}, c \in {<<>>, <<tool, edit>>}}
MCFiles == [layout : {"singleton", "version", "other"}, locale : BOOLEAN, installer : BOOLEAN,
            named : BOOLEAN]
MCSingle == [layout |-> "singleton", locale |-> FALSE, installer |-> FALSE, named |-> TRUE]
MCManifests ==
    [files : {MCSingle},
     defaults : MCDefaults \union {[d EXCEPT !.type = Blank] : d \in MCDefaults},
     installers : {<<>>} \union UNION {[1..n -> MCOwn] : n \in 1..2}]
      \union [files : {MCSingle}, defaults : {Own(here, Blank, Blank, Blank, <<tool>>)},
              installers : [1..3 -> MCOwn]]
      \union [files : MCFiles, defaults : MCDefaults, installers : {<<>>}]

\* Files that are missing, do not parse, or have every value or a few of them; keys
\* of every kind as they are, in the wrong case, without a section, or unknown.
MCFilters == {Just("info"), Just("debug"), Just("debug,winbrew::core=trace")}
MCLog     == <<"core", "log_level">>
MCYes     == <<"core", "default_yes">>
MCFilesOf == {Missing, Malformed, Saved(<<>>), Saved(MCYes :> TRUE), Saved(DefaultConfig),
              Saved((MCLog :> Just("debug")) @@ (PathsRoot :> MCOtherRoot))}
MCVariables == {<<>>, PathsRoot :> MCOtherRoot, (PathsRoot :> <<>>) @@ (MCYes :> Just("ON")),
                (MCYes :> Just("on")) @@ (MCLog :> Just("warn")) @@ (<<"core", "nothing">> :> Just("x"))}
MCTyped == {[section |-> k[1], name |-> k[2], upper |-> u] :
              k \in {MCYes, MCLog, PathsRoot, <<"paths", "data">>}, u \in BOOLEAN}
             \union {[section |-> s, name |-> n, upper |-> FALSE] :
                       s \in {"", "core"}, n \in {"", "default_yes", "nothing"}}
MCValues == {<<>>, Just("on"), Just("0"), Just("info"), MCOtherRoot}
MCChanges == [file : MCFilesOf, variables : MCVariables, typed : MCTyped, value : MCValues,
              set : BOOLEAN]

\* An application whose program's path has a space, alone or among entries of its
\* own name or a longer one, in each of the lists; the beginning of its path may be
\* a file, too.
MCDir     == <<<<"c:">>, <<"winbrew">>, <<"packages">>, <<"app">>>>
MCProgram == <<Flag("c:/my"), Flag("apps/uninstall")>>
Command(words, quoted) == [words |-> words, quoted |-> quoted, open |-> {}]
NoCommand == Command(<<>>, 0)
Other     == Command(<<Flag("other")>>, 0)
MCRests == {<<>>, <<Flag("-y")>>, <<Assign("-log", <<"a">>), Assign("-log", <<"b">>)>>,
            <<Assign("-log", <<"a">>), Flag("-log")>>}
MCOwnCommands ==
    {NoCommand} \union {Command(MCProgram \o r, q) : r \in MCRests, q \in {0, 2}}
      \union {[Command(MCProgram \o <<Flag("-y")>>, q) EXCEPT !.open = o] :
                 q \in {0, 2}, o \in {{1}, {1, 2, 3}}}
Entry(display, location, quiet, plain) ==
    [key |-> <<"other">>, display |-> display, location |-> location, quiet |-> quiet, plain |-> plain]
MCOthers == {Entry(<<"app">>, <<>>, Other, NoCommand),
             Entry(<<"app">>, <<>>, Other, Other), Entry(<<"app">>, MCOtherRoot, Other, Other),
             Entry(<<"app", "two">>, MCDir, Other, Other)}
Registered(machine, wow, user) == [machine |-> machine, wow |-> wow, user |-> user]
MCRegistries == {Registered(<<>>, <<>>, <<>>)} \union {Registered(<<e>>, <<>>, <<>>) : e \in MCOthers}
                  \union {Registered(<<e>>, <<>>, <<f>>) : e, f \in MCOthers}
Switch(kind, open, args) == [kind |-> kind, switches |-> [open |-> open, args |-> args]]
MCInstallers2 == {Switch("exe", FALSE, <<>>), Switch("exe", FALSE, <<Flag("/q")>>),
                  Switch("exe", FALSE, <<Assign("/dir", MCDir)>>), Switch("inno", FALSE, <<>>),
                  Switch("inno", FALSE, <<Assign("/dir", MCOtherRoot), Flag("/sp-")>>),
                  Switch("inno", TRUE, <<>>), Switch("nullsoft", FALSE, <<Flag("/s"), Flag("/s")>>),
                  Switch("nullsoft", FALSE, <<Flag("/d")>>), Switch("burn", FALSE, <<Flag("/quiet")>>)}
MCExecutables ==
    [app : {<<"app">>}, dir : {MCDir}, installer : MCInstallers2, place : {MCOtherRoot},
     published : BOOLEAN, hive : {"machine", "wow"}, quiet : MCOwnCommands,
     plain : {NoCommand, Command(MCProgram, 0)}, program : {MCProgram}, registry : MCRegistries,
     files : {{MCProgram, Other.words}, {MCProgram, Other.words, <<Flag("c:/my")>>},
              {<<Flag("c:/my")>>}}]
================================================================================
