------------------------------- MODULE MCPremises -------------------------------
EXTENDS Premises

MCDefaultRoot == <<<<"c:">>, <<"winbrew">>>>
MCOtherRoot   == <<<<"d:">>, <<"winbrew">>>>
MCWindowsDir  == <<<<"c:">>, <<"windows">>>>
MCUserFonts   == <<<<"c:">>, <<"local">>, <<"fonts">>>>

\* A staged package whose name in the catalog is not a file name, a Windows
\* Installer package, two fonts of one registry value, and an MSIX package that is
\* named like its family, or like nothing that Windows knows.
NoIdentity == [name |-> <<>>, family |-> <<>>, full |-> <<>>]
NoFont     == [stem |-> "", extension |-> ""]
Package(name, kind, file, identity) ==
    [name |-> name, kind |-> kind, file |-> file, identity |-> identity]
Font(extension) == [stem |-> "mono", extension |-> extension]
Identity == [name |-> <<"notes">>, family |-> <<"notes", "_x">>, full |-> <<"notes", "_1_x">>]

Suite == Package(<<"amd", ":", "cloud">>, "staged", NoFont, NoIdentity)
App   == Package(<<"app">>, "msi", NoFont, NoIdentity)
Mono  == Package(<<"mono">>, "font", Font("ttf"), NoIdentity)
Monos == Package(<<"monos">>, "font", Font("ttc"), NoIdentity)
Notes == Package(<<"notes", "_x">>, "msix", NoFont, Identity)
Diary == Package(<<"my", "diary">>, "msix", NoFont, Identity)
MCCatalogs == {{Suite, App}, {Mono, Monos}, {Suite, Notes}, {Diary}}

\* Nowhere, somewhere else, or a place that no package may have.
MCLocations == {<<>>, <<<<"c:">>, <<"programs">>, <<"app">>>>, Append(MCWindowsDir, <<"app">>)}

Typed(section, name) == [section |-> section, name |-> name, upper |-> FALSE]
MCSettable == {<<Typed("paths", "data"), <<<<"e:">>, <<"state">>>>>>}

PathsRoot == <<"paths", "root">>
MCEnvironments == {<<>>, PathsRoot :> MCOtherRoot}
================================================================================
