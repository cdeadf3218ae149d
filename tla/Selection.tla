------------------------------- MODULE Selection -------------------------------
(***************************************************************************)
(* Which of a package's installers a host gets (catalog/select.rs).  An    *)
(* installer has an architecture, a scope and, possibly, a list of         *)
(* platforms; the catalog's order decides between equals.                  *)
(***************************************************************************)
EXTENDS Sequences, SequencesExt

Architectures == {"x64", "x86", "arm64", "any"}
Scopes == {"user", "machine", "generic"}   \* what a scope text is taken for

\* The platform labels that a host accepts; AnyHost stands for no list at all.
AnyHost == "any"
PlatformTags(host) ==
    {AnyHost} \union
    (IF host.server THEN {"windows.server"}
     ELSE {"windows.desktop", "windows.ltsc", "windows.universal"})

\* A text that is not a list of labels is the empty set and accepts no host.
PlatformMatches(installer, host) ==
    \E tag \in installer.platform : tag \in PlatformTags(host)

ScopeMatches(installer, host) == installer.scope = "machine" => host.elevated

\* The positions of the installers that suit a host, in the catalog's order.
ScopeCompatible(installers, host) ==
    {n \in DOMAIN installers : PlatformMatches(installers[n], host) /\ ScopeMatches(installers[n], host)}

\* An elevated process takes machine installers where there are any.
Preferred(installers, host) ==
    LET compatible == ScopeCompatible(installers, host)
        machine    == {n \in compatible : installers[n].scope = "machine"}
    IN IF host.elevated /\ machine # {} THEN machine ELSE compatible

OfArchitecture(installers, preferred, arch) == {n \in preferred : installers[n].arch = arch}
OrElse(some, others) == IF some # {} THEN some ELSE others

\* Otherwise NoInstallers, PlatformMismatch or ScopeMismatch is reported.
Selectable(installers, host) == ScopeCompatible(installers, host) # {}

\* Mutant: neutral installers come before those of the host's architecture.
SelectNeutral(installers, host) ==
    LET preferred == Preferred(installers, host)
    IN installers[Min(OrElse(OfArchitecture(installers, preferred, "any"),
                      OrElse(OfArchitecture(installers, preferred, host.arch), preferred)))]

\* The host's own architecture, else a neutral installer, else the first.
SelectInstaller(installers, host) ==
    LET preferred == Preferred(installers, host)
    IN installers[Min(OrElse(OfArchitecture(installers, preferred, host.arch),
                      OrElse(OfArchitecture(installers, preferred, "any"), preferred)))]
================================================================================
