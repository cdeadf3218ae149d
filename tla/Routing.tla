-------------------------------- MODULE Routing --------------------------------
(***************************************************************************)
(* From a downloaded payload to the engine that installs it: what the URL  *)
(* says, what the bytes say, and which one counts where (payload.rs,       *)
(* registry.rs, archive/install.rs, download.rs, sevenz.rs).               *)
(***************************************************************************)
EXTENDS Naturals, FiniteSetsExt

Unsupported == "unsupported"
NoHash == "none"

Archives == {"zip", "tar", "gzip", "sevenzip", "rar"}

\* What the last segment of a URL ends in; what a payload's bytes are.
UrlKinds == Archives \union {"cab", "raw"}
Forms == Archives \union {"msi", "msix", "cab", "raw"}

WindowsPackages == {"msix", "appx"}
MsiFamily == {"msi", "wix"}
NativeExeFamily == {"exe", "inno", "nullsoft", "burn"}
InstallerTypes ==
    WindowsPackages \union MsiFamily \union NativeExeFamily
      \union {"font", "portable", "zip", "pwa"}

\* Engines in the order in which they are asked.
EngineOrder == <<"msi", "msix", "nativeexe", "font", "zip", "portable">>

MatchesInstaller(engine, kind, suffix) ==
    CASE engine = "msi"       -> kind \in MsiFamily
      [] engine = "msix"      -> kind \in WindowsPackages
      [] engine = "nativeexe" -> kind \in NativeExeFamily
      [] engine = "font"      -> kind = "font"
      [] engine = "zip"       -> kind = "zip" \/ suffix \in Archives
      [] engine = "portable"  -> kind = "portable" /\ suffix = "raw"

\* The first engine that matches; a cabinet, and what none matches, is an error.
EngineFor(kind, suffix) ==
    LET matching == {n \in DOMAIN EngineOrder :
                        MatchesInstaller(EngineOrder[n], kind, suffix)}
    IN IF suffix = "cab" \/ matching = {} THEN Unsupported ELSE EngineOrder[Min(matching)]

\* Mutant: only Windows installers are recognised by their bytes.
ProbedInstaller(kind, form) ==
    IF kind \notin WindowsPackages /\ form \in {"msi", "msix"} THEN form ELSE kind

\* The installer type after the bytes have been probed: Windows packages are
\* not, and a cabinet is an error.
ProbedKind(kind, form) ==
    CASE kind \in WindowsPackages     -> kind
      [] kind \notin WindowsPackages /\ form \in {"msi", "msix"} -> form
      [] kind \notin WindowsPackages /\ form \in Archives -> "zip"
      [] kind \notin WindowsPackages /\ form = "cab" -> Unsupported
      [] OTHER -> kind

\* How the archive engine reads a payload: by its bytes, else by its URL, else as ZIP.
ResolveArchiveKind(form, suffix) ==
    IF form \in Archives THEN form
    ELSE IF suffix \in Archives THEN suffix ELSE "zip"

\* Reading bytes as what they are not fails; an MSIX is a ZIP file; there is no
\* backend for RAR.
Readable(kind, form) ==
    /\ kind # "rar"
    /\ kind = form \/ (kind = "zip" /\ form = "msix")

LegacyAlgorithms == {"md5", "sha1"}

\* Mutant: every legacy algorithm that is tolerated is skipped.
SkipLegacy(installer, ignore) ==
    IF installer.hash = NoHash THEN "unchecked"
    ELSE IF installer.hash \notin LegacyAlgorithms THEN "checked"
    ELSE IF ignore THEN "unchecked" ELSE "refused"

\* An installer without a hash is not verified; a legacy hash is refused unless
\* the user tolerates it, and then MD5 is not computed.
VerifyStrategy(installer, ignore) ==
    IF installer.hash = NoHash THEN "unchecked"
    ELSE IF installer.hash \notin LegacyAlgorithms THEN "checked"
    ELSE IF ~ignore THEN "refused"
    ELSE IF installer.hash = "md5" THEN "unchecked" ELSE "checked"
================================================================================
