------------------------------- MODULE MCPayload -------------------------------
EXTENDS Payload

Installer(kind, suffix, hash, scope) ==
    [kind |-> kind, suffix |-> suffix, hash |-> hash, arch |-> "x64", scope |-> scope,
     platform |-> {AnyHost}]

\* A raw file, archives whose URLs say so or do not, and a native installer.
MCOffers ==
    {<<Installer("portable", "raw", "sha256", "generic")>>,
     <<Installer("portable", "sevenzip", "md5", "user")>>,
     <<Installer("zip", "raw", NoHash, "generic"), Installer("msi", "raw", "sha1", "machine")>>}

MCHosts ==
    {[arch |-> "x64", server |-> FALSE, elevated |-> e] : e \in BOOLEAN}
================================================================================
