\* One process and one package, whose installers differ.
CONSTANTS
  None = None
  Procs = {c1}
  Packages = {p}
  Offers <- MCOffers
  Hosts <- MCHosts
  Arriving = {"zip", "sevenzip", "msi", "cab", "raw"}
  System7z = FALSE
SPECIFICATION FairSpec
INVARIANTS PreservesTree RollsBack RuntimeIsWhole VerifiedOrTolerated ArchivesAreUnpacked
PROPERTIES EveryInstallEnds
