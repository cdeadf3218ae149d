\* Two processes on one package without commands, crashes and journal errors.
CONSTANTS
  None = None
  Partial = Partial
  Procs = {c1, c2}
  Packages = {p}
  Versions = {v1}
  Commands = {}
  Native = {}
  TwoFaced = {}
  Later = {v2}
  Added = {}
  Exposes <- MCExposes
  Manifest <- MCManifest
  Probe <- MCProbe
  Faults = {"crash", "journal", "journal_read"}
  MaxLines = 2
SPECIFICATION FairSpec
INVARIANTS CommitIsExclusive
PROPERTIES CommittedJournalIsFinal EveryCommandEnds
