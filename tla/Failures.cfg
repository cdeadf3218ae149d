\* One command at a time; every class of failure; an upgrade.
CONSTANTS
  None = None
  Partial = Partial
  Procs = {c1}
  Packages = {p}
  Versions = {v1, v2}
  Commands = {x}
  Native = {}
  TwoFaced = {}
  Later = {v2}
  Added = {y}
  Exposes <- MCExposes
  Manifest <- MCManifest
  Probe <- MCProbe
  Faults = {"crash", "db", "read", "fs", "journal", "journal_read"}
  MaxLines = 2
SPECIFICATION Spec
INVARIANTS TypeOK JournalTrail
PROPERTIES WriteAheadLog InstalledUntilRemoved
