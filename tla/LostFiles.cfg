\* A crash between the journal and the commit, then repair.
CONSTANTS
  None = None
  Partial = Partial
  Procs = {c1}
  Packages = {p}
  Versions = {v1}
  Commands = {x}
  Native = {}
  TwoFaced = {}
  Later = {v2}
  Added = {y}
  Exposes <- MCExposes
  Manifest <- MCManifest
  Probe <- MCProbe
  Faults = {"crash"}
  MaxLines = 2
SPECIFICATION Spec
PROPERTIES ReplayFindsTheFiles
