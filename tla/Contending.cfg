\* Two processes on two packages that expose the same command.
CONSTANTS
  None = None
  Partial = Partial
  Procs = {c1, c2}
  Packages = {p, q}
  Versions = {v1}
  Commands = {x}
  Native = {p, q}
  TwoFaced = {}
  Later = {v2}
  Added = {y}
  Exposes <- MCExposes
  Manifest <- MCManifest
  Probe <- MCProbe
  Faults = {}
  MaxLines = 2
SYMMETRY Symmetry
SPECIFICATION Spec
INVARIANTS OwnersWereInstalled
PROPERTIES CommandsAreNotStolen
