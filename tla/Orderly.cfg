\* One command at a time; nothing fails but downloads, engines and users.
CONSTANTS
  None = None
  Partial = Partial
  Procs = {c1}
  Packages = {p, q}
  Versions = {v1, v2}
  Commands = {x, y}
  Native = {}
  TwoFaced = {p}
  Later = {v2}
  Added = {y}
  Exposes <- MCExposes
  Manifest <- MCManifest
  Probe <- MCProbe
  Faults = {}
  MaxLines = 2
SPECIFICATION Spec
INVARIANTS Settled NoStaleRows
