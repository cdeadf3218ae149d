\* A patch meets the client it was made for.
CONSTANTS
  MaxBuild = 2
  MaxFailures = 0
SPECIFICATION Spec
INVARIANTS PatchesCanBeApplied
