\* Three catalogs; two failures, of workflow runs or of refreshes.
CONSTANTS
  MaxBuild = 3
  MaxFailures = 2
SPECIFICATION Spec
INVARIANTS AnnouncedIsAvailable SwapsOneRelease CurrentIsTrue
PROPERTIES ClientsCatchUp
