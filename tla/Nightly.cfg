\* Three packages of the two sources, and three runs of the workflow.
CONSTANTS
  None = None
  Winget = Winget
  Unlisted = Unlisted
  Refused = Refused
  Ids = {1, 2, 3}
  Contents = {"old", "new", "listed"}
  Trimmed <- MCTrimmed
  Buckets = {"main"}
  Offers <- MCOffers
  Home <- MCHome
  Feeds <- MCFeeds
  MaxRowid = 6
  MaxRuns = 3
SPECIFICATION FairSpec
INVARIANTS WholeCatalog TablesAgree DeltasFollow PatchGivesTheRelease
PROPERTIES BuildEnds
CHECK_DEADLOCK FALSE
