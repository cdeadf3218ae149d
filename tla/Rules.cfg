\* One rule at a time, each over the whole of its small instance; a rule stops
\* with its answer.
CONSTANTS
  None = None
  Marker = Marker
  Nothing = Nothing
  Unset = Unset
  Top = Top
  tool = tool
  edit = edit
  root = root
  bin = bin
  lib = lib
  Selections <- MCSelections
  Exposures <- MCExposures
  Tables <- MCTables
  Listings <- MCListings
  Words <- MCWords
  ToLower <- MCToLower
  ManifestSet <- MCManifests
  Blank = Blank
  Switches = {1, 2}
  exe = exe
  here = here
  there = there
  Directories = {root, bin, lib}
  Plans <- MCPlans
  Durations = {0, 5}
  Cap = 30
  Width = 8
  Tracked = 4
  Changes <- MCChanges
  Executables <- MCExecutables
  Filters <- MCFilters
  DefaultRoot <- MCDefaultRoot
  WindowsDir <- MCWindowsDir
  UserFonts <- MCUserFonts
  Catalogs <- MCCatalogs
  Settable <- MCSettable
  Environments <- MCEnvironments
  Locations <- MCLocations
  MaxRows = 2
SPECIFICATION Spec
INVARIANTS SelectionIsBest ExposureIsSafe DirectoriesResolve LatestIsWritten InstallersAreMerged
INVARIANTS OneSettingAtATime NothingIsLeftBehind OwnCommandRuns
PROPERTIES RetryBacksOff
CHECK_DEADLOCK FALSE
