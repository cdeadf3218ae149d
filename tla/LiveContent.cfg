CONSTANTS
  Filters = {}
  DefaultRoot <- MCDefaultRoot
  WindowsDir <- MCWindowsDir
  UserFonts <- MCUserFonts
  Catalogs <- MCCatalogs
  Settable <- MCSettable
  Environments <- MCEnvironments
  Locations <- MCLocations
  MaxRows = 2
SPECIFICATION PremisesSpec
PROPERTIES LiveContentStays
