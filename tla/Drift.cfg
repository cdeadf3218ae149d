\* Two entries of one name and one that resembles it; two changes.
CONSTANTS
  None = None
  Cut = Cut
  tool = tool
  helper = helper
  tool1 = tool1
  tool2 = tool2
  helper1 = helper1
  Packages = {tool, helper}
  Entries = {tool1, tool2, helper1}
  Name <- MCName
  Versions = {1, 2}
  Files = {f1, f2}
  Engines <- MCEngines
  Elsewhere = {tool2}
  Entered = {helper}
  Lookalikes <- MCLookalikes
  Withdrawable = {helper1}
  MaxChanges = 2
SPECIFICATION FairSpec
INVARIANTS FilesAreTheirRows RepairHeals
PROPERTIES RepairsOnlyReported HighRiskNeedsConsent EveryRepairEnds
