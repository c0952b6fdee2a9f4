SPECIFICATION Spec
CONSTANTS
  Hosts <- MCHosts
  Width = 6
  Restores <- MCRestores
  SgrArgs <- MCSgrArgs
  Colors = {7}
  Texts = {"a"}
  Counts <- MCCounts
  Mods <- MCMods
  MousePlaces <- MCMousePlaces
  Buttons = {1}
  WordBits = 2
  TABSTOP_WORDS = 4
CHECK_DEADLOCK FALSE
INVARIANTS ReportRestores BackupsHold TabsNearest MouseDecodes
PROPERTY ChangesTold
