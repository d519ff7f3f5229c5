SPECIFICATION FairSpec
CONSTANTS
  Modes = {"OFF", "HEAT"}
  Threshold = 2
  BootStableMs = 1
  RebootStableMs = 2
  SavePeriod = 2
  MaxResets = 3
PROPERTIES HttpsRebootHappens
