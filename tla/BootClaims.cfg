SPECIFICATION Spec
CONSTANTS
  Modes = {"HEAT"}
  Threshold = 3
  BootStableMs = 1
  RebootStableMs = 2
  SavePeriod = 2
  MaxResets = 4
INVARIANTS CrashLoopIsCaught RapidRebootsAreLimited SafeModeKeepsMode
PROPERTIES ForcedSafeModeIsEntered
