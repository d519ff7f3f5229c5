SPECIFICATION RunsSpec
CONSTANTS
  Modes = {"OFF", "HEAT_COOL", "FAN_ONLY"}
  Temps = {0, 3, 6}
  HeatSetpoints = {2}
  CoolSetpoints = {1, 4}
  Deadband = 1
  Overrun = 1
  MinOn = 1
  MinOff = 1
  MaxRun = 2
  EscDelay = 1
  FanWait = 0
  FanRun = 0
  Stale = 1
  FlagValues = {FALSE}
  FanIdleValues = {FALSE, TRUE}
  InputValues = {FALSE, TRUE}
  Overridable = {}
INVARIANTS
  CoolRunDrivesItsLevel
PROPERTIES
  ImplementsRunCycle
