SPECIFICATION ClaimsSpec
CONSTANTS
  Modes = {"OFF", "HEAT", "COOL"}
  Temps = {0, 2, 4}
  HeatSetpoints = {2}
  CoolSetpoints = {2}
  Deadband = 1
  Overrun = 1
  MinOn = 1
  MinOff = 1
  MaxRun = 2
  EscDelay = 1
  FanWait = 0
  FanRun = 0
  Stale = 1
  FlagValues = {FALSE}
  FanIdleValues = {FALSE}
  InputValues = {FALSE, TRUE}
  Overridable = {"COMP1"}
INVARIANTS
  OverrideEndsOff
