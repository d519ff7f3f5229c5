SPECIFICATION BoardSpec
CONSTANTS
  Modes = {"OFF", "HEAT"}
  Threshold = 2
  BootStableMs = 1
  RebootStableMs = 2
  SavePeriod = 2
  MaxResets = 3
  Networks = {home, shop}
  NoNetwork = NoNetwork
  Fallback = 2
  Serial = TRUE
  Slots = 3
  Timeouts = {0, 2}
  Wrap = 5
  Horizon = 2
  LastSlot = 1
  LastLogin = 3
  Setpoints = {68, 72}
  ModeBytes = {0, 7}
  RxMax = 2
  Half = 32768
  Longest = 2
  ClockWords = 6
INVARIANTS SafeModeMatchesCrashes SavedWithinPeriod ReconnectArmed StaysReachable
           LogoutIsFinal LastCommandRules EchoIsExact FtpWindow
PROPERTIES HttpRebootHappens TestedNetworkIsSaved SessionSurvives ExpiredSessionsEnd EvictsOldest
