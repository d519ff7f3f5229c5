SPECIFICATION MeetingSpec
CONSTANTS
  Serial = TRUE
  Duration = 2
  Poll = 2
  Word = 5
  Horizon = 8
  Debounce = 8
  ScanPeriod = 2
  Settle = 1
  InputWord = 16
  Modes = {"OFF", "HEAT", "COOL", "HEAT_COOL", "FAN_ONLY"}
  Stale = 3
  ClockValues = 8
INVARIANTS SettledInputIsConfirmed
PROPERTIES OverrideLastsItsDuration
