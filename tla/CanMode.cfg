SPECIFICATION CanFairSpec
CONSTANTS
  Setpoints = {68, 72}
  ModeBytes = {0, 1, 7}
  RxMax = 2
INVARIANTS CanModeIsAMode
