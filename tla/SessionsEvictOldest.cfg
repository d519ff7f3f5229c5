SPECIFICATION SessSpec
CONSTANTS
  Slots = 3
  Timeouts = {0, 3}
  Wrap = 7
  Horizon = 3
PROPERTIES AlwaysEvictsOldest
