SPECIFICATION RaceSpec
CONSTANTS
  LastSlot = 1
  LastLogin = 2
INVARIANT TokensAreWhole
