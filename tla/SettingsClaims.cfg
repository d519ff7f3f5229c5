SPECIFICATION SetSpec
CONSTANTS
  Values = {0, 1, 2}
  Off = 0
  Omitted = Omitted
INVARIANTS AppliedMeansApplied
PROPERTIES UntouchedFieldStays
