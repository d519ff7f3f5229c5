SPECIFICATION Spec
CONSTANTS
  Serial = FALSE
  Duration = 2
  Poll = 2
  Word = 100
  Horizon = 4
INVARIANTS PinShowsIntent
