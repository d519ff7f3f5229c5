SPECIFICATION TasksSpec
CONSTANTS
  Modes = {"OFF", "HEAT"}
INVARIANTS OffStaysOff
