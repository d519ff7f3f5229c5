SPECIFICATION StorageSpec
CONSTANTS
  Modes = {"off", "heat"}
  OffMode = "off"
  Settings = {"factory", "own"}
  FactorySettings = "factory"
  Credentials = {"home", "shop"}
  Absent = Absent
  Builds = {A, B, C}
  RingMax = 3
  MaxSize = 1
  Keeps = {0, 1, 3}
  Depth = 3
  MaxAge = 5
  Values = {0, 1, 2}
  Off = 0
  Omitted = Omitted
SYMMETRY BuildSymmetry
INVARIANTS MemoryIsOnFlash RunsAsAsked SavedAsAsked BackupIsUsable
           RingHoldsLatest LatestGenerationsKept
