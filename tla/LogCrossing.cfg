SPECIFICATION LogSpec
CONSTANTS
  MaxSize = 1
  Keeps = {3}
  Depth = 3
  MaxAge = 5
PROPERTIES OnlyFullLogsRotate
