SPECIFICATION Spec
CONSTANTS
  Modes <- MCModes
  StartModes = {1}
  Counts = {0, 1, 5}
  MaxDevices = 5
  HeaderSize = 2
  LogBuffer = 7
  MostAdapters = 5
  Names <- MCNames
  OwnPaths <- MCOwnPaths
  MaxPath = 6
  MaxNodes = 3
INVARIANT
  EitherSeparatorWillDo
