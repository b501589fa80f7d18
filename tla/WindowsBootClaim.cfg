SPECIFICATION Spec
CONSTANTS
  h1 = h1
  h2 = h2
  v1 = v1
  v2 = v2
  Handles <- MCHandles
  Volumes = {v1, v2}
  Candidates <- MCCandidates
  Stock = "stock"
  Elsewhere <- MCElsewhere
  Disks <- MCDisks
  BootPaths <- MCBootPaths
  NoHandle = NoHandle
  NoVolume = NoVolume
  NoPath = NoPath
INVARIANTS
  StockIsProvablyNotGpuCheck
