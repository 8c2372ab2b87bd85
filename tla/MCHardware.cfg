CONSTANTS
  UserThread <- UserThreads
  ByteBits = 2
  NumGPRegs = 5
  PageSize = 8
  CodePages = 3
  DataPages = 1
  Workloads <- SmallWorkloads
  Thread <- Two
  Script <- TwoScripts
  Typed <- Keys
  MaxInt = 32767
  PageChars = 2
  SectorsPerTrack = 3
  NumTracks = 3
  SeekTime = 3
  RotationTime = 2
  MaxTicks = 18
  Machine <- Two
  MaxPackets = 2
  MaxBoots = 3
SPECIFICATION HardwareSpec
INVARIANTS OneCharOnItsWay ScreenShowsText SectorUnderHead PacketsInOrder
PROPERTIES ImplementsIsa PrintsEnd
CHECK_DEADLOCK FALSE
