SPECIFICATION FairSpec
CONSTANTS
  f1 = f1
  f2 = f2
  NoFile = NoFile
  Blank = Blank
  Chunkless = Chunkless
  NoEntry = NoEntry
  NoManifest = NoManifest
  Files <- TwoFiles
  Parts <- TwoParts
  Backend = "lance"
  WindowSize = 1
  Edits = {"write", "blank", "chunkless", "delete"}
  Faults = {"provider", "extract", "force", "promote"}
  MaxMtime = 2
  MaxFaults = 1

PROPERTIES EventuallyIndexed
