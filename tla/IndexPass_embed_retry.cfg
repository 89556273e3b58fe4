SPECIFICATION FairSpec
CONSTANTS
  f1 = f1
  f2 = f2
  NoFile = NoFile
  Blank = Blank
  Chunkless = Chunkless
  NoEntry = NoEntry
  NoManifest = NoManifest
  Files <- OneFile
  Parts <- TwoParts
  Backend = "lance"
  WindowSize = 1
  Edits = {"write"}
  Faults = {"embed"}
  MaxMtime = 2
  MaxFaults = 1
PROPERTIES EventuallyIndexed
