SPECIFICATION FairSpec
CONSTANTS
  f1 = f1
  f2 = f2
  NoFile = NoFile
  Blank = Blank
  Chunkless = Chunkless
  NoEntry = NoEntry
  NoManifest = NoManifest
  Files <- TwoFiles
  Parts <- TwoParts
  Backend = "lance"
  WindowSize = 1
  Edits = {"write", "delete"}
  Faults = {"provider", "loseManifest", "crash", "loseRows", "corrupt", "mismatch", "describe"}
  MaxMtime = 2
  MaxFaults = 2
INVARIANTS SkippedFilesAreIndexed
PROPERTIES LiveFilesEventuallyIndexed
