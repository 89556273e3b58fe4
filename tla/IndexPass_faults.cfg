SPECIFICATION Spec
CONSTANTS
  f1 = f1
  f2 = f2
  NoFile = NoFile
  Blank = Blank
  Chunkless = Chunkless
  NoEntry = NoEntry
  NoManifest = NoManifest
  Files <- TwoFiles
  Parts <- TwoParts
  Backend = "lance"
  WindowSize = 2
  Edits = {"write", "touch", "delete"}
  Faults = {"crash", "abort", "embed", "chunk", "extract", "provider", "race", "loseRows", "promote", "force", "countTimeout", "noDimension"}
  MaxMtime = 2
  MaxFaults = 2
SYMMETRY Symmetric
INVARIANTS RecordedFilesAreComplete
PROPERTIES GoodFilesKeepTheirRows RebuildLeavesIndexAlone
