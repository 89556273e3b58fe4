SPECIFICATION Spec
CONSTANTS
  f1 = f1
  f2 = f2
  NoFile = NoFile
  Blank = Blank
  Chunkless = Chunkless
  NoEntry = NoEntry
  NoManifest = NoManifest
  Files <- TwoFiles
  Parts <- TwoParts
  Backend = "clickhouse"
  WindowSize = 1
  Edits = {"write", "delete", "blank"}
  Faults = {"crash", "extract", "provider", "chunk", "loseRows", "abort"}
  MaxMtime = 2
  MaxFaults = 2
SYMMETRY Symmetric
PROPERTIES GoodFilesKeepTheirRows
