SPECIFICATION Spec
CONSTANTS
  f1 = f1
  f2 = f2
  NoFile = NoFile
  Blank = Blank
  Chunkless = Chunkless
  NoEntry = NoEntry
  NoManifest = NoManifest
  Files <- OneFile
  Parts <- TwoParts
  Backend = "clickhouse"
  WindowSize = 1
  Edits = {"write"}
  Faults = {"force"}
  MaxMtime = 2
  MaxFaults = 1
PROPERTIES RebuildLeavesIndexAlone
