SPECIFICATION KeywordSpec
CONSTANTS
    quirk = quirk
    quirkFile = quirkFile
    foo = foo
    bar = bar
    Ids <- OneChunk
    Files <- OneFile
    Tokens <- TwoTokens
    KeyOf <- FileOfQuirk
    ChunkTexts <- TwoTexts
    Savers = {"pass", "quirks"}
    MaxChanges = 4
PROPERTY AddOverwritesById
CHECK_DEADLOCK FALSE
