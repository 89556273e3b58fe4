SPECIFICATION Spec
CONSTANTS
    r1 = r1
    r2 = r2
    r3 = r3
    r4 = r4
    s1 = s1
    s2 = s2
    s3 = s3
    a = a
    b = b
    fileA = fileA
    fileB = fileB
    foo = foo
    bar = bar
    Count = 4
    BatchSize = 3
    Concurrency = 2
    RetryMax = 1
    MaxFailures = 2
    Oversized = {2, 5}
    MaxUpsets = 2
    NoSocket = NoSocket
    Requests <- FourRequests
    Sockets <- ThreeSockets
    MaxPool = 1
    Ids <- TwoChunks
    Files <- TwoFiles
    Tokens <- TwoTokens
    KeyOf <- Keys
    ChunkTexts <- TwoTexts
    Savers = {"pass", "quirks"}
    MaxChanges = 4
    IndexedFiles = {"a", "b"}
    MaxPasses = 2
    MaxRevision = 2
    SubBatches = {"1", "2", "3", "4"}
    SaveInterval = 2
    MaxDescribing = 2
    MaxCacheMishaps = 2
    small = small
    large = large
    Unset = Unset
    Models <- TwoModels
    DefaultModel = small
    DimOf <- ModelLengths
    Options = {"on", "off"}
    MaxEdits = 2
    noSuchFile = noSuchFile
    expired = expired
    h1 = h1
    h2 = h2
    Failures <- TwoFailures
    CauseOf <- Classes
    Hooks <- TwoHooks
    MaxCreated = 2
    MaxCalls = 3
    storedFile = storedFile
    quirkPath = quirkPath
    q1 = q1
    q2 = q2
    StoredFiles <- OneFile
    QuirkPaths <- OneQuirkPath
    Mishaps = {"crash", "notFound", "unreadable", "locked"}
    MaxMishaps = 2
    MaxVersions = 3
    Quirks <- TwoQuirks
    p1 = p1
    p2 = p2
    QuirkIds <- OneQuirk
    Procs <- TwoProcs
    MaxVersion = 2
    MaxOps = 2
    MaxFaults = 1
    Faults = {"crash", "rows", "rebuild", "offline", "overlap"}
    SwapFaults = {"crash", "exit", "busy", "empty", "abort"}
    MaxSwapFaults = 3
    LineLengths = {0, 1, 3, 6}
    MaxFile = 5
    Layouts <- NodesOf
    FallbackLines = 4
    MaxLines = 2
    MaxChars = 4
    Overlaps = {0, 1, 2}
    pw = pw
    px = px
    py = py
    pz = pz
    FileOf <- FileOfPassage
    From <- FromLine
    To <- ToLine
    Words <- WordsOf
    Role <- RoleOf
    VectorRankings <- Orders
    KeywordRankings <- ShortOrders
    K = 2
    Weights = {1, 3}
    Gates <- TwoGates
    TopK = 3
    Candidates = 3
    RerankScores = {1, 2}
    RerankFloors = {0, 2}
    Gap = 5
    MaxPerFile = 1
INVARIANTS
    TextsGetTheirVectors DeadGatewayLeftAlone ConnectionsServeOne
    HalvesAgree DescriptionsAreSaved
    SavesAreNotShadowed OneGotchaPerCause KeyPressesWait NothingIsLost IndexServed
    ChunksTellTheFile BestHitsServed RecallMatchesList
PROPERTIES
    IndexKeepsPromise NothingOverwrittenUnseen PluginCatchesUp
    SettledFilesKeepRows ReturnedIsStored AddsAreNotOrphans QuirksSettle
CHECK_DEADLOCK FALSE
