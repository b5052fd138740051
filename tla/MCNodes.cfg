CONSTANTS
    Errand <- MCErrand
    MaxHops = 1
    Task <- MCTask
    MaxReplacements = 7
    MaxDepth = 4
    Json <- MCJson
    Numerals <- MCNumerals
    Run = {"r1", "r2"}
    Memories <- MCMemories
    Conversation = {"c1"}
    EntryId = {"e1", ""}
    Embedding <- MCEmbedding
    MaxMessages = 2
    TopK = 2
    MinScore = 0
    Ttl = 0
    MaxSteps = 4
    QueueBound = 1
    Destination = {"public", "internal", "exception"}
    BlockedRanges = {"internal", "exception"}
    HostName = {"a", "b"}
    MaxRedirects = 1
    MaxResponseBytes = 2
    Client = {"c1", "c2"}
    Proxy = {"p1"}
    MaxRequests = 2
    Window = 3
    NoBucket = NoBucket
    PluginNode = {"n1", "n2"}
    Slots = 1
    Command = {1, 2, 3}
    Source = {1, 2}
    Report = {"r1", "r2"}
    MaxPublished = 2
    Mine = {"m"}
    Theirs = {"o"}
    Trace = {"t"}
    Capacity = 2
    MaxEvents = 4
    CanvasNode = {"n"}
    MaxClicks = 2
    MaxEdits = 2
    MaxRuns = 2
    MaxTogether = 3
    MaxInFlight = 2
SPECIFICATION NodesSpec
INVARIANTS
    NodesTypeOK CallsAreSound DataIsKept 
    ErrorMeansUnsent ReachesOnlyAllowed  PluginCallsAreSound 
    PluginsAreWhole FreshTables SocketShowsOwn EditorIsTruthful
PROPERTIES EveryCallEnds
CHECK_DEADLOCK FALSE
