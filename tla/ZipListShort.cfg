CONSTANTS
    Parts = {"ziplist"}
    QUORUM = 3
    Others = {2, 4}
    Vote = {0, 3}
    MyRunId = 3
    Apart = 4
    MayMoveAgain = FALSE
    MaxMoves = 1
    MaxAnswers = 3
    MaxHello = 1
    MAX_PENDING_COMMANDS = 2
    MaxCommands = 3
    SCRIPT_MAX_QUEUE = 3
    SCRIPT_MAX_RUNNING = 2
    SCRIPT_MAX_RETRY = 2
    MaxScripts = 4
    Hosts = {"h1", "h2"}
    AofEnabled = TRUE
    MaxSockets = 4
    Streams <- MCStreams
    IOBUF_LEN = 3
    INLINE_MAX = 7
    BIG_ARG = 3
    MAX_QUERYBUF = 12
    BUF_BYTES = 2
    MAX_WRITE = 2
    HARD_LIMIT = 5
    SOFT_LIMIT = 3
    MaxBytes = 6
    Conn = {1, 2, 3}
    Channel = {"ch"}
    maxclients = 2
    MS = 2
    MaxNow = 7
    MaxEvents = 3
    Fd = {1, 2}
    Sends = {"s1"}
    MaxGen = 3
    Page = {1, 2}
    MaxWrites = 1
    MaxForks = 2
    MayPageOut = FALSE
    Script <- MCScript
    LuaKey = {"a", "b"}
    LuaValue = {0, 1}
    MaxRuns = 3
    Evicts = FALSE
    Descriptor = {1, 2, 3}
    MaxFiles = 4
    MaxJobs = 3
    DictKeys = {0, 1, 2}
    HT_INITIAL_SIZE = 1
    FORCE_RESIZE_RATIO = 1
    MaxSize = 4
    Element = {1, 2, 3}
    Score = {0, 1}
    ZSKIPLIST_MAXLEVEL = 3
    Value <- MCShort
    ZIP_BIGLEN = 8
    LENGTH_MAX = 3
    MaxEntries = 4
    Int64 <- MCInt64
    BASE = 4
    ENC16 = 1
    ENC32 = 2
    ENC64 = 4
    MapKeys = {1, 2, 3}
    MapValues = {0, 1, 2, 6}
    ZIPMAP_BIGLEN = 3
SPECIFICATION Spec
INVARIANT ZiplistIsWalkable
CHECK_DEADLOCK FALSE
