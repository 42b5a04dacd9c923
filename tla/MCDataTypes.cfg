SPECIFICATION Spec
CONSTANTS
    Key <- MCKey
    Commands <- MCCommands
    Limits <- MCLimits
    Policy <- MCPolicy
    Families = {"expiring", "strings", "bits", "lists", "sets", "hashes", "zsets", "sorts", "allkeys", "volatile", "noeviction", "moving"}
    LLONG_MAX = 3
    MaxString = 2
    MaxMemory = 1
    MaxNow = 2
    MaxLag = 1
    MaxLen = 3
    MaxScore = 1
    ITEMS_PER_CMD = 2
INVARIANTS
    CopiesAgree
    AofKeepsExpires
    EveryChangeIsSignalled
    ObjectsWellFormed
    SnapshotIsExact
PROPERTY
    MigrateKeepsTheKey
CHECK_DEADLOCK FALSE
