SPECIFICATION Spec
CONSTANTS
    Addr = {1, 2, 3}
    Priority <- MCPriority
    PARALLEL_SYNCS = 1
    MaxFaults = 2
    MaxFlight = 1
INVARIANT
    NeverSlaveOfItself
