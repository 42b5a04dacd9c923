SPECIFICATION Spec
CONSTANTS
    s1 = s1
    s2 = s2
    Slave <- MCTwoSlaves
    DB = {0, 1}
    StopWrites = TRUE
    Faults = {}
    MaxWrites = 2
    MaxFaults = 1
INVARIANTS CopyIsPrefix
