SPECIFICATION Spec
CONSTANTS
    s1 = s1
    s2 = s2
    Slave <- MCTwoSlaves
    DB = {0}
    StopWrites = TRUE
    Faults = {"link", "childerr", "open"}
    MaxWrites = 3
    MaxFaults = 2
SYMMETRY MCSymmetry
INVARIANTS
    NothingLostInFlight
    CopyIsPrefix
    WaitersHaveChild
PROPERTIES
    ImplementsAsyncReplication
