SPECIFICATION FairSpec
CONSTANTS
    s1 = s1
    s2 = s2
    Slave <- MCOneSlave
    DB = {0, 1, 2}
    StopWrites = FALSE
    Faults = {"link", "childerr", "open", "slavebgsave"}
    MaxWrites = 3
    MaxFaults = 2
PROPERTIES
    WaiterIsServed
    EventuallyCopies
