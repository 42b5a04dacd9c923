SPECIFICATION Spec
CONSTANTS
    c1 = c1
    c2 = c2
    c3 = c3
    k1 = k1
    k2 = k2
    NoKey = NoKey
    NoClient = NoClient
    Client <- ThreeClients
    Key <- BothKeys
    Names <- Roles
    Pipelining = FALSE
    Master = NoClient
    MaxElems = 2
    MaxQueue = 2
    MaxDirty = 3
SYMMETRY Symmetry
INVARIANTS
    LinksInv
    NoWaiterOnList
    ReplicaIsExact
    ElementsKept
PROPERTIES
    TransactionIsAtomic
    ExecIsClean
