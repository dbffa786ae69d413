\* Two clients, three keys, two states, every failure.
SPECIFICATION Spec
CONSTANTS
    c1 = c1
    c2 = c2
    k1 = k1
    k2 = k2
    k3 = k3
    d1 = d1
    d2 = d2
    NoSession = NoSession
    NoKey = NoKey
    Clients <- MCClients
    Keys <- MCKeys
    Data <- MCData
    StoreFaults <- AllFaults
INVARIANTS
    TypeOK
    OkIsStored
    KeysAreUnique
    DeletedIsGone
PROPERTIES
    ImplementsLifecycle
SYMMETRY Symmetric
