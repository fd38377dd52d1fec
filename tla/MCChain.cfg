CONSTANTS
    g = g
    a1 = a1
    a2 = a2
    a3 = a3
    b1 = b1
    b2 = b2
    b3 = b3
    None = None
    Genesis = g
    Parent <- MCParent
    nChainWork <- MCChainWork
    Address <- MCAddress
    Threads = {t1, t2}
    Blocks = {a1, a2, a3, b1, b2}
    Stake = {b1, b2}
    BadContext = {a2}
    BadConnect = {b2}
    maxReorg = 1
    Invalidatable = {}
    Reconsiderable = {}
    Checkpointed = {}
    Faults = {"connect", "disconnect", "flush", "write"}
    MaxCalls = 0
    MaxCrashes = 1
SPECIFICATION Spec
INVARIANTS
    TypeOK
    TreeExact
    CandidatesExact
    ActiveChainSound
    BestChainActive
    DiskRecoverable
    ForkLengthBounded
SYMMETRY Threads_Symmetry
