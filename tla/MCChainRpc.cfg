CONSTANTS
    g = g
    a1 = a1
    a2 = a2
    a3 = a3
    b1 = b1
    b2 = b2
    b3 = b3
    None = None
    Genesis = g
    Parent <- MCParent
    nChainWork <- MCChainWork
    Address <- MCAddress
    Threads = {t1, t2}
    Blocks = {a1, a2, b1}
    Stake = {}
    BadContext = {}
    BadConnect = {b1}
    maxReorg = 3
    Invalidatable = {a1, a2}
    Reconsiderable = {a1}
    Checkpointed = {a1}
    Faults = {"invalidate"}
    MaxCalls = 2
    MaxCrashes = 0
SPECIFICATION Spec
INVARIANT ChainRepaired
PROPERTIES
    PruneLeavesCandidate
    ActivationReturns
