CONSTANTS
    t1 = t1
    t2 = t2
    o1 = o1
    o2 = o2
    None = None
    Txs = {t1, t2}
    Outpoints = {o1, o2}
    Vin <- MCVin
    Masternodes = {m1, m2}
    Heights = {1, 2}
    LockHeight <- MCLockHeight
    Required = 2
SPECIFICATION Spec
INVARIANTS
    TypeOK
    QuorumIsDistinct
    ConsensusLocksExpire
PROPERTY ConsensusLocksReleased
