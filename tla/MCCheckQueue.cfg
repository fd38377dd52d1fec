CONSTANTS
    Workers = {w1, w2}
    Master = Master
    Checks = {k1, k2, k3}
    Bad = {k1}
    nBatchSize = 2
    nMaxInputs = 2
SPECIFICATION Spec
INVARIANTS TypeOK BookkeepingExact VerdictExact ControlFindsIdle
PROPERTY WaitReturns
