CONSTANTS
    root = root
    fund = fund
    cb1 = cb1
    cb2 = cb2
    cbc = cbc
    cbd = cbd
    A1 = A1
    A2 = A2
    B = B
    C = C
    D = D
    E = E
    F = F
    G = G
    H = H
    base = base
    b1 = b1
    b2 = b2
    c1 = c1
    c2 = c2
    NoTx = NoTx
    Txs <- MCTxs
    Generated <- MCGenerated
    Vout <- MCVout
    Vin <- MCVin
    Fee <- MCFee
    Size <- MCSize
    FinalFrom <- MCFinalFrom
    Blocks = {base, b1, b2, c1, c2}
    Base = base
    Prev <- MCPrev
    Vtx <- MCVtx
    Maturity = 2
    LimitAncestors = 5
    LimitDescendants = 5
    MaxToVisit = 1
    SizeLimit = 24
SPECIFICATION Spec
INVARIANTS
    TypeOK
    LinksExact
    TotalsExact
    InputsAvailable
    PoolIsMinable
