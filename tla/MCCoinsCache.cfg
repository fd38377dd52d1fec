CONSTANTS
    Outpoints = {o1, o2}
    c1 = c1
    c2 = c2
    Coins = {c1, c2}
    Spent = Spent
    Blocks = {b1, b2}
    NoBlock = NoBlock
    NoEntry = NoEntry
    CoinUsage <- MCCoinUsage
SPECIFICATION Spec
INVARIANTS TypeOK FlagsSound NeverFreshMisapplied UsageExact
PROPERTIES ImplementsLedger EveryCallTakesEffect
