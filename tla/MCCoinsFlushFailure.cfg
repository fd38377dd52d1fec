CONSTANTS
    Outpoints = {o1}
    c1 = c1
    Coins = {c1}
    Spent = Spent
    Blocks = {b1, b2}
    NoBlock = NoBlock
    NoEntry = NoEntry
    CoinUsage <- MCCoinUsage
SPECIFICATION FailSpec
PROPERTY DiskHoldsCommitted
