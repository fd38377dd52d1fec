------------------------ MODULE MCCoinsFlushFailure ------------------------
EXTENDS CoinsFlushFailure, TLC

CONSTANT c1

MCCoinUsage == c1 :> 1
=============================================================================
