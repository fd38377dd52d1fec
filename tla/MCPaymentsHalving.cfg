SPECIFICATION Spec
CONSTANTS
  m1 = m1
  m2 = m2
  Masternodes = {m1, m2}
  Self = m1
  pA = pA
  pB = pB
  Payees = {pA, pB}
  NoPayee = NoPayee
  MayVote <- MCMayVote
  BudgetBlocks = {3}
  Window = 1
  Limit = 2
  Ahead = 2
  VoteAhead = 1
  maxReorg = 1
  Required = 2
  nSubsidyHalvingInterval = 4
  Winners <- MCWinners
  Start = 2
  MaxHeight = 4
  MaxStarts = 2
INVARIANT FilledBlockValid
