SPECIFICATION FairSpec
CONSTANTS
  Rounds = 4
  Deposits = {0, 1, 2, 98}
  Needs = {0, 1, 49}
INVARIANTS
  StrictlyAlternates
  BalanceInRange
PROPERTIES
  BothFinish
