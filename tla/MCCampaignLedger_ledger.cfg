CONSTANTS
  a1 = a1  a2 = a2
  Attempt = {a1, a2}
  Foreign = Foreign
  Cap = 2
  Floor = 1
  Margin = 1
  Terms <- Campaigns
  Funds = {4, 6}
SPECIFICATION FairSpec
INVARIANTS TypeOK CeilingHolds AccountSolvent PodsAreReserved BooksBalance
PROPERTY SettledAlone
