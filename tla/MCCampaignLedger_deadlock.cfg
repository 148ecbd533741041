CONSTANTS
  a1 = a1  a2 = a2
  Attempt = {a1, a2}
  Foreign = Foreign
  Cap = 1
  Floor = 1
  Margin = 1
  Terms <- TwoWide
  Funds = {4}
SPECIFICATION FairSpec
PROPERTY EverySettles
