CONSTANTS
  Creates = {1, 2}
  NoVault = 0
  Together = 2
SPECIFICATION SetupSpec
INVARIANTS
  SeedIsSafe
CHECK_DEADLOCK FALSE
