CONSTANTS
  Iterations = 2
  UnpinAttempts = 2
  Cids = {"a", "b"}
  NoCid = "-"
  Requests = {r1, r2}
  NoRequest = none
  Workers = {w1, w2}
  MaxAttempts = 2
  MaxBatch = 2
  Creates = {1, 2, 3}
  NoVault = 0
  Vaults = {"v", "w"}
  NoVaultName = "-"
  Verifications = 2
  WatchItems = {1, 2, 3}
  PageLimit = 2
  MaxCommands = 2
  MaxProbes = 2
  SiteIds = {s1, s2}
  ValidationTries = 5
  VerifyTries = 5
  CommandLines <- CatalogLines
  Changes = 1
  Rows = {1, 2, 3}
  NameOf <- RowNames
  TextOf <- RowTexts
SPECIFICATION CommandsSpec
INVARIANTS
  OneIdentityUsed
CHECK_DEADLOCK FALSE
