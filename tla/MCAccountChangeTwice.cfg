CONSTANTS
  Tokens = {t1}
  Requests = {r1, r2}
  MaxSpentTombstones = 1
SPECIFICATION Spec
INVARIANTS
  ChangeRunsOnce
