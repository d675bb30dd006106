CONSTANTS
  Tokens = {t1, t2, t3}
  Requests = {r1, r2}
  MaxSpentTombstones = 1
SPECIFICATION Spec
INVARIANTS
  EndpointConsistent
  RunsAtMostOnce
  HandoffInv
PROPERTIES
  OldestFirst
  ImplementsOneTimeLink
