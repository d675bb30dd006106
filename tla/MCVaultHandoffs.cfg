CONSTANTS
  Tokens = {t1}
  Requests = {r1, r2}
  Confirmations = {c1, c2}
  Pollers = {p1}
  RestorePollers = {p1, p2}
  MaxSpentTombstones = 1
  RestoreTombstones = 0
SPECIFICATION BothSpec
INVARIANTS
  BothTypeOK
  AgentToldTruth
  RunningIsRecorded
  SeedInReach
PROPERTIES
  OutcomeKept
  BothImplementHandoff
  AgentAnswered
