CONSTANTS
  Tokens = {t1}
  Accounts = {}
  NoAccount = none
  Starters = {s1}
  Revokers = {v1}
  Browsers = {b1}
  Pollers = {p1, p2}
  MaxSpentTombstones = 1
SPECIFICATION FairSpec
INVARIANTS
  TypeOK
  AnswersAccounted
PROPERTIES
  AcceptedLeaves
  EveryLoginAnswered
