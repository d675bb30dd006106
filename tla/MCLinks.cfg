CONSTANTS
  Handles = {h1, h2, h3}
  Starters = {s1, s2}
  Resumers = {q1}
  MaxEntries = 2
  Tokens = {t1, t2}
  Requests = {r1, r2}
  MaxSpentTombstones = 1
  Calls = {c1, c2, c3}
  NoCall = c0
  Profiles = {a, b}
  NoProfile = none
  Entries = 2
  Cap = 2
  Changes = 1
SPECIFICATION LinksSpec
SYMMETRY Symmetry
VIEW LinksView
INVARIANTS
  LinksTypeOK
  RegistryKept
  AccountAnswersTrue
  BytesLandRight
CHECK_DEADLOCK FALSE
