CONSTANTS
  Tokens = {t1, t2}
  Accounts = {"a"}
  NoAccount = "none"
  Starters = {"s"}
  Revokers = {}
  Browsers = {"b"}
  Pollers = {}
  MaxSpentTombstones = 1
  Sessions = {"w"}
  Addresses = {e1}
  Posts = {p1}
  MaxLoginAttempts = 2
  Hosts = {h1, h2}
  Visits = {v1, v2}
  NoVisit = nobody
  Coordinators = {k1, k2}
  WizardNames = {"d"}
  WizardLabels = {"x"}
  WizardRoots = {"r"}
  Emails = {"e", "f"}
  MaxSites = 3
  Setups <- Servers
  OAuthClients = {"k1", "k2"}
  PublicAddresses = {"q1", "q2"}
  LocalAddress = "local"
  MaxGrants = 3
  MaxRestarts = 1
  OtherServers = {"o"}
  MaxTemps = 1
  InstAgents = {"h", "s"}
  HttpAgents = {"h"}
  ProjectAgents = {"h"}
  CommandLines <- InstallLines
  EnvFiles <- EnvFound
  NoFile = nofile
  FileServers <- Uploaders
  FileSources <- Sources
  SizeCap = 2
SPECIFICATION ServerSpec
INVARIANTS
  InstalledAddressFollows
CHECK_DEADLOCK FALSE
