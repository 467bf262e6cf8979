SPECIFICATION ScenarioSpec
CONSTANTS
  Clients = {c1, c2, c3}
  Links = {g1, g2}
  Accounts = {a1, a2}
  KeysAccount = a1
  KeysClient = c1
  Servers = {s1, s2}
  FirstServer = s1
  TwiceLink = g1
  MaxKeys = 2
  None = None
INVARIANTS RegistriesSound AcceptedOncePerLink
PROPERTIES AcceptsNewest LoginsDisplacedGoes
CHECK_DEADLOCK FALSE
