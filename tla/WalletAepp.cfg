SPECIFICATION FairSpec
CONSTANTS
    s1 = s1
    s2 = s2
    app = app
    dapp = dapp
    Sessions = {s1, s2}
    Aepps = {app, dapp}
    Accounts = {a1, a2}
    Nodes = {n1, n2}
    None = None
    HomeNode = n1
    HomeAccount = a1
    MaxRequests = 3
    MaxOps = 2
    Setups <- SetupsDef
INVARIANTS
  SessionsInOrder
  AeppsUpToDate
PROPERTIES
  NothingLeftOpen
CHECK_DEADLOCK FALSE
