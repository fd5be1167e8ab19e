SPECIFICATION FairSpec
CONSTANTS
    Services = {"oracle", "dryRun", "node", "pages"}
    NoSession = NoSession
    Unset = Unset
    NoFetch = NoFetch
    MaxFailures = 1
    q1 = q1
    q2 = q2
    Queries = {q1, q2}
    Sessions = 1
    QueryTtl = 1
    CacheLag = 1
    MaxHeight = 3
    MaxFails = 1
    d1 = d1
    d2 = d2
    d3 = d3
    Calls = {d1, d2, d3}
    Combines = {d1, d2}
    n1 = n1
    n2 = n2
    Nodes = {n1, n2}
    t1 = t1
    t2 = t2
    Tops = {t1, t2}
    Heights = {t1}
    get1 = get1
    get2 = get2
    hyper1 = hyper1
    hyper2 = hyper2
    Requests = {get1, get2, hyper1, hyper2}
    HyperCalls = {hyper1, hyper2}
    Paths = {"status", "key-block", "hyperchain"}
    Path <- PathDef
    RetryCount = 1
    MaxUpgrades = 1
    NoPath = NoPath
    Missed = Missed
    NoSpec = NoSpec
    Listings <- ListingsDef
    operationSpecs <- operationSpecsDef
    PageSize = 2
    MaxItems = 6
INVARIANTS
  OracleInOrder
  BatchesInOrder
  FetchesInOrder
  WalkIsWhole
PROPERTIES
  EverythingIsAnswered
CHECK_DEADLOCK FALSE
