SPECIFICATION Spec
CONSTANTS
    Topics = {"schema", "fees", "checks", "fields", "trees", "signing", "encodings", "errors"}
    Missing = Missing
    Wrong = Wrong
    Computed = "computed"
    MinGasPrice = 2
    MinNameFee = 2
    Inputs <- InputsDef
    Nothing = Nothing
    Refused = Refused
    BASE_GAS = 15000
    GAS_PER_BYTE = 20
    MIN_GAS_PRICE = 4
    gasMax = 6000000
    MAX_AUTH_FUN_GAS = 50000
    MaxRounds = 6
    Builders = {b1, b2}
    Transactions <- TransactionsDef
    Transfers <- TransfersDef
    Prices <- PricesDef
    CacheTime = 2
    MaxNow = 9
    MaxLatency = 1
    Nobody = Nobody
    Fails = Fails
    Height = 9
    Account <- AccountDef
    Contract <- ContractDef
    Submitted <- SubmittedDef
    Nodes <- NodesDef
    Builds = {b1, b2}
    Objects = {o1, o2}
    Unset = Unset
    Requested <- RequestedDef
    FirstRequest <- FirstRequestDef
    HeightLag = 1
    MaxBlocks = 2
    MaxSpent = 1
    v1 = v1
    v2 = v2
    NibbleValues = {0, 1}
    Empty = Empty
    Throws = Throws
    StoreKeys <- StoreKeysDef
    AllContents <- AllContentsDef
    Keys <- KeysDef
    None = None
    Undefined = Undefined
    Addresses = {A, B}
    Networks = {main, test}
    Texts = {t1, t2}
    TypedAs = {int, string}
    Undecodable = Undecodable
    Payloads <- PayloadsDef
    Wanted <- WantedDef
    ByteValues = 8
    Lengths <- LengthsDef
    NoData = NoData
    NewerCode = 14
    RequestIds = {r1, r2}
    PeerClasses <- PeerClassesDef
INVARIANTS
  RecordsKeepTheirMeaning
  CostsAreRight
  WithinLimits
  FieldsAreCurrent
  TreeIsItsNodes
  BytesMeanOneThing
  ErrorsArrive
CHECK_DEADLOCK FALSE
