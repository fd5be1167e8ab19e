SPECIFICATION Spec
CONSTANTS
    Flows = {"sdk", "contract", "account", "name", "pointers", "ledger", "metamask", "discover", "auction", "mnemonic"}
    o1 = o1
    o2 = o2
    Ops = {o1, o2}
    Nobody = Nobody
    Accounts = {"alice", "bob"}
    NodeNames = {"main", "test"}
    Network <- NetworkDef
    Unverified = {o2}
    deploy1 = deploy1
    deploy2 = deploy2
    call1 = call1
    attach1 = attach1
    sign1 = sign1
    sign2 = sign2
    dry1 = dry1
    Jobs = {deploy1, deploy2, call1, attach1, sign1, sign2, dry1}
    Kind <- KindDef
    NoGas = {deploy1, attach1}
    Unwaited = {deploy2}
    OwnCallData = {sign2}
    Forms <- FormsDef
    Nowhere = Nowhere
    Given = Given
    pre1 = pre1
    pre2 = pre2
    claim1 = claim1
    bid1 = bid1
    extend1 = extend1
    update1 = update1
    update2 = update2
    transfer1 = transfer1
    revoke1 = revoke1
    NameOps = {pre1, pre2, claim1, bid1, extend1, update1, update2, transfer1, revoke1}
    Does <- DoesDef
    Gives <- GivesDef
    Extending = {update1}
    UnwaitedOps = {pre2, update2}
    Owner = "alice"
    Recipient = "bob"
    NoOwner = "nobody"
    NoSalt = NoSalt
    Signings = {"message", "transaction"}
    Chunks <- ChunksDef
    Addresses = {"address1", "address2"}
    MetaCalls = {"meta1", "meta2"}
    MaxIndex = 2
    Nothing = Nothing
    NotAName = NotAName
    PlainNames = {4, 5, 8, 9, 12, 13, 31, 64}
    Defects = {"dots", "emoji"}
    MaxBids = 3
    MaxHeight = 1000
    Callers = {"caller1", "caller2"}
    Phrases = {"phrase"}
    NoKey = NoKey
    Indexes = {0, 1, 500}
    Offset = 500
INVARIANTS
  SdkInOrder
  ContractInOrder
  AccountsInOrder
PROPERTIES
  NamesKept
CHECK_DEADLOCK FALSE
