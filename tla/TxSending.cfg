SPECIFICATION FairSpec
CONSTANTS
    c1 = c1
    c2 = c2
    Calls = {c1, c2}
    None = None
    Scenes <- ScenesDef
    Blocks = 1
    Confirm = 1
    TtlDepth = 1
    Retries = 1
    CacheLag = 1
    MaxHeight = 3
    MaxReorgs = 2
    MaxLost = 1
INVARIANTS
  QueueInOrder
PROPERTIES
  EndsByTheChain
  EveryCallEnds
CHECK_DEADLOCK FALSE
