\* A validator that dies, restarts and whose puts may fail.
SPECIFICATION LiveSpec
CONSTANTS
  s1 = s1
  s2 = s2
  Nobody = Nobody
  Senders = {s1, s2}
  Txs <- MCTxs
  Local = s1
  ERA_LENGTH = 2
  MAX_SELECT = 2
  MAX_SIZE = 2
  PER_SENDER_CAP = 2
  StorageMayFail = TRUE
  MaxHeight = 3
  MaxRuns = 2
INVARIANTS
  NoEquivocation
  HeightIsTop
  RootsReplay
PROPERTIES
  ChainGrows
  ImplementsChain
CHECK_DEADLOCK FALSE
