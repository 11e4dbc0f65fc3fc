\* The node, against what run_node says of a mismatch.
SPECIFICATION Spec
CONSTANTS
  s1 = s1
  s2 = s2
  Nobody = Nobody
  Senders = {s1, s2}
  Txs <- OwnTxs
  Local = s1
  ERA_LENGTH = 2
  MAX_SELECT = 2
  MAX_SIZE = 2
  PER_SENDER_CAP = 2
  StorageMayFail = FALSE
  MaxHeight = 2
  MaxRuns = 2
INVARIANT
  NeverFatal
CHECK_DEADLOCK FALSE
