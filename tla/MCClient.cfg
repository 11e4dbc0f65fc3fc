\* Two wallets of one key against a node that makes blocks, fails to store one, dies.
SPECIFICATION ClientSpec
CONSTANTS
  s1 = s1
  c1 = c1
  c2 = c2
  s2 = s2
  Nobody = Nobody
  Senders = {s1}
  Txs <- MCTxs
  Local = Nobody
  ERA_LENGTH = 5
  MAX_SELECT = 1
  MAX_SIZE = 2
  PER_SENDER_CAP = 1
  StorageMayFail = TRUE
  MaxHeight = 2
  MaxRuns = 2
  Clients = {c1, c2}
  Stranger = s2
  NoKey = NoKey
  MaxCommands = 1
INVARIANTS
  AcceptedNotLost
  LookupsAgree
PROPERTIES
  AnswersMatchChain
  RequestEnds
CHECK_DEADLOCK FALSE
