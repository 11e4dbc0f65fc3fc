\* A pool of three with a cap of two per sender, blocks of two; ids reused, voted on,
\* cancelled, resolved and executed, again and in any order.
SPECIFICATION MCSpec
CONSTANTS
  a = a
  b = b
  Senders = {a, b}
  Submissions <- MCSubmissions
  max_size = 3
  min_fee = 1
  per_sender_cap = 2
  ttl = 1
  MAX_SELECT = 2
  MaxTime = 2
  alice = alice
  bob = bob
  v1 = v1
  FlatFee = FlatFee
  MaxValidators = MaxValidators
  Ids = {1, 2}
  Proposers = {alice, bob}
  Voters = {v1}
  Params = {FlatFee, MaxValidators}
  Bounds <- SmallBounds
  NoValue = NoValue
  ActionLists <- Lists
  Stakes = {0, 1}
  Balances <- Rich
  PROPOSAL_DEPOSIT = 2
  VOTING_WINDOW_ERAS = 1
  MAX_ACTIVE_PROPOSALS_PER_PROPOSER = 1
  MAX_PROPOSALS_PER_ERA = 2
  MaxEra = 1
INVARIANTS
  PoolWithinLimits
  ActiveWithinLimits
  ParamsInBounds
PROPERTY
  SelectTakesBest
CHECK_DEADLOCK FALSE
