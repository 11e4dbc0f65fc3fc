\* Votes in any order, twice or never; blocks and chains of honest and faulty proposers
\* in any order.  A year of three blocks, eras of two.
SPECIFICATION MCSpec
CONSTANTS
  V = 4
  b1 = b1
  b2 = b2
  StakeWeight <- MCStakeWeight
  Votes <- MCVotes
  Strangers = {9}
  Nodes = {n1, n2}
  Heights = {1, 2}
  Blocks = {b1, b2}
  N = 3
  Running = {1, 2}
  Faulty = {3}
  Signing = {2}
  Stake <- MCStake
  RegistrationEra <- MCRegistrationEra
  MIN_STAKE = 1
  MAX_VALIDATORS = 2
  KnownKeys = {2, 3}
  Bodies <- MCBodies
  NewStakes = {0}
  MaxHeight = 2
  MaxFaulty = 2
  MaxChanges = 1
  ERA_LENGTH = 2
  BLOCKS_PER_YEAR = 3
  BASIS_POINTS = 4
  headroom_rate = 4
  ceiling_rate = 3
  GenesisSupply = 60
  EffectiveMax = 100
INVARIANTS
  FinalityOrderFree
  QuorumsIntersect
  ElectionAgrees
  SupplyCapped
PROPERTY
  FirstSlashIsJust
CHECK_DEADLOCK FALSE
