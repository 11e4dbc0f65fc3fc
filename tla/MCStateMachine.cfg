\* Payments, or staking, with slashes, elections and cooldowns at any time.
SPECIFICATION MCSpec
CONSTANTS
  N = 4
  ChainIds = {c1, c2}
  ChainId = c1
  Txs <- MCTxs
  GenesisBalance <- MCGenesisBalance
  MIN_STAKE = 12
  ANTI_SPAM_DEPOSIT = 2
  MAX_VALIDATORS = 2
  UNSTAKING_COOLDOWN_ERAS = 1
  FREEZE_DURATION_ERAS = 2
  U128_MAX = 3
  MaxEra = 2
  MaxPayments = 3
  MaxStakings = 4
  Reporters = {3}
INVARIANTS
  UnstakingCovered
  StakedNeverAhead
PROPERTIES
  SupplyNeverGrows
  FeesPaidInFull
  NoReplay
  FreezeServed
CHECK_DEADLOCK FALSE
