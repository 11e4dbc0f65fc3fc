\* Peers on three forks, late and misattributed answers; a peer that never answers;
\* answers lost, attempts that fail, crashes.
SPECIFICATION LiveSpec
CONSTANTS
  G = G
  None = None
  pa = pa
  pb = pb
  pr = pr
  Networks <- MCNetworks
  GenesisHash <- G
  NoHash <- None
  BATCH = 2
  MAX_SYNC_BLOCKS = 3
  MAX_BY_HASH_BLOCKS = 2
  MAX_CONSECUTIVE_FAILURES = 3
  MaxFaults = 5
  MaxHeight = 3
  MaxInFlight = 3
INVARIANTS
  SyncedChainLinked
  ServedAgree
PROPERTIES
  VerifiedStays
  AttemptEnds
CHECK_DEADLOCK FALSE
