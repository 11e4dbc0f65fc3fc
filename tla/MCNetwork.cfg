\* The code's deltas and threshold, with a narrower range of scores; a limit of two
\* messages in a window of two ticks.
SPECIFICATION MCSpec
CONSTANTS
  p1 = p1
  p2 = p2
  Peers <- MCPeers
  NoBan = NoBan
  MIN_SCORE <- MCMinScore
  MAX_SCORE = 3
  BAN_THRESHOLD <- MCBanThreshold
  BAN_DURATION = 1
  MaxConnections = 2
  MaxStreak = 3
  MaxHeight = 1
  Senders <- MCPeers
  NoSender = NoSender
  NoCounter = NoCounter
  max_per_window = 2
  window = 2
  MaxClock = 5
SYMMETRY PeerSymmetry
INVARIANTS
  ListedIsConnected
  TrustIsBounded
  BannedForCause
  RateFair
