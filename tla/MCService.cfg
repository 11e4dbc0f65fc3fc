\* A full command channel, a broadcast channel that overflows, a shutdown at any point.
SPECIFICATION ServiceSpec
CONSTANTS
  p1 = p1
  Peers <- MCPeers
  NoPeer = NoPeer
  NoBan = NoBan
  MIN_SCORE <- MCMinScore
  MAX_SCORE = 1
  BAN_THRESHOLD <- MCBanThreshold
  BAN_DURATION = 1
  MaxConnections = 1
  MaxStreak = 0
  MaxHeight = 0
  Messages <- MCMessages
  max_message_size <- MCLimits
  COMMANDS = 2
  EVENTS = 1
  MaxEvents = 2
INVARIANT
  AnswerNotMissed
PROPERTIES
  PeersQueryEnds
  PublishIsTried
CHECK_DEADLOCK FALSE
