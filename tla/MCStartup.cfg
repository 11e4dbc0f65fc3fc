\* Nodes started, killed and started again with other flags, files and genesis.
SPECIFICATION StartupSpec
CONSTANTS
  a1 = a1
  a2 = a2
  None = None
  Bad = Bad
  Addresses = {a1, a2}
  Values = {8}
  DEPTH = 3
  MaxStarts = 2
  PathOf <- MCPathOf
  DefaultPort <- MCDefaultPort
  Genesis <- MCGenesis
  KeyFiles <- MCKeyFiles
  Launches <- MCLaunches
INVARIANTS
  PortsApart
  GenesisOfOneFile
  RootIsCurrent
CHECK_DEADLOCK FALSE
