SPECIFICATION Spec
CONSTANTS
  start = start  alpha = alpha  Alpha = Alpha  beta = beta  gamma = gamma
  down = down
  i1 = i1  i2 = i2  i3 = i3  i4 = i4
  Absent = Absent
  Nil = Nil
  Host <- Names
  IP <- Addresses
  Dotted <- Names
  Ignored = {}
  Disallowed = {}
  StartHost = start
  QUEUE_DEPTH = 4
  HostOrder <- InOrder
  Lower <- LowerCase
  Lookup <- OwnNameLookup
  Page <- OwnNamePage
INVARIANTS
  NoNilSets PeersPageComplete PeerInfoExact  ReloadKeepsAliases
  MutualLabelRight
