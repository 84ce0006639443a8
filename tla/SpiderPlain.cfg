SPECIFICATION Spec
CONSTANTS
  start = start  alpha = alpha  beta = beta  gamma = gamma  delta = delta
  bare = bare
  i1 = i1  i2 = i2  i3 = i3  i4 = i4  bad = bad
  Absent = Absent
  Nil = Nil
  Host <- Names
  IP <- Addresses
  Dotted = {start, alpha, beta, gamma, delta}
  Ignored = {bare}
  Disallowed = {bad}
  StartHost = start
  QUEUE_DEPTH = 4
  Lookup <- PlainLookup
  Page <- PlainPage
INVARIANTS
  DistanceWitnessed AddressesAgree AliasesResolve
PROPERTIES
  NeverFarther ShinyNewHost
