SPECIFICATION Spec
CONSTANTS
  a1 = a1  a2 = a2  b1 = b1  b2 = b2  c1 = c1
  here = here  there = there  noNumber = noNumber
  NoCountry = NoCountry
  NoVersion = NoVersion
  NotScanned = NotScanned
  NotAsked = NotAsked
  Address <- Addresses
  CountryOf <- Countries
  Meshes <- AllMeshes
  Requests <- AllRequests
  kBUCKET_SIZE = 10
  KeysSanityMin = 10
  KeysDailyJitter = 1
INVARIANTS
  ServedAddressesWanted PanicOnlyIfShared OwnThresholdNotTooHigh
  TwoServersSelected
\* A request ends with its answer.
CHECK_DEADLOCK FALSE
