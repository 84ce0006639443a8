SPECIFICATION Spec
CONSTANTS
  Keys = 10
  Key <- Numbers
  kd = 1
  kx = 2
INVARIANTS WellFormed SeekFindsMembers
PROPERTIES ImplementsSet
