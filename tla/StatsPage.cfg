SPECIFICATION Spec
CONSTANTS
  alpha = alpha
  beta = beta
  Hostname = Hostname
  Numkeys = Numkeys
  Total = Total
  Blank = Blank
  Text = Text
  Missing = Missing
  NoTable = NoTable
  Peer <- Peers
  Key <- Keys
  Responses <- Answers
INVARIANT
  WholePageOrError
PROPERTY
  OneResult
CHECK_DEADLOCK FALSE
