\* Size, in cells: three long requests (7 each) go round the ring, and twice a
\* short one (6) fits behind a request without a body (3).  A connection ends,
\* so it may stop.
CONSTANTS
  long = long
  short = short
  hello = hello
  lost = lost
  Nul = Nul
  Request <- MCRequest
  Body <- MCBody
  Announced <- MCAnnounced
  Route <- MCRoute
  Size = 16
  MaxSent = 3
SPECIFICATION Spec
CHECK_DEADLOCK FALSE
PROPERTIES IncompleteIsNotRun
