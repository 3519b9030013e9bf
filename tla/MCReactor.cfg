\* Three connections, of which the pool can serve two; three pushes: a connection
\* is accepted and read twice, or three are accepted.
CONSTANTS
  NoVersion = NoVersion
  Null = Null
  Wild = Wild
  Garbage = {3}
  Fd = {1, 2, 3}
  Id = {0, 1, 2, 3}
  TimeOut = 1
  Delay = {1}
  Blocks = 4
  MaxEvents = 2
  MaxPush = 3
  LastPush = 1
  MaxNow = 2
SPECIFICATION FairSpec
INVARIANTS TypeOK EveryConnectionTimed BlocksNotShared
PROPERTIES IdleConnectionsClose SignalEnds
