\* Every connection gets the same delay, TIME_OUT.  Three pushes on two ids: an
\* old and a new timer of one id next to a timer of another.
CONSTANTS
  NoVersion = NoVersion
  Id = {i1, i2}
  Delay = {1}
  MaxPush = 3
  LastPush = 1
  MaxNow = 2
SPECIFICATION FairSpec
INVARIANTS TypeOK NoLostWakeup
PROPERTIES RunsExactlyTheLatest ImplementsTimers EveryTimerLeaves DestructorReturns
