\* Three workers, so that one can take what another was woken for; two clients
\* between their unlock and their signal; a fourth task that finds all busy.
CONSTANTS
  Worker = {w1, w2, w3}
  Client = {c1, c2}
  Task = {t1, t2, t3, t4}
  NoTask = NoTask
SPECIFICATION FairSpec
INVARIANTS TypeOK NoWorkerSleepsOnWork NoLostStop
PROPERTIES ImplementsPool AcceptedTasksRun ShutdownReturns
