CONSTANTS
  t1 = t1  t2 = t2  rel = rel  close = close  exit = exit  term = term
  net = net  sched = sched  None = None
  Tasks = {t1, t2, rel, close, exit, term}
  Producers = {net, sched}
  ReleaseTasks = {rel}
  ShutdownTasks = {close}
  ExitTasks = {exit, term}
  SignalTasks = {term}
  Expiring = {t2}
SPECIFICATION FairSpec
INVARIANTS TypeOK NoLostWakeup OrdinaryInOrder FlushedCameLater ExitLeavesNothing
PROPERTIES EveryTaskTaken ShutdownEnds
CHECK_DEADLOCK FALSE
