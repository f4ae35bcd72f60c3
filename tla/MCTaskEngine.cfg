CONSTANTS
  e1 = e1  e2 = e2  close = close  exit = exit  term = term
  None = None  NoEvent = NoEvent
  net = net  sched = sched  disp = disp
  SchedThread = sched  DispatchThread = disp
  Tasks = {e1, e2, close, exit, term}
  Producers = {net, sched}
  Callers = {disp, net}
  Events = {e1, e2}
  Expiring = {e1, e2}
  ReleaseTasks = {}
  ShutdownTasks = {close}
  ExitTasks = {exit, term}
  SignalTasks = {term}
  Delays = {1}
  MinTicks = 1
  MaxEventId = 2
  MaxTime = 1
  SpuriousWakeups = FALSE
SPECIFICATION EngineFairSpec
PROPERTIES ImplementsTimerService EveryTimerDecided
CHECK_DEADLOCK FALSE
