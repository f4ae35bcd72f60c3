CONSTANTS
  e1 = e1  e2 = e2  e3 = e3  disp = disp  net = net  NoEvent = NoEvent
  Events = {e1, e2, e3}
  Callers = {disp, net}
  DispatchThread = disp
  Delays = {1, 3}
  MinTicks = 2
  MaxEventId = 2
  MaxTime = 4
  SpuriousWakeups = TRUE
SPECIFICATION SchedulerSpec
SYMMETRY Symm
INVARIANTS SchedulerTypeOK NoOversleep TimeoutFindsDueEvent StopIsExact IdsBelongToEvents
CHECK_DEADLOCK FALSE
