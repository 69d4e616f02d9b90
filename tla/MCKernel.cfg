SPECIFICATION MCSpec
CONSTANTS
  t1 = t1  t2 = t2  t3 = t3  s1 = s1  m1 = m1
  Task = {t1, t2, t3}
  NoTask = NoTask
  NoObj = NoObj
  NoInfo = NoInfo
  MaxPri = 1
  Sem = {s1}
  ComObj = {}
  Mtx = {m1}
  TPriObj = {m1}
  CeilMtx = {m1}
  ipriority <- MCipriority
  ceilpri <- MCceilpri
  isemcnt <- MCisemcnt
  maxsem <- MCmaxsem
  MaxNest = 3
  Autostart = {t1}
INVARIANTS TypeOK DispatchInv RunningIsRunnable ReadyQueueOK WaitQueuesOK NoIdleUnit OneOwner PriorityIsCeiling DormantIsClean NoSleepOverWakeup
