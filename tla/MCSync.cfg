SPECIFICATION MCSpec
CONSTANTS
  t1 = t1  t2 = t2  t3 = t3  s1 = s1  s2 = s2  m1 = m1  m2 = m2  m3 = m3
  Task = {t1, t2, t3}
  NoTask = NoTask
  NoObj = NoObj
  NoInfo = NoInfo
  MaxPri = 2
  Sem = {s1, s2}
  ComObj = {}
  Mtx = {m1, m2, m3}
  TPriObj = {s2, m1, m3}
  CeilMtx = {m1, m3}
  ipriority <- MCipriority
  ceilpri <- MCceilpri
  isemcnt <- MCisemcnt
  maxsem <- MCmaxsem
  MaxNest = 2
  Autostart = {t2, t3}
INVARIANTS NoWaitForFreeMutex CeilingRespected SyncInv
PROPERTIES GrantByPriority GrantInOrder
