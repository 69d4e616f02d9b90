SPECIFICATION MCSpec
CONSTANTS
  t1 = t1  t2 = t2  t3 = t3  f1 = f1  f2 = f2  f3 = f3  b1 = b1  b2 = b2
  d1 = d1  d2 = d2  r1 = r1  r2 = r2  p1 = p1  r3 = r3  x1 = x1  x2 = x2  mp1 = mp1
  Task = {t1, t2, t3}
  NoTask = NoTask
  NoObj = NoObj
  NoInfo = NoInfo
  MaxPri = 1
  Sem = {}
  Mtx = {}
  ComObj = {f1, f2, f3, d1, d2, r1, r2, p1, r3, mp1}
  Flg = {f1, f2, f3}
  Bit = {b1, b2}
  iflgptn <- MCiflgptn
  ClrFlg = {f1}
  WMulFlg = {f1, f2}
  Dtq = {d1, d2}
  Data = {x1, x2}
  rwait <- MCrwait
  dtqcnt <- MCdtqcnt
  Pdq = {p1}
  PriVal = {x1, x2}
  pdqrwait <- MCpdqrwait
  pdqcnt <- MCpdqcnt
  maxdpri <- MCmaxdpri
  Mpf = {mp1}
  blkcnt <- MCblkcnt
  TPriObj = {d1}
  CeilMtx = {}
  ipriority <- MCipriority
  ceilpri <- NoMutex
  isemcnt <- NoSemaphore
  maxsem <- NoSemaphore
  MaxNest = 2
  Autostart = {t1, t2, t3}
SYMMETRY Symmetric
INVARIANTS NobodyWaitsInVain BuffersOK NdataNeverFails OneHolder
PROPERTIES ReleasedByItsCondition FirstSatisfiedServed ImplementsChannel LeavesInOrder
