SPECIFICATION MCSpec
CONSTANTS
  t1 = t1  t2 = t2  s1 = s1  m1 = m1
  Task = {t1, t2}
  NoTask = NoTask
  NoObj = NoObj
  NoInfo = NoInfo
  MaxPri = 1
  Sem = {s1}
  ComObj = {}
  Mtx = {m1}
  TPriObj = {m1}
  CeilMtx = {m1}
  ipriority <- MCipriority
  ceilpri <- MCceilpri
  isemcnt <- MCisemcnt
  maxsem <- MCmaxsem
  MaxNest = 2
  Autostart = {t1}
PROPERTIES HighestRuns TimedWaitEnds LoopsEnd
