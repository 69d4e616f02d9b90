SPECIFICATION MCSpec
CONSTANTS
  s = s  u = u
  Task = {s, u}
  UserTask = {s, u}
  TexBits = {"low", "high"}
  MaxSvc = 0
  MaxTex = 2
  Parts = {"calls"}
  NoTask = NoTask
  NoObj = NoObj
  NoInfo = NoInfo
  MaxPri = 1
  Sem = {}
  ComObj = {}
  Mtx = {}
  TPriObj = {}
  CeilMtx = {}
  ipriority <- MCipriority
  ceilpri <- Nothing
  isemcnt <- Nothing
  maxsem <- Nothing
  MaxNest = 2
  Autostart = {u}
INVARIANTS TakenAtOnce
