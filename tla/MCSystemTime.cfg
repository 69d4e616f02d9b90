SPECIFICATION MCSpec
CONSTANTS
  c1 = c1  a1 = a1  w1 = w1  w2 = w2  w3 = w3  w4 = w4  w5 = w5
  Event = {c1, a1, w1, w2, w3, w4, w5}
  Cyc = {c1}
  Alm = {a1}
  Tmo = {w1, w2, w3, w4, w5}
  StaCyc <- MCStaCyc
  cyctim <- MCcyctim
  cycphs <- MCcycphs
  TMAX_RELTIM = 3
  EVTTIM_MOD = 8
  TIC_DENO = 2
  NoTicks = NoTicks
  PERIOD = 5
  MaxNow = 22
  Caller = {"task", "handler"}
VIEW HeapView
INVARIANTS LefttimExact HeapInv ReadsTheTime
PROPERTIES ImplementsCountdown
