SPECIFICATION MCSpec
CONSTANTS
  t1 = t1  t2 = t2  t3 = t3  t4 = t4
  Task = {t1, t2, t3, t4}
  NoTask = NoTask
  MaxPri = 2
  MaxBit = 15
  ipriority <- MCipriority
INVARIANTS TypeOK ReadyQueueOK SearchFindsHighest
PROPERTIES ImplementsPrecedence
