SPECIFICATION FairSpec
CONSTANTS
  t1 = t1
  t2 = t2
  t3 = t3
  w1 = w1
  w2 = w2
  Threads = {t1, t2, t3}
  Works = {w1, w2}
  Endless = {w1}
  MaxThrd = 2
  SizeMax = 7
  NoThread = NoThread
  NoWork = NoWork
INVARIANTS
  BusyExact PoolBound ListIntact
PROPERTIES
  ClobberOnlyWhenFull ImplementsWorkPool WorkStarts PoolDrains
CHECK_DEADLOCK FALSE
