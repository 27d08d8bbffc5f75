SPECIFICATION Spec
CONSTANTS
  t1 = t1
  t2 = t2
  t3 = t3
  w1 = w1
  w2 = w2
  w3 = w3
  Threads = {t1, t2, t3}
  Works = {w1, w2, w3}
  Endless = {}
  MaxThrd = 2
  SizeMax = 7
  NoThread = NoThread
  NoWork = NoWork
SYMMETRY Symmetry
PROPERTY LeaverClearsOwnSlot
CHECK_DEADLOCK FALSE
