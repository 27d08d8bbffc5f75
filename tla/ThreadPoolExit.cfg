SPECIFICATION XFairSpec
CONSTANTS
  t1 = t1
  t2 = t2
  w1 = w1
  Threads = {t1, t2}
  Works = {w1}
  Endless = {}
  MaxThrd = 2
  SizeMax = 7
  NoThread = NoThread
  NoWork = NoWork
  Callers = {"owner", "worker"}
  Flags = {"none", "wait"}
  Quitters = {w1}
INVARIANTS
  QuietExitIsSafe QuietWaitFinishes
PROPERTY ExitReturns
CHECK_DEADLOCK FALSE
