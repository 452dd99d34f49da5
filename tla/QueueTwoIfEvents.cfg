SPECIFICATION Spec
CONSTANTS
  t1 = t1
  t2 = t2
  t3 = t3
  NoThread = NoThread
  Threads = {t1, t2, t3}
  Scripts <- TwoIfEvents
  Kinds <- K
  NumElements = 3
  MaxItems = 3
  MaxErrors = 0
CHECK_DEADLOCK FALSE
INVARIANT LockExcludes
