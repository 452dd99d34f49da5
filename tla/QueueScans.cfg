SPECIFICATION FairSpec
CONSTANTS
  t1 = t1
  t2 = t2
  t3 = t3
  NoThread = NoThread
  Threads = {t1, t2, t3}
  Scripts <- AllScripts
  Kinds <- K
  NumElements = 3
  MaxItems = 3
  MaxErrors = 1
INVARIANT QueueWellFormed
INVARIANT NothingMissed
INVARIANT LockExcludes
PROPERTY ImplementsStream
PROPERTY PredicateCalledOnce
PROPERTY CallsReturn
