SPECIFICATION Spec
CONSTANTS
  t1 = t1
  t2 = t2
  t3 = t3
  NoThread = NoThread
  Threads = {t1, t2}
  Setups <- ReaderAndReplier
  MaxEvents = 0
  MaxErrors = 1
  BufferSize = 2
CHECK_DEADLOCK FALSE
INVARIANT NoSpuriousIOError
