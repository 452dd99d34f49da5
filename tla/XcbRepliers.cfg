SPECIFICATION FairSpec
CONSTANTS
  t1 = t1
  t2 = t2
  t3 = t3
  NoThread = NoThread
  Threads = {t1, t2}
  Setups <- SingleOrRepliers
  MaxEvents = 2
  MaxErrors = 2
  BufferSize = 2
INVARIANT ReadEventsDelivers
INVARIANT NoSpuriousIOError
INVARIANT AnswerAwaitsCaller
PROPERTY ResponsesInOrder
PROPERTY RoundTripsReturn
INVARIANT IInv
