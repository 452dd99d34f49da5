SPECIFICATION FairSpec
CONSTANTS
  t1 = t1
  t2 = t2
  t3 = t3
  NoThread = NoThread
  Threads = {t1, t2, t3}
  Setups <- AsyncReaders
  MaxEvents = 2
  MaxErrors = 2
  BufferSize = 1
INVARIANT ReadersUndisturbed
INVARIANT OneReplyReader
INVARIANT PendingInOrder
INVARIANT EventsConserved
PROPERTY RoundTripsReturn
