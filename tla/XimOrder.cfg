SPECIFICATION PartsSpec
CONSTANTS
    InUse = {"input"}
    t1 = t1  t2 = t2  t3 = t3  None = None  NoThread = NoThread
    Threads = {t1, t2}  MainThread = t1  Allocators = {t1}
    LockModes = {TRUE, FALSE}
    Modulus16 = 8  Modulus32 = 16
    BufsizeReqs = 3  BufferReqs = 3  Margin = 1  CallRequests = 1
    FirstRequest = 11  MaxRequest = 21  MaxUnread = 1
    c1 = c1  c2 = c2  c3 = c3  w1 = w1  w2 = w2  w3 = w3
    ConnThreads = {t1, t2, t3}  Connections = {c1, c2, c3}  Watchers = {w1, w2, w3}
    PointerSize = 2  PollfdCacheSize = 2
    ConnScripts <- MCConnScripts
    g1 = g1  g2 = g2  d1 = d1  d2 = d2  x1 = x1  x2 = x2
    small = small  capital = capital  num = num  pad = pad  NoSymbol = NoSymbol  Garbage = Garbage
    InputModes <- TwoTexts
INVARIANTS
    InputInOrder
