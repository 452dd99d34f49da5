# A verification project for libX11

libX11 is the C library X clients link with.  An application makes calls on a
`Display`; the calls write requests into a buffer, send them over one
connection (owned by XCB), and read replies, events and errors from it.  Any
number of threads may use one `Display`.  This project models the parts of the
library where that is hard, checks them with TLC on small instances, and proves
the central invariants with TLAPS for instances of every size.

Source references are to `src/` (so `src/src/xcb_io.c` is the transport).

## 1. Inventory

### Components, their state, operations and interactions

| Component | State | Operations | Interacts with |
|---|---|---|---|
| Transport (`xcb_io.c`, `Xxcbint.h`) | list of pending requests, `next_event`, `next_response`, `event_waiter`, `last_flushed`, `last_request_read` | `_XSend`, `_XFlush`, `_XReply`, `_XReadEvents`, `_XEventsQueued`, `poll_for_event`, `poll_for_response`, `handle_response` | XCB's event and reply queues (external); the display lock; async handlers; the error handler of the application; the event queue |
| Display lock (`locking.c`, `LockDis.c`) | the mutex, the user lock's level and owner, condition variables, `in_ifevent`/`ifevent_thread` | `LockDisplay`, `UnlockDisplay`, `XLockDisplay`, `XUnlockDisplay`, `ConditionWait/Broadcast` | everything; `_XLockDisplay` also calls sync-handler upcalls and the id prefetch |
| Event queue (`XlibInt.c` `_XEnq`/`_XDeq`, `*Event.c`, `Sync.c`) | list of events with serial numbers, free list | `_XEnq`, `_XDeq`, scans (`XIfEvent`, `XMaskEvent`, ...), `XPutBackEvent`, `XSync` | Transport fills it; scans call `_XReadEvents`, which drops the lock |
| Sequence numbers (`XlibInt.c`, `xcb_io.c`) | `request`, `last_request_read`, private sync handler | `widen`, `_XSetLastRequestRead`, `_XSeqSyncFunction`, `sync_hazard` | every response |
| Resource ids and sync handlers | `next_xid`, `synchandler`, `savedsynchandler`, flags | `_XAllocID`, `_XIDHandler`, `_XAllocIDs`, `XSetAfterFunction`, `_XSetPrivSyncFunction` | run from `_XLockDisplay` and `SyncHandle` |
| Internal connections (`XlibInt.c`) | list of connections, list of watchers, one slot of watch data per pair, poll cache | register, unregister, add and remove watcher, `_XProcessInternalConnection` | called from `_XReadEvents`/`_XReply`'s polling |
| Async handlers and atoms | list of handlers, hash table of atoms with reserved slots | `_XInternAtom`, `XInternAtoms`, `_XUpdateAtomCache`, `XGetAtomNames` | handlers run while another call waits for its reply |
| Generic event data (`XlibInt.c`, `GetEventData.c`, ...) | data pointers of queued events, the cookie jar, pointers left on the free list | `_XStoreEventCookie`, `_XFetchEventCookie`, `_XFreeEventCookies`, `XGetEventData`, `XFreeEventData`, `XPutBackEvent` | every call that takes an event; `_XFreeDisplayStructure` |
| Display open and close, extensions | everything the `Display` points at, the list of extensions | `XOpenDisplay` with its failure exits, `XCloseDisplay`, `XInitExtension`, the extensions' functions | frees what all other components have added |
| Functions that use a reply | the reply under way, what they allocate | 46 functions from `XGetWindowAttributes` to `XListFontsWithInfo` | Transport (`_XReply`, `_XRead`, `_XEatData`) |
| Request encoding, GC cache | output buffer, last request, GC shadow values and dirty bits | `GetReq`, poly-request merging, `XChangeGC`, `FlushGC` | Transport when the buffer is full |
| Quarks, contexts, regions, resource manager | hash tables, band lists, database trees | `XrmStringToQuark`, `XSaveContext`, `XUnionRegion`..., `XrmPutResource`/`XrmGetResource`... | |
| XKB (`XKBMAlloc.c`, `XKBMisc.c`, `XKBGetMap.c`, `XKBBind.c`, `XKBUse.c`) | keyboard description: types, one array of all keys' symbols and one of actions; pending changes, event selection | `XkbGetMap`, `XkbGetUpdatedMap`, `XkbChangeTypesOfKey`, `XkbResizeKeyType`, `XkbUpdateMapFromCore`, `XkbChangeKeycodeRange`, key translation; `XkbSelectEvents`, `XkbRefreshKeyboardMapping` | replies; event wire hooks |
| Input methods (`modules/im/ximcp`) | connection to the input method server, per-context sync state, commit queue; compose tree | `XFilterEvent`, `XmbLookupString`, `_XimRead`/`_XimWrite`, callbacks | event queue, selections, filters |
| Output methods, locales, Xcms, images, wrappers, texts | tables, converters, colour spaces | conversions | mostly sequential data transformation |

What is hard in this code: the display lock is given up in the middle of a call
at six places (around `xcb_wait_for_reply64`, around `xcb_wait_for_event`, in
`ConditionWait`, around the application's error handler, in `_XAllocIDs`, in
upcalls); responses must nevertheless be processed in sequence order, whichever
thread happens to have read them; the list of pending requests tells who is
waiting for what; two kinds of lock are nested with rules about who may ignore
which; and the calls that scan the event queue keep pointers into it while other
threads work on it.  `PROJECT.json` lists these hazards line by line.

### What makes each component correct

* Transport: a call returns the answer to its own request; responses are
  processed in sequence order; no event is lost or duplicated; a call reports an
  I/O error only when the connection fails; every round trip comes back; one
  thread at a time reads XCB's event queue and one waits for a reply.
* Display lock: exclusion; the user lock excludes other threads except those
  that relock inside a call; no thread sleeps for ever.
* Event queue: events leave in order, each once; a scan looks at every event.
* Sequence numbers and ids: the widened number is the number the request had, an
  id is in store whenever a call needs one, and the application's after function
  is never lost.
* Internal connections: each watcher's data stays with it.
* Atoms, quarks, contexts, GC cache, regions, resource manager: the cache or the
  structure agrees with its abstract meaning after every sequence of calls.
* Requests: what the server draws is what was called for, with the values that the
  GC had then, however calls are merged, split and flushed.
* Replies: every byte of a reply is taken, an error is reported once and to
  whom it concerns, and what was allocated is returned or freed, once.
* Generic event data: one owner at a time, and the data belong to the event.
* Opening and closing: what was allocated is freed, wherever opening stops.
* Input methods: messages are read whole and in order; what the user types reaches server
  and application in that order; nobody waits for a reply that does not come.

## 2. The modules

| Module | What it is |
|---|---|
| `DisplayLock` | the functions of `struct _XLockPtrs` as predicates on the lock's variables; `XcbIo`, `EventQueue` and `SeqSync` extend it |
| `XcbIo` | `xcb_io.c` and the calls around it: any number of threads running scripts of calls against XCB and a server |
| `XcbIoInv` | three inductive invariants of `XcbIo` in named parts, and what is beyond them |
| `XcbIoProofs`, `XcbReadersProofs` | the proofs of the first, and of the other two, with the theorems that follow |
| `EventStream` | what the event queue promises: a queue of events without threads, elements or serial numbers |
| `EventQueue` | the linked queue and the calls that scan it, for any number of threads; implements `EventStream` |
| `EventQueueProofs`, `EventStreamProofs` | proofs about it: the linked lists, the scans and the lock; the items, the searches and the refinement |
| `SequenceNumbers` | the two functions that complete a sequence number |
| `SeqSync` | what `LockDisplay` and `SyncHandle` do between calls: round trips that keep the numbers apart, the id in store, the after function |
| `SeqSyncProofs` | proofs about it, for any threads and sizes |
| `ConnWatch`, `ConnWatchProofs` | internal connections, their watchers and the loop that polls them; proofs about it |
| `AtomCache`, `AtomCacheProofs` | the cache of atoms, the calls that use it and their async handlers; proofs about it |
| `Drawing` | graphics contexts with their dirty bits, and the requests that use them |
| `PolygonRegions`, `Regions` | the scan conversion of polygons; regions as bands of boxes and the operations on them |
| `Contexts` | the table of `XSaveContext`, with threads |
| `Quarks` | the table of quarks, with threads |
| `Xrm` | resource databases and the search in them |
| `Replies` | the functions that make a request and use its reply |
| `Cookies`, `DisplayLife` | the data of generic events; the life of a `Display` with them |
| `DisplayLifeProofs` | proofs about both |
| `CoreSymbols` | how symbols in the core protocol's order become groups and types of XKB |
| `KeyMap` | a keyboard description and the calls that change it |
| `XimTransport` | how messages of an input method server become X events and are put together again |
| `XimClient` | keys, texts, synchronization, callbacks and focus between the client of an input method and its server |
| `MCXcbIo`, `MCEventQueue` | the instances of the first two that TLC runs |
| `MCDisplayParts` | extends `SeqSync` and `ConnWatch`, with instances of `Drawing`, `XimTransport`, `XimClient` and `KeyMap`; one is in use in a behaviour |
| `MCStructures` | extends `DisplayLife` and `AtomCache`, with instances of `Regions`, `Contexts`, `Quarks`, `Xrm` and `Replies`, likewise |

`XcbIo`, `EventQueue` and `SeqSync` share the lock (`DisplayLock`), `SeqSync` the
numbers (`SequenceNumbers`); `EventQueue` implements `EventStream`;
`DisplayLife` extends `Cookies`, `KeyMap` extends `CoreSymbols`.  The others share no variable with each other:
where the code of one calls another (a polling loop inside `_XReply`, a flush inside
a call on atoms) the module has a step at which anything else may happen.

### How `XcbIo` corresponds to the code

*Variables.*  The variables of the `Display` have the code's names
(`pending_requests`, `next_event`, `event_waiter`, ...).  `X_DPY_GET_REQUEST` is
`Len(issued)`; `issued[s]` says whether request `s` has a reply.  The event
queue is its length (`qlen`) and the next serial number.  `pc[t]` is where thread
`t` is, and `local[t]` its automatic variables: `current` and `req` of `_XReply`
(sequence numbers stand for pointers into the list), the response and error it
holds, the event it took from XCB, the place to return to.  `fatal` is the
failure that ends the process: an assertion, `_XIOError` (whose default handler
exits) or a null pointer.

*Atomicity.*  One action is the code between two places where something else
may happen: another thread while the lock is not held, or the server's packets
arriving while a thread is inside a call of XCB that reads the connection
(`Reading`).  That is why `poll_for_response` is three actions, `Poll` (steps 1
to 3), `PollReply` (step 4) and `PollAgain` (steps 5 and 6).

| Code | Actions |
|---|---|
| `LockDisplay`, `UnlockDisplay` (`locking.c:457,209`) | `LockDisplay`, `UnlockDisplay` |
| `ConditionWait`, `ConditionBroadcast` | `SleepAt`, `Resume`, `ConditionBroadcast` |
| `_XGetRequest` | `GetRequest`, `FlushFullBuffer` |
| `_XSend`, `_XFlush` | `AfterXSend`, `XSend`, `XFlush` |
| `_XReply` (`xcb_io.c:664-824`) | `XReply`, `ReplyLoop`, `WaitForReply`, `GotReply`, the polling actions, `FinishReply`, `ReplyDone` |
| `poll_for_event`, `poll_for_response`, `handle_response` | `TakeNextEvent`, `LeaveNextEvent`, `Poll`, `PollReply`, `PollAgain`, `Answer`, `HandleResponse` |
| `_XReadEvents`, `XNextEvent` | `NextEvent`, `ReadLoop`, `WaitForEvent`, `GotEvent`, `NoResponse`, `TakeEvent` |
| `_XError` and the application's handler | `XError`, `UserErrorHandler` |
| `XPending`, `XFlush` | `EventsQueued` |
| `XLockDisplay`, `XUnlockDisplay` | the same |

*XCB and the server* are not in `src/` and are modelled from how the code uses
them: XCB numbers every packet, keeps events and unchecked errors in one queue,
replies and checked errors by number, and learns from each packet that the
requests before it are finished.  The server answers requests in order, may
answer any with an error, and may send events at any time.

Every request of the model fits in an empty buffer, so that `_XGetRequest` does not return NULL.
*Left out*: what a reply contains (`_XRead`, `_XEatData`, extra data, multiple
replies to one request), a connection that fails, `return_socket`, internal
connections.  Sequence numbers do not wrap here; that is `SeqSync`.

### How `EventQueue` corresponds to the code

An element (`_XQEvent`) is a number below `NumElements`; `next`, `qserial_num`
and `event` are its fields, `head`, `tail`, `qfree`, `qlen` and
`next_event_serial_num` the `Display`'s.  `event[e]` is the number of the item
the server sent, whose `kind` a call accepts or not.  `local[t]` holds what a scan
keeps in automatic variables: `prev`, `qe_serial` and the pass `n`.

| Code | Actions |
|---|---|
| `_XEnq`, `_XDeq` | `Enq`, `Deq` (used by the actions that call them) |
| the loops of `XIfEvent`, `XCheckIfEvent`, `XPeekIfEvent`, `XMaskEvent`, `XCheckMaskEvent`; the others differ in the test only | `Scan`, `AfterRead` |
| the prologue and epilogue of the `...IfEvent` calls | `EnterIfEvent`, `Leave` |
| `XNextEvent`, `XPeekEvent` | `NextEvent`, `TakeHead` |
| `XPutBackEvent` | `PutBack` |
| `XSync` with discard | `RoundTrip`, `WaitForReply`, `Discard` |
| `XPending` and `_XEventsQueued` | `Pending`, `Poll` |
| `_XReadEvents` | `ReadLoop`, `WaitForEvent`, `AfterPoll` |
| `_XError` and the application's handler, for an X error that arrives | `XError`, `UserErrorHandler` |

The transport is reduced to items that arrive in order, taken in by one thread at
a time; the lock is released at the same places as in `XcbIo`.  *Left out*:
predicates that call Xlib themselves, failure to allocate an element; the data of
generic events are in `Cookies`.

### How `SeqSync` corresponds to the code

A thread goes round `LockDisplay` -- `_XIDHandler` -- `_XSeqSyncFunction` -- the
call -- `SyncHandle`; without lock functions the middle two are in
`_XPrivSyncFunction`, which `_XSend`, `_XAllocID` and `_XSeqSyncFunction` install as
the after function.  `Widen` and `NewSeq` are `widen` and
`_XSetLastRequestRead` with the moduli as constants.  The request that a round
trip makes and the flush of the buffer are one step (`Flush`), since nothing
else happens between them.  Packets are read in order (`ReadEvent`, `GotReply`);
that this is so is the business of `XcbIo`.  With a buffer so large that every
flush is a hazard (`SyncHazard`) the private function is there from the first flush,
that of `XOpenDisplay`.  The server sends no event for a later request before it has
replied to a thread that waits (`AwaitsReply`).  *Left out*: the application's after
function itself, `_XAllocIDs` for more than one id.

### The parts of a Display

*`ConnWatch`* (`XlibInt.c:125-612`, `xcb_io.c:101-145`).  A connection's array of
watch data is a sequence of bytes, each named by the watcher whose pointer it
belongs to, because the code moves bytes.  What runs with the display locked is
one action (`RegisterInternalConnection`, `AddConnectionWatch`, ...); a thread in a
callback is at "Callback", where other threads work; `check_internal_connections`
goes on from the connection it had, also if that has been freed.  `pollfds` is the cache of
descriptors behind the display's own entry.  `CacheAdd` and `CacheDel` write it as the code does, and
what they would write behind the array is noted in `overrun`; nothing reads it, because
`check_internal_connections` makes up its own `fd_set`.  `most` is the greatest number of connections so
far, and `overtaken` notes that a callback returned and cleared the flag while another
thread was in the loop.

*`AtomCache`* (`IntAtom.c`, `GetAtomNm.c`).  `table` is the hash table; `Path` the order in
which slots are looked at.  A thread gives up the lock while it waits for its
last answer; the handlers of the calls that wait run for each answer that any
thread reads, newest first (`Read`).  An atom is named by its name, so that
`CacheTrue` can say that an entry is right.  *Left out*: running out of memory.

*`Drawing`* (`GCMisc.c`, `CrGC.c`, `CopyGC.c`, `DrPoint.c`, `DrLine.c`, `PolyTxt.c` ...).  One call
is one action.  `gcs` is what the library has (values, dirty bits, whether the
values may differ), `requests` the output buffer, `server` what the server has
drawn; `wanted` and `called` are the same as the application sees it.  An image string
ends at the request whose round trip fails.

### The input method

*`XimTransport`* (`imTransR.c`, `imTrX.c`).  A message is a sequence of as many numbers as
it has bytes: the header, which is its length, then its own number again and again;
0 is what fills a ClientMessage up.  `reader` is a call of `_XimReadData` in progress
with its buffer, `hold_data` what is held between calls.  `FilterWaitEvent` and
`Read` are the two that call it, `Begin` its work on what is held, `ReadEvent` one call of
`im->private.proto.read`, `Overflow` the second attempt with a larger buffer.  The
server cuts its messages as `_XimXWrite` does.

*`XimClient`* (`imDefFlt.c`, `imDefLkup.c`, `imDefIc.c`, `imCallbk.c`).  `event_queue` holds keys, changes of
focus and messages as they come; `NextEvent` is the application's loop of `XNextEvent`,
`XFilterEvent` and what it does with an event that is not filtered, `Read` one
message for a call that waits in `_XimRead` (`caller`).  The flags `FABRICATED` and
`NEED_SYNC_REPLY`, the committed texts, newest first, and the callbacks put off have
the code's names.  A mode says how the two synchronize, whether keys
switch the event flow, how many texts a key may lead to, and whether the application
makes calls and moves the focus.  The server is not in `src/`; it does what
`specs/XIM/xim.xml` lets it do.

| Code | Actions |
|---|---|
| `_XimProtoKeypressFilter`, `_XimPendingFilter`, `_XimForwardEvent`, `_XimTriggerNotify` | `ProtoKeypressFilter`, `PendingFilter`, `ForwardEvent`, `TriggerNotify` |
| the callbacks of `_XimXCallDispatcher` | `CallDispatcher` |
| `_XimCbDispatch` | `CbDispatch` |
| `XmbLookupString` | `LookupString` |
| `XSetICFocus`, `XUnsetICFocus` with `BrokenSyncWithServer` | `SyncWithServer`, `Finish` |
| `XSetICValues`, `XmbResetIC` | `Call`, `Finish` |

*Left out*: connecting, creating contexts, attributes and their conversion, errors
from the server, servers that go away, the transports other than by ClientMessage.

### The structures

*`Regions`* translates `miRegionOp`, `miCoalesce`, the three overlap functions, the
shrinking by doubling and the queries as functions on sequences of boxes;
`PolygonRegions` the edge table and the winding rule.  `points` is the set of points
that the calls describe.  *Left out*: sizes of arrays, 16-bit overflow.

*`Contexts`* and *`Quarks`* give each thread a place (`at`, `idx`) between the steps that
the code makes under separate locks.  A chain is found in a table that may
be freed meanwhile.

*`Xrm`* keeps the tree of tables in the order of the code's chains; `XrmQGetResource`
is the search as written, with GTIGHT and GLOOSE; `BestMatch` is the
manual's rules (`specs/libX11/CH15.xml`), stated without a tree.

### The functions that use a reply

In *`Replies`* a call is a list of what it does with the display and with memory (`XReply`,
`XRead`, `XEatData`, `Malloc`, `Free`, `XError`, `Return`), a function of the answers and
of the allocations that succeed; `Start` chooses both, and the actions work the list
off as `_XReply`, `_XRead`, `_XEatData` and `UnlockDisplay` do, the asserts of `xcb_io.c` included.
The connection does not fail.  Most replies are well formed; some contradict themselves,
and `malformed` says in what: hosts that do not fit in the reply (the `fail` path of `XListHosts`, which
leaves the display locked: `LeftLocked`), the data of a font longer (or, for
`_XF86BigfontQueryFont`, shorter) than its counts say, an index of a character that is too large.
That function's branch for shared memory is there with its own allocations and ways out, a segment that is
the server's of another machine among them.
Counts go up to two, so that a loop runs never, once and again; a buffer of the
caller has 4 bytes instead of 256 (`XGetPointerMapping`), `XQueryColors` asks for 2 colours at a
time.  Sizes near `INT_MAX` are left out.

### The life of a Display

*`Cookies`* has the event queue as a sequence (that the linked list is one, `EventQueue`
shows), the jar, what each thread holds, and the free list, whose
elements keep data pointers.  A block of data is named by the event and the
cookie it was made for.  The calls are `Call` (before they wait), `Resume` (after),
`XGetEventData`, `XFreeEventData`, `XPutBackEvent`, `XSync`; an application frees what it has
claimed before it asks for another event.  `borrowed` is an event that came with the
queue's own pointer, after a copy that failed or from `XPutBackEvent`.  The application may
use it as if it had claimed the data; `unearned` notes when it has freed or claimed
through such a pointer, or put it back after the data were freed.

*`DisplayLife`* writes `XOpenDisplay` as a sequence of steps: an allocation (`Needs`), some
that are looked at together (`Together`), a test (`Check`), something it can do without
(`Wants`).  Any may fail (`OpenFailed`).  `XCloseDisplay` is three actions, because the
extensions' functions may make requests, wait for replies and so read events.
The instance uses a display in one of three ways (`Uses`).

### The keyboard description

*`KeyMap`* has the description as the code has it (`xkb`): for each key the types of its
groups, their number, the width and a place in `syms`, and in `key_acts` a place in
`acts`.  Arrays are functions from 0; what is read beyond them is `Garbage`.  `XkbResizeKeySyms`
and `XkbResizeKeyActions` move a key to the end or pack everything into a larger array.
An action is known by the symbol it comes from, a type by its number of levels.
`symbols` and `actions` say what each key was last given, by group and level,
whatever its place; `core` the list of core symbols, if it was that.  `widened` and `outgrown` mark
the two things that the code does not do right (section 4); after the first
nothing more is asked of the description.

*`CoreSymbols`* is `XkbKeyTypesForCoreSymbols` step by step, on a flat array like the code's;
`CorePair` in `KeyMap` is the core protocol's rule for the same list, stated without
groups.  `ExplicitInterpret` are the keys whose actions are explicit, which
`XkbApplyCompatMapToKey` leaves alone (every key, if there is no compatibility map); when such a key changes
its shape it keeps what fits (`ReshapedActions`).

*Left out*: the record of changes that the calls may be given and `XkbSetMap`, which
sends it; events and the refresh of Xlib's own description (`XKBUse.c`); how an
interpretation is chosen, with modifiers and virtual modifiers; behaviours, names,
indicators, geometry; failing memory.

## 3. The runs

| Run | Instance | Shows |
|---|---|---|
| `xcb_repliers` | one thread making every kind of call, or two threads making round trips with an async handler, with either owner of the event queue; 2 events, 2 errors | responses in order, each answer stays available to its caller, no I/O error on a good connection, every round trip returns, and the invariant that is proved |
| `xcb_readers` | two threads in `XNextEvent`, one making requests and a round trip with an async handler; 2 events, 2 errors | one reply reader, sorted list, no event lost or duplicated, the round trip returns; up to the first error one reader at a time and each gets an event |
| `queue_scans` | a scan that waits, one that checks and a thread that takes or discards; one thread in `XIfEvent` among others; one thread alone putting events back; 3 items, 1 error | the lists stay sound and so do the places of the scans, nothing a scan waits for is missed, the lock excludes, the predicate sees each event once, the queue implements `EventStream`, calls return |
| `display_parts` | two threads with the lock functions, or one without, and numbers that wrap at 8 and at 16; three threads on three connections and three watchers; sequences of up to six calls on two GCs; three messages of seven sizes; three keys, one call, one change of focus and two input contexts, in four modes; a keyboard description of three keys | the numbers stay less than 2^16 apart and are completed rightly, an id is ready if one thread creates resources, the after function is kept; watchers are told of each connection once and get their data back, one thread polls unless a callback of another clears the flag, the flag is never left behind, the poll cache is current while it has room and not overrun with fewer connections than it has entries; what is drawn is what was called for; messages come whole and in order; keys and texts come in the user's order to server and application; who waits for a sync reply gets it; every key keeps its symbols and actions, and core symbols are looked up by the core protocol's rule |
| `structures` | regions on a board of 3 by 3 points; two threads on contexts and on quarks; databases of 13 specifiers; 46 functions that use a reply; a `Display` with two screens, two threads and three generic events; two threads on five atoms in four slots | regions cover the right points in one form; associations and quarks are found through every resize; queries follow the precedence rules; replies are taken and memory accounted for, except with three kinds of contradictory reply, and errors are reported; data of events have one owner while nobody uses the queue's own pointer; a closed display leaves nothing behind but what is named; the atom cache and the answers are right, reserved slots belong to a call |
| `xcb_error_taken`, `xcb_user_lock`, `queue_two_if_events`, `conn_slots`, `atom_names`, `xim_order`, `xrm_loose` | small ones | section 4 |

The parts of `display_parts` and of `structures` are alternatives: the initial state
chooses one, the others do not move, and a property speaks of its part.  (Parts of
the same run cost the sum of their states, not the product.)

Constants: `Threads`; `Setups` (a script for each thread and the owner of the event
queue) and `Scripts` are sets, one of whose members is chosen in the initial
state; `MaxEvents`, `MaxItems`, `MaxErrors` bound what the server sends,
`BufferSize` and `BufferReqs` are the requests that fill the buffer (words in
`Drawing`),
`NumElements` the elements ever allocated, `MaxRequest` and `MaxUnread` the requests
made and the packets not read, and `FirstRequest` the requests made and answered
before the instance begins.

*Why these bounds.*  A hazard of the transport needs a thread in `_XReply`, one in
`_XReadEvents` and at most one more that interferes, an event or error in XCB's
queue and one behind it; three threads, two events and two errors give every
combination.  A buffer of one or two requests makes the full-buffer flush happen
inside `_XGetRequest`.  For the queue, three items and three elements let an
element be taken, freed and used again while a scan remembers it, with a second
event still in the queue.  For the numbers, the constants keep the order of the
real ones: the private after function is due (`SyncHazard`) before the round
trip (`SyncDue`), and the room left after `SyncDue` (512 requests in the code)
is exactly what two threads may use before the answer (`RoomAssumption`), so
that one request less of room would break `SpanBelowModulus`.  The requests go on
until both moduli have been passed.

For the connections, three watchers with pointers of two bytes let a removed slot
have two behind it, and of a cache of two descriptors, one the display's, the second
connection is written behind it and the third is not written.  Five names hash into four slots, so that slots collide, are
evicted and are full; one refused request is enough for a handler to lose step.
A buffer of six words and two items in a request split and flush every drawing
call.  A board of three by three points has every relation of two boxes in
one dimension; three calls after a polygon let bands be joined and taken apart.
A first table of two chains (four places for quarks) grows twice with six
entries.  Three stores suffice for every pair of specifiers to be inserted in either
order and then combined, and for a database to be destroyed and filled again.  A function that loops over a reply is run with
lengths 0, 1 and 2.  Three cookies and five steps let data be put back, discarded and
have their element used again while another thread holds or waits for an event;
two screens let the second fail; two extensions let one make a request after
the other's round trip.  Tables are made one by one and freed by one function, so three at once
(`MaxTables`) show what any number would.

Three keys, one of them without symbols, let one that moves have a neighbour on each side; a fourth keycode comes in by
`XkbChangeKeycodeRange` and goes out with the next reply.  The actions of one are explicit.  A fifth type, of three levels, is the only
one that may be resized.  The arrays grow by 4 and 2 entries instead of 32 (128) and 8, so that
three calls both find room and have to pack.  One letter, one symbol without case, one of
the keypad and one explicit type for a third group take every step of `CoreSymbols`
except those for explicit types of the first two groups.

For the input method, an event carries three bytes, so that messages fill one event
exactly, less than one, or several; the reader's buffer has ten, and messages in
properties fill it, so that the second attempt is made.  Three keys let a key wait
behind another that has been forwarded while a text of it is put back.  The modes are
those in which what the server sends for one key comes before the next key is
looked at: full synchronization, static or dynamic, with one answer to a key, calls and a move of
the focus; synchronization on demand with two answers and calls; none with two answers.
Section 4 says what happens in the others.

The largest instance (`display_parts`) has about 390,000 states, and every action and every
disjunct is taken in some passing run.

*Type invariants.*  `IInv` contains `XcbIo`'s `TypeOK`; those of `EventQueue`, `SeqSync` and `ConnWatch` are
parts of invariants that are proved, and `AtomCache`'s follows from one (section 5).  `TypeOK` of
`Drawing` and `Xrm`, `TransportTypeOK` and `XimTypeOK` hold in the same instances; no run
lists them, because they are no more than that.

*Deadlock.*  All passing runs check for deadlock: the system may stop only in
`Stopped` (every script at its end, every remaining thread blocked for events
that do not come, the process ended, or the bound on requests reached).
In `structures` only the calls on atoms must come to an end: the other structures are used until
a bound is reached or the application leaves them alone, and a closed display stays closed (`Resting`).
The violation runs of the transport and the queue look for one property and turn the check off.

*Fairness.*  `FairSpec` of `XcbIo` has weak fairness of each thread (the scheduler
runs every thread that can take a step, and the mutex is eventually granted) and
of `ServerReply` (the server answers); that of `EventQueue` has the threads only.
Nothing is assumed of events, errors or the scripts: a thread blocked in
`XNextEvent` may stay there.

*Mutants.*  For each property of each passing run, `PROJECT.json` names a plausible
bug (operators `Mut...`, beside what they change) that makes TLC find the
property violated.

## 4. What does not hold

Each of these is a run that TLC ends with a counterexample.

1. `xcb_error_taken` -- after `xcb_wait_for_reply64` the code assumes that it need
   not look for earlier responses while another thread is blocked for events.
   That thread may have the error for this request and not have the lock:
   `_XReply` has neither reply nor error and reports an I/O error on a good
   connection.
2. `xcb_user_lock` -- `_XError` waits for the user lock while its thread keeps
   its place at the head of the pending requests; the holder of the user lock
   waits for a reply behind it.  Both wait for ever.
3. `queue_two_if_events` -- `ifevent_thread` is one variable for all threads.  Of
   two threads in `XIfEvent` the one that entered last skips the unlock when it
   leaves and keeps the display locked.
4. `conn_slots` -- `XRemoveConnectionWatch` moves the slots behind the removed one by
   a count of pointers used as a count of bytes; a later watcher finds a
   mixture of two pointers.
5. `atom_names` -- after a refused atom the handler of `XGetAtomNames` stays at that
   atom and stores and caches the next name for it.
6. `xim_order` -- a server that commits two texts for one key, with full synchronization:
   the texts are kept newest first and their events share one mark, so that
   the application gets the second text first, and the event of the first goes to
   the server as a new key.
7. `xrm_loose` -- the search steps from the tight table of a name to the next
   one without a look whether that one is loose; a query gets the value of a
   specifier that does not match.

Runs 1 and 2 need an X error in a program with two or more threads on one
`Display`.

### Seen on the way

These have no run of their own.  Where a property has a condition or an exception,
this is why.

*Transport and locks.*

* The race of run 1 with an event instead of an error lets `last_request_read` go
  backwards: `ResponsesInOrder` fails with a reader beside a replier.
* The loops that poll for responses test `event_waiter` once; the error handler
  called in the loop releases the lock, another thread blocks for events, and
  `poll_for_event`'s assertion fails; or another thread takes the event that
  `_XReadEvents` had read, and `XNextEvent` dereferences a null head.
  `ReadersUndisturbed` is about the time up to the first error.
* `poll_for_response` keeps a response that came with an event in `next_response` and
  returns the event.  If that is an error, its handler runs with the display
  unlocked.  Another thread may then come to the loop of `_XReply`, wait for the very request that the
  kept response belongs to (the head of the list, whose answer an async handler is to get),
  find that XCB has no answer any more, and remove the request from the list; after that the kept
  response is taken for the answer to the next request.
  The comment at `src/src/xcb_io.c:323` ("We have some response (error or reply) related to
  req saved from an earlier invocation") is not true of that call.  TLC finds it in 53 steps, with two round trips
  through async handlers in one thread and a plain one in the other.
* `XLockDisplay`'s comment promises that the threads waiting for replies get out
  first; the list it looks at (`reply_awaiters`) is filled nowhere.
* `_XLockDisplay` sees to the id first and makes the round trip of
  `_XSeqSyncFunction` afterwards, which lets another thread take the id: the
  assertion of `_XAllocID` fails.  It takes 65023 requests without an answer and
  two threads that create resources; `IdReady` is checked with one (`Allocators`).
* An event that is put back while another thread waits in a scan goes to the
  head of the queue, where the scan does not look again: `NothingMissed` is
  checked with `XPutBackEvent` in one thread only.
* A thread blocked inside `XIfEvent` keeps the mutex, so that no other thread's call
  returns until an event comes: `CallsReturn` promises a return while no thread
  keeps the lock like that.
* The list of internal connections is walked on from an element that a callback
  may have freed (`xcb_io.c:136`).  `XProcessInternalConnection` clears the flag of the loop when its
  callback returns, so that a second thread may enter the loop (`OnePollerAlways` in `ConnWatch`,
  which TLC refutes; `OnePoller` is about the time before).
* The tests of the descriptor cache (`XlibInt.c:160`, `:177`) let as many connections pass as
  it has entries, although the first entry is the display's: with the fifth connection one is
  written behind the array (`WithinCache`, which TLC refutes).  Nothing reads the cache.  The comments of `imTrans.c:119,134` take the display for
  locked where the input method registers its connection; it is not.

*Atoms.*  A slot reserved by a call that is interrupted by a flush may be lost, or
be read as an entry (`ReservedInUse` says when not).  `XInternAtom` with an error
for want of memory returns what was in its reply structure.  `XGetAtomNames`
reports success if only its last request fails.

*Replies.*  Wrappers that ignore `_XReply`'s status use the reply uninitialised after
an I/O error (`GetFPath.c`, `ModMap.c`).  `XListHosts` returns from its `fail` path with the
display locked (`LiHosts.c:159`), which is the exception "hosts" of `RepliesTaken`.  `XListFontsWithInfo` waits for several replies to one
request; with another thread in `_XReply` it may take that one's (`FontInfo.c:73`).
`_XF86BigfontQueryFont` keeps `per_char` if an index is too large (`Font.c:546`), the exception
"index" of `MemoryAccounted`; and it does not compare `nbytes` with what is left of the reply
(`Font.c:526-543`), so that too few data, or data left over, make the next check of `xcb_io.c` end the
process (the exception "length").
`PutSubImage` halves a width in bits (`PutImage.c:908`).

*Structures.*  Boxes that `XPolygonRegion` makes may touch within a band, against the
comment at `Region.c:60`; `XRectInRegion` and `XEqualRegion` are then wrong
(`RectInRegionTrue` in `Regions`).  `XIntersectRegion` with the same region as both
sources and as destination allocates nothing and then never has room
(`Xregion.h:113`).  Two threads that save contexts, or one that resizes the table while another
saves, lose an association (`SavesArePermanent` in `Contexts`).  `quarkMask` is read
before the lock, so that a string may get two quarks (`OneQuark` in `Quarks`).
`XrmCombineDatabase` takes two locks in the caller's order.

*Keyboard descriptions.*

* `XkbResizeKeyType` with more levels lays the symbols out at the new distance, but leaves the
  keys' `width`; it leaves the actions, and the size of the new array does not count keys
  narrower than the type was.  `specs/XKB/ch15.xml:934-939` says that the symbols and actions
  bound to the keys are reallocated.  `KeymapTrue` is about the time before (`widened`).
* `_XkbReadKeySyms` stores the new shape of a key before `XkbResizeKeyActions` asks
  whether its old place is large enough, so that the answer is always yes: a key that has
  actions and grows writes over its neighbour's.  The same after `XkbChangeTypesOfKey` to no
  groups and back, which keeps `key_acts` (`outgrown`).
* Step 6 of `XkbKeyTypesForCoreSymbols` copies the first group to place 2, where the second
  is only if groups are two wide; with a wider explicit third type the second stays
  empty (`CoreRuled`).  Step 7 takes symbols of one-level groups from the places they would
  have without gaps.
* `_XkbAddKeyChange` extends the record of changes to what it held before and not to the
  new key, and the early returns of `XkbChangeTypesOfKey` (no groups, or none before) note
  nothing, although `specs/XKB/ch15.xml:2252-2270` says that the range includes the key.

*Input methods.*

* `_XimReadData` compares a packet with what is left of its buffer, and its callers try
  again with a buffer of the packet's size only; a message longer than the first buffer
  (2048 bytes) is never read, although `specs/XIM/xim.xml:3452` has large data sent
  in properties.  `MessagesRead` is checked up to that size.
* Synchronization on demand with moves of the focus: a text that is dispatched while
  `XUnsetICFocus` waits is put back, but the filter is gone when its event comes, so that
  XIM_SYNC_REPLY is not sent and the mark stays for the next key (`SyncReplied`
  fails).  Without synchronization and with calls or moves, several messages are dispatched
  in one call and put back in front of each other (`InputInOrder` fails).
* `_XimProcessPendingCallbacks` runs only when another callback comes, so that one that was put
  off may wait for ever, and calls before it unlinks.  `_XimDestroyICCheck`
  recognises the XIM_ERROR for its context and returns False for it too, so the wait
  for the reply goes on.  `_XimTriggerNotify` allocates a larger buffer and reads into the
  small one (`imDefLkup.c:551`).  `XmbResetIC` joins committed texts newest first.

*Opening, closing and generic events.*  `AllFreed` in `DisplayLife`, which is what the comment
at `OpenDis.c:574` says, does not hold; `LeftBehind` has the exceptions:

* the GCs of earlier screens, if that of a later one cannot be made;
* the watchers after the first (an `if` where a `while` is meant, `OpenDis.c:690`);
* the events that are read while an extension's `close_display` waits for a reply;
* data on the free list whose element is used again: `XSync` that discards moves the
  queue there as it is, and `_XEnq` and `XPutBackEvent` write over the pointers.

`OutOfMemory` dereferences `dpy->xcb`, which is null when the first allocations of
`XOpenDisplay` fail, in spite of the comment above `_XFreeDisplayStructure`;
`_XFreeDisplayLock` reads `free_cvls` before it is set if a condition variable or the mutex
cannot be had; `XESetWireToError` fills a table that it may not have got.
An event that is not claimed and put back takes its data along, and the application's event is given the
pointer to them (`PutBEvent.c:56`); so is that of a call that peeks when the copy cannot be made
(`PeekEvent.c:47`, `PeekIfEv.c:65`).  `XFreeEventData` frees whatever it finds
(`FreeEventData.c:34`), and the example at `man/XGetEventData.man:99-110` always calls it: the data in the
queue are freed, and again with their event (`AlwaysOwned` in `Cookies`, which TLC refutes in
four steps).  `XGetEventData` with such a number loses data too: another thread that has the same
number may put its event back without them, and a second claim then writes over the first pointer.
`OneOwner` and `LeftBehind` are about the time before.  `XPutBackEvent` of
a claimed event that cannot be copied puts back an event of type 0.

## 5. What is proved

`XcbIoProofs` proves, for any set of threads, any scripts, either owner of the
event queue, any numbers of events and errors and any buffer size:

* `Invariant`: `Spec => []IInv`;
* `TypeCorrect`: `Spec => []TypeOK`;
* `PendingAlwaysInOrder`: `Spec => []PendingInOrder`;
* `AlwaysOneReplyReader`: `Spec => []OneReplyReader`.

The assumptions are those named in `DisplayLock` and `XcbIo` (`NoThread` is not
a thread, scripts are sequences of calls, bounds are numbers).

*The argument.*  "At most one thread waits for a reply, and it is the reply to
the head of the list" is not inductive.  `IInv` adds what it rests on:

* `LockHeld` -- a thread at a place inside a critical section has the mutex, so
  two threads never change the list at once;
* `PendingSorted` -- the list is sorted and all its requests were flushed, so
  that a new request goes to the end;
* `ClaimIsHead` -- the thread with dibs (waiting, polling or finishing in
  `_XReply`) waits for the head, which is marked, and is the only one.  The
  place of a thread asleep or in the error handler is the one it returns to
  (`Place`): a thread keeps its dibs through an error handler;
* `CurrentListed` -- the request of a thread in `_XReply` is in the list and
  marked, so that nobody else takes its reply or removes it;
* `CurrentDistinct` -- threads in `_XReply` want different requests, and none
  waits for another's; otherwise finishing would unmark or remove the request
  of a thread that still wants it;
* `AtPlaces` -- what one action establishes for the next within a critical
  section.

The proof has one lemma per way a step treats the list (`QueueFrame`,
`QueueXReply`, `QueueReplyLoop`, `QueueDequeue`, `QueueFinishReply`,
`QueuePoll`, `QueueOther`), one for the lock (`LockHeldStep`), one for the
places (`PlaceStep`), and one for each group of types.

### The transport, beyond `IInv`

`XcbReadersProofs` proves three more invariants of `XcbIo`, each on top of `IInv`.

* `ReadersInvariance`, `ReadersStayUndisturbed`: while the server has sent no error, one thread
  at a time reads XCB's event queue, `_XReadEvents` returns with an event, no assertion
  fails and no I/O error is reported.  The only hypothesis is `EventsThroughXlib`: a client that gave
  the event queue to XCB does not call `XNextEvent`, which would find none and fail.
* `EventsStayConserved`: `EventsConserved` for any scripts, either owner, with and without errors.
* `AnswersInvariance`, `AnswersReachCaller`, `AnswersStayWithCaller`: if no thread calls
  `XNextEvent` (`NoReaders`: a client that only makes requests and round trips, or one
  whose events XCB has), the answer to each request stays where the thread that asked for it finds
  it, and `_XReply` never reports an I/O error on a good connection -- with any errors,
  and with handlers that unlock the display in the middle of the loops.  With one thread in `XNextEvent`
  TLC refutes both (run `xcb_error_taken`), so the hypothesis is what the code needs.

*The argument of the first.*  `RInv` says three things.  `event_waiter` is set exactly while one
thread is blocked in `xcb_wait_for_event` (`WaiterTrue`).  As long as there is no error
anywhere -- in a list, in a thread's variables, or on the way to a handler
(`NoErrorSeen`) -- no thread gives up the lock inside the loops that poll, so that
what they tested still holds (`PollsGuarded`).  And the reply each thread in `_XReply` asked for
is still to come, or XCB has it, or the thread has it (`RepliesKept`).  The condition on
errors is needed: after one, the handler runs with the display unlocked in the
middle of the loops, and TLC refutes all three.

*The argument of the second.*  An event is counted where it is: with the server, in XCB's
list, in `next_event`, with the thread back from `xcb_wait_for_event`, or in
Xlib's queue.  `EInv` says that nothing else holds one: only that thread has an event of its own,
`next_event` is free while `event_waiter` is set, so that the thread does not write over one (`NextEventFree`),
and no event is among the answers to requests (`AnswersOnly`).  Each kind of step then changes one or two of the counts
(`FetchCounts`, `AnswerCounts`, `ServerEvents`).

*The argument of the third.*  `DInv` first says that without readers no thread gets to their
places and `event_waiter` stays clear (`NobodyReads`), and that the events are in the
order of their numbers, errors among them only if they are not set aside
(`EventsOrdered`, `ErrorsSetAside`).  `AnswersKept` then says of each thread in `_XReply` where
its answer is: on the way, with XCB, with the thread, or -- an error that some
other thread's poll has brought -- among the events.  From there `poll_for_event` would give it
to whoever polls, but only if its number is below that of the first pending
request; and the request of a thread in `_XReply` stays in the list, so that this
poll never returns the error of that request before its own thread looks.  When it
does look, the poll that `_XReply` makes has gone through all events before the error, and has
left it as `next_event` (`FinishReached`, `HeadErrorLeft`), which is where
`_XReply` takes it from.  That no other thread's answer is what it finds there follows
from the order of the events and from `IInv`.

### Sequence numbers

`SeqSyncProofs` first proves that the numbers Xlib completes are the true ones,
for any moduli:

* `WidenIsTrue`: if the number is not below the last one read and less than half of
  2^32 above it;
* `NewSeqIsTrue`: if it lies between the last one read and the last request, and
  these are less than 2^16 apart, which is what `SpanBelowModulus` says.

The argument is division with rest: two numbers less than m apart have the same
multiple of m below them or neighbouring ones, and the rests tell which.

It then proves that they are less than 2^16 apart, for any threads, with and without the
lock, and the rest of what `SeqSync` promises: `SpanStaysBelowModulus`,
`NumbersStayTrue`, `AfterFunctionStaysKept`, and `IdStaysReady` if at most one
thread creates resources (with two, the id in store may go to the other: section 4).  The assumptions are
`RoomAssumption` (all threads' calls together make no more requests than a buffer of the largest size holds) and `SpanAssumption` (a
call makes no more requests than the margin the code keeps).

*The argument.*  The test for outstanding requests comes once in a call, and other threads may
make requests between it and their own next test.  The invariant counts *tickets*: the requests that each thread may
still make before it has to wait for a reply.  The span of requests, plus the tickets of all
threads that do not wait, stays below the modulus (`SpanRoom`); and for each
thread that waits, so it does from that thread's request on, with the tickets of the threads that would
go on after that reply (`ReplyRoom`).  Tickets are a finite set, so that adding up
over threads needs no induction.  Without threads the bound is one for the only thread: at
each flush either the private function is installed or there is room for a full buffer
(`AloneRoom`, `Hazard`).

### The event queue

`EventQueueProofs` proves, for any threads, scripts, items and number of elements:

* `QueueInvariance`, `QueueStaysWellFormed`: `TypeOK` and `QueueWellFormed`;
* `DisplayLockExcludes`: `LockExcludes`, if at most one thread makes `X...IfEvent` calls.  With two
  TLC refutes it (run `queue_two_if_events`).

*The argument.*  `QInv` says of the queue and the free list that each is a sequence without
repetition which the links follow, and that the two are disjoint and hold every
element so far (`TwoLists`).  That a list ends is part of this; the lemmas about paths (`PathFacts`, `PathFollowed`
and those that append, put in front and take out) say what `_XEnq`, `_XDeq`, `XPutBackEvent` and a discarding `XSync` do
to such sequences.  The other parts: serial numbers in the queue are different and below
the next one; the element where a scan stands is in the queue or has been given
another number (`Places`); `in_ifevent` is the number of threads within such
calls (`IfCount`); and where each call may be (`Control`).  `LockInv` adds that
`ifevent_thread` is the one that makes such a call.

`EventStreamProofs` proves from `QInv` what clients see:

* `NothingIsMissed`: a scan that sleeps has looked at every event that was in the queue;
* `PredicateSeesOnce`: no element is shown to the same predicate twice;
* `QueueImplementsStream`: `EventQueue` refines `EventStream`, step by step.

All three are under the hypothesis `PutBackAlone`: a thread that puts events back is the only one that
scans.  It is needed: one thread in `XNextEvent` followed by `XPutBackEvent` and another waiting in
`XMaskEvent` are enough for TLC to refute `NothingMissed` and `ImplementsStream`; the event put back is at
the head of the queue, ahead of the place where the waiting scan goes on.

*The argument.*  `ItemSteps` and `QueueEffects` say of each step what it does to the queue as a sequence of
events (taken in at the end, one taken out, one put in front, all discarded, or nothing).  `Items`: what
was taken in are the first items of the server, and each event is in the queue or with the
thread that got it.  `OrderInv`: the serial numbers in the queue do not decrease, unless the only thread that scans is the
one that puts back; and a scan has looked at everything up to its place and everything with a
serial number up to the one it remembers (`Seen`).  The refinement follows by cases of `QueueEffect`.

### Internal connections

`ConnWatchProofs` proves, for any threads, connections, watchers, size of a pointer and size of the
cache, with memory failing wherever it may:

* `WatchersStayInformed`, `WatchDataStaysKept`, `PollingStaysTrue`: what the run `display_parts` checks;
* `WatchDataStaysHeld`: if no call removes a watcher, each finds its own pointer when a connection
  ends.  With such calls TLC refutes it (run `conn_slots`).

`PollingStaysTrue` needs no more than that the constants have their types (`Sizes`, `CallsTyped`).  The others
have the hypothesis `CallsOnce`: no descriptor is registered twice and no watcher added
twice; the code does not look whether it has them already, and removes one of them only.
It says nothing of what is polled or processed, and by whom.

*The argument.*  A byte of an array belongs to one slot (`SlotsApart`, `SomeSlot`), so that growing an
array, storing into a slot and moving the slots behind another leave the slots before
alone (`ResizedKeeps`, `StoredKeeps`, `MovedKeeps`).  `SlotsThere` says that every array has a slot for each
watcher, also after a call that found no memory for some of the arrays; without it a
pointer would be stored beyond the end.  Polling has an invariant of its own (`PollInv`): up to
the first overtaking, the flag is set while a thread is in the loop, and no two are (`PollerAlone`); a flag that is set has a
thread in a callback that will clear it (`PollingGoesOn`); and the cache agrees with a list that fits, and is
not overrun before there have been as many connections as it has entries (`PollCacheCurrent`).
The proof has one lemma per action.

### The cache of atoms

`AtomCacheProofs` proves, for any threads, calls, names, hash functions, size of the table and number of
requests that the server refuses:

* `ReservedIsInUse`: `Spec => []ReservedInUse`, and the types (`AtomTypesAreKept`);
* `CacheIsTrue`: `Spec => []CacheTrue`;
* `AnswersAreTrue`: `Spec => []AnswersTrue`.

The hypotheses are those of `AtomConstants` (the constants have their types, a table has a slot, the
calls for one name have one) and `DistinctNames` (names and `None` are not the marks the code puts
in their places), both evaluated by TLC for the instance of `structures`; and for the last two
`AtomsExist`: `XGetAtomNames` is asked for atoms that the server has.  Without it they are false, as
run `atom_names` shows.  `ReservedInUse` speaks of behaviours in which no handler had an answer while a flush had
interrupted its call (`early`), the others of those in which no handler was in reach of another call's
answer (`mixed`): the code protects nothing beyond (section 4).

*The argument.*  `AInv` says what the code leaves to the order of its steps: an unanswered request
belongs to the call its thread is in and lies between the call's `start` and `stop`; only the last one
is waited for; a handler is in the list for just the calls for several names; a result that is a mark is not after
the last item asked for; and a reserved slot has a holder, a call that has yet to make its request or
has the slot's mark among its results.  `AnswersInv` adds that the items with a mark and the unanswered requests
of a call match, one to one and in order (`Matches`).  This is what makes the handlers right:
they know the number of the answer but not its item, take the first open one, and that is the one
to which the next request in order belongs (`FirstAsked`, `MatchTaken`).  A request puts the new item and the new request
behind all others (`RequestAnswersInv`); an error leaves the match in place only because `XInternAtoms`'
handler makes the item `None` (`ErrorTaken`) and `XGetAtomNames` never meets one, by the hypothesis.  Each entry is right because what
is looked up in a right cache is right, and an answer is stored under the name of its own item.  The proof has a
lemma per action for either invariant.

### The data of generic events, and what a closed Display leaves

`DisplayLifeProofs` proves, for any threads, kinds of events and number of screens:

* `DataStayOwned`: `LifeSpec => []OneOwner`;
* `ClosedLeavesOnly`: `LifeSpec => []LeftBehind`.

The assumptions are `EventKinds` (a generic event is not a plain one, and neither has the name of an event that
is not is not there) and `ScreenCount` (a number).  Both say what they do until an application uses a pointer that
it was left without a claim (`unearned`; section 4).

*The argument for the first.*  "One owner" speaks of data, but the code looks for them by number, and the
thread that was given a number does not have the data yet.  So the invariant (`EventsHeld`: until `unearned`, `EventInv`) is about numbers (`Sound`):
while the data of a number exist, one element of the queue has it, or one of the jar and only one
thread, or the thread that has claimed it (`NumbersApart`); all that have a number are the
same event (`NumbersName`); and the blocks allocated are those in use, those on the free list and
those lost, each once (`Accounted`).  That only one thread holds the
number of an entry of the jar is what keeps numbers apart when the entry is claimed.  Each call is
one of a few changes of lists -- an element more (`Added`), one less, one moved from list to list, a
hand emptied -- with a lemma for each.  An event with a borrowed pointer is not among the
owners (`Borrows`: its thread has claimed nothing), so that only using it can do harm.

*The argument for the second.*  While the Display is not open no thread has data, and events are in the
queue only if an extension's function has been called (`PhaseInv`).  What is allocated under the name of a GC or a watcher
is one (`Named`), there are no GCs once `XCloseDisplay` has freed them, and
`XOpenDisplay` allocates the Display first, then its parts (`OpenSteps`), so that `OutOfMemory` has one
to free unless nothing was allocated (`HeapInv`).

### What is only model-checked

Liveness (`RoundTripsReturn`, `CallsReturn`), which is beyond this prover.  Of the transport
`ResponsesInOrder`; and `AnswerAwaitsCaller`, `NoSpuriousIOError` and `ReadEventsDelivers` once there
are errors and a thread in `XNextEvent`: they hold only of
restricted scripts (section 4), so that there is no theorem for every script.
Without the hypotheses above, the cache of atoms.
The rest about the other modules: graphics contexts, input methods, replies, the
keyboard description and the tables.  What the recursive operators of `Regions`,
`PolygonRegions`, `Contexts` and `Xrm` compute is beyond the prover: induction over data is not
available to it.

## 6. Not modelled, and why

The table of components in `PROJECT.json` has a line for each.  Not meant to be
modelled: locales and converters (tables and bytes, no state that several calls
share), output methods, images, bitmaps and error texts (transformation of data);
Xcms (floating point); keysym tables (generated).  Half of the lines of the library are
tables of character sets and of key names.  Of what is modelled, the components
marked "partly" say what is missing; the largest omissions are a connection that
fails in the middle of a call, resource files, and the other `XESet` functions.

## 7. Plan

1. The rest of the input method's client: connecting, servers that come and go, and the
   compose tree of the local method.
2. XKB: how a description stays current -- MapNotify, the pending refresh and the
   application's own changes with their record; event selection; the tables of keysyms
   without XKB.
3. A connection that fails: the exit handlers, threads that wait when it happens.
4. Theorems: `MessagesRead` of `XimTransport`; `SyncReplied` of `XimClient`.
