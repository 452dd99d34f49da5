------------------------------ MODULE EventQueue ------------------------------
(***************************************************************************)
(* The event queue of a Display and the calls that take events from it:    *)
(* XNextEvent and XPeekEvent, the scans (XIfEvent, XMaskEvent and their    *)
(* relatives), XPutBackEvent, XSync with discard and XPending.             *)
(*                                                                         *)
(* The queue is a linked list of elements that are used again: an element  *)
(* taken out goes to a free list.  A scan that finds nothing remembers the *)
(* last element it saw across _XReadEvents, which releases the display     *)
(* lock; the serial number of the element tells whether it is still the    *)
(* same.  The calls named X...IfEvent moreover make LockDisplay and        *)
(* UnlockDisplay do nothing for the thread they note in ifevent_thread.    *)
(*                                                                         *)
(* The transport is XcbIo's without requests and replies: items arrive,    *)
(* one thread at a time takes them in.  An error goes to the application's *)
(* error handler with the lock released.                                   *)
(***************************************************************************)
EXTENDS DisplayLock, Sequences, SequencesExt

CONSTANTS
    NumElements,  \* bound: elements the allocator has
    Kinds,        \* the kinds of events
    Scripts,      \* what the threads do: thread -> sequence of [call, wants]
    MaxItems,     \* bound: items the server sends
    MaxErrors     \* bound: those that are errors, or events that an
                  \* extension ignores

IfCalls == {"IfEvent", "CheckIfEvent", "PeekIfEvent"}
CheckCalls == {"CheckIfEvent", "CheckMaskEvent"}
Scans == IfCalls \cup {"MaskEvent", "CheckMaskEvent"}
Peeks == {"PeekEvent", "PeekIfEvent"}
Calls == Scans \cup {"NextEvent", "PeekEvent", "PutBack", "SyncDiscard", "Pending"}

Odd == {"error", "ignored"}

ASSUME KindsAssumption == Kinds \subseteq STRING /\ Kinds \cap Odd = {}
ASSUME BoundsAssumption == {NumElements, MaxItems, MaxErrors} \subseteq Nat
ASSUME ScriptAssumption ==
    Scripts \subseteq [Threads -> Seq([call : Calls, wants : SUBSET Kinds])]

Nil == 0
Elements == 1..NumElements

VARIABLES
    head, tail,         \* dpy->head, dpy->tail
    qfree,              \* dpy->qfree
    qlen,               \* dpy->qlen
    next_event_serial_num,
    next, qserial_num, event,  \* the fields of an element; event is the
                               \* number of the item, or 0
    allocated,          \* elements 1..allocated have been malloc'ed
    event_waiter,       \* dpy->xcb->event_waiter
    kind,               \* what the server has sent
    arrived,            \* items that no thread has taken in
    returned,           \* items that calls have returned
    pc, script, local, fatal

queueVars == <<head, tail, qfree, qlen, next_event_serial_num, next,
               qserial_num, event, allocated>>
serverVars == <<kind, arrived>>
userLockVars == <<locking_level, locking_thread>>
ifeventVars == <<in_ifevent, ifevent_thread>>
vars == <<lockVars, queueVars, event_waiter, serverVars, returned, pc, script,
          local, fatal>>

Labels == {"Idle", "Asleep", "Scan", "Head", "TakeHead", "AfterRead", "PutBack",
           "RoundTrip", "WaitForReply", "Discard", "Pending", "ReadLoop",
           "WaitForEvent", "Poll", "XError", "UserErrorHandler", "Unlock"}

Locals == [call : Calls, wants : SUBSET Kinds, prev : {Nil} \cup Elements,
           qe_serial : Nat, n : 0..2, serial : Nat,
           mode : {"Read", "Drain", "Check", "Pending", "Sync"},
           back : Labels, resume : Labels, got : Nat, tested : SUBSET Nat]

TypeOK ==
    /\ LockTypeOK
    /\ {head, tail, qfree} \subseteq {Nil} \cup Elements
    /\ qlen \in Nat /\ next_event_serial_num \in Nat
    /\ next \in [Elements -> {Nil} \cup Elements]
    /\ qserial_num \in [Elements -> Nat] /\ event \in [Elements -> Nat]
    /\ allocated \in 0..NumElements
    /\ event_waiter \in BOOLEAN
    /\ kind \in Seq(Kinds \cup Odd) /\ arrived \in Seq(Nat)
    /\ returned \in SUBSET Nat
    /\ pc \in [Threads -> Labels] /\ local \in [Threads -> Locals]
    /\ fatal \in {"none", "event_waiter_assert", "null_pointer"}

Init ==
    /\ LockInit
    /\ head = Nil /\ tail = Nil /\ qfree = Nil
    /\ qlen = 0
    /\ next_event_serial_num = 1
    /\ next = [c \in Elements |-> Nil]
    /\ qserial_num = [c \in Elements |-> 0]
    /\ event = [c \in Elements |-> 0]
    /\ allocated = 0
    /\ event_waiter = FALSE
    /\ kind = <<>> /\ arrived = <<>>
    /\ returned = {}
    /\ pc = [t \in Threads |-> "Idle"]
    /\ script \in Scripts
    /\ local = [t \in Threads |->
                  [call |-> "Pending", wants |-> {}, prev |-> Nil, qe_serial |-> 0,
                   n |-> 0, serial |-> 0, mode |-> "Read", back |-> "Idle",
                   resume |-> "Idle", got |-> 0, tested |-> {}]]
    /\ fatal = "none"

Goto(t, label) == pc' = [pc EXCEPT ![t] = label]
At(t, label) == fatal = "none" /\ pc[t] = label

-----------------------------------------------------------------------------
(***************************************************************************)
(* The linked list.                                                        *)
(***************************************************************************)
\* The elements from c on along the links; longer than NumElements if they
\* make a cycle.
Follow(links, c) ==
    LET nth[i \in 1..(NumElements + 1)] ==
            IF i = 1 THEN c ELSE IF nth[i - 1] = Nil THEN Nil ELSE links[nth[i - 1]]
    IN SubSeq(nth, 1, Cardinality({i \in 1..(NumElements + 1) : nth[i] # Nil}))

From(c) == Follow(next, c)

\* The element that _XEnq or XPutBackEvent takes: a free one, or a new one.
NewElement == IF qfree # Nil THEN qfree ELSE allocated + 1
CanAllocate == qfree # Nil \/ allocated < NumElements
Allocated == IF qfree # Nil THEN UNCHANGED allocated ELSE allocated' = allocated + 1
MutKeptFree == qfree

FreeList == IF qfree # Nil THEN next[qfree] ELSE Nil

\* _XEnq.  The converter of an extension may ignore the event: the element
\* is freed at once.
Enq(item) ==
    LET c == NewElement
    IN /\ CanAllocate
       /\ Allocated
       /\ IF kind[item] = "ignored"
             THEN /\ qfree' = c
                  /\ next' = [next EXCEPT ![c] = FreeList]
                  /\ UNCHANGED <<head, tail, qlen, next_event_serial_num,
                                 qserial_num, event>>
             ELSE /\ qfree' = FreeList
                  /\ next' = IF tail # Nil THEN [next EXCEPT ![c] = Nil, ![tail] = c]
                             ELSE [next EXCEPT ![c] = Nil]
                  /\ head' = IF tail # Nil THEN head ELSE c
                  /\ tail' = c
                  /\ qlen' = qlen + 1
                  /\ qserial_num' = [qserial_num EXCEPT ![c] = next_event_serial_num]
                  /\ next_event_serial_num' = next_event_serial_num + 1
                  /\ event' = [event EXCEPT ![c] = item]

\* _XDeq marks a free element with the serial number 0.
Zeroed(c) == [qserial_num EXCEPT ![c] = 0]

utDeqHead(prev, c) ==
    /\ head' = next[c]
    /\ tail' = IF next[c] = Nil THEN prev ELSE tail
    /\ next' = [next EXCEPT ![c] = qfree]
    /\ qserial_num' = Zeroed(c)
    /\ qfree' = c
    /\ qlen' = qlen - 1
    /\ UNCHANGED <<next_event_serial_num, event, allocated>>

Deq(prev, c) ==
    /\ head' = IF prev = Nil THEN next[c] ELSE head
    /\ tail' = IF next[c] = Nil THEN prev ELSE tail
    /\ next' = [x \in Elements |-> IF x = c THEN qfree
                                   ELSE IF x = prev THEN next[c] ELSE next[x]]
    /\ qserial_num' = Zeroed(c)
    /\ qfree' = c
    /\ qlen' = qlen - 1
    /\ UNCHANGED <<next_event_serial_num, event, allocated>>

-----------------------------------------------------------------------------
(***************************************************************************)
(* The server (external).                                                  *)
(***************************************************************************)
Send ==
    /\ fatal = "none"
    /\ Len(kind) < MaxItems
    /\ \E k \in Kinds \cup Odd :
          /\ k \in Odd => Len(SelectSeq(kind, LAMBDA x : x \in Odd)) < MaxErrors
          /\ kind' = Append(kind, k)
    /\ arrived' = Append(arrived, Len(kind) + 1)
    /\ UNCHANGED <<lockVars, queueVars, event_waiter, returned, pc, script,
                   local, fatal>>

-----------------------------------------------------------------------------
(***************************************************************************)
(* Entering and leaving a call.                                            *)
(***************************************************************************)
FirstLabel(call) ==
    CASE call \in Scans -> "Scan"
      [] call \in {"NextEvent", "PeekEvent"} -> "Head"
      [] call = "SyncDiscard" -> "RoundTrip"
      [] OTHER -> call

\* LockDisplay; an X...IfEvent call notes its thread.
EnterIfEvent(t, call) ==
    /\ in_ifevent' = IF call \in IfCalls THEN in_ifevent + 1 ELSE in_ifevent
    /\ ifevent_thread' = IF call \in IfCalls THEN t ELSE ifevent_thread

LockDisplay(t) ==
    /\ At(t, "Idle")
    /\ script[t] # <<>>
    /\ LET c == Head(script[t])
       IN \/ /\ Acquired(t, FALSE)
             /\ EnterIfEvent(t, c.call)
             /\ Goto(t, FirstLabel(c.call))
             /\ script' = [script EXCEPT ![t] = Tail(@)]
             /\ local' = [local EXCEPT ![t].call = c.call, ![t].wants = c.wants,
                                       ![t].prev = Nil, ![t].qe_serial = 0,
                                       ![t].n = 2, ![t].tested = {}]
             /\ UNCHANGED sleeping
          \/ /\ MustWait(t)
             /\ UNCHANGED <<pc, script, local, ifeventVars>>
    /\ UNCHANGED <<userLockVars, queueVars, event_waiter, serverVars, returned,
                   fatal>>

\* The end of a call, before UnlockDisplay.
MutNotLeft(t) == Goto(t, "Unlock") /\ UNCHANGED in_ifevent

Leave(t) ==
    /\ in_ifevent' = IF local[t].call \in IfCalls THEN in_ifevent - 1 ELSE in_ifevent
    /\ Goto(t, "Unlock")

UnlockDisplay(t) ==
    /\ At(t, "Unlock")
    /\ Released(t)
    /\ Goto(t, "Idle")
    /\ UNCHANGED <<userLockVars, ifeventVars, sleeping, queueVars, event_waiter,
                   serverVars, returned, script, local, fatal>>

Resume(t) ==
    /\ At(t, "Asleep")
    /\ Wakeup(t)
    /\ Goto(t, local[t].back)
    /\ UNCHANGED <<userLockVars, ifeventVars, sleeping, queueVars, event_waiter,
                   serverVars, returned, script, local, fatal>>

-----------------------------------------------------------------------------
(***************************************************************************)
(* The scans.  An X...IfEvent call asks its predicate about the elements   *)
(* newer than the last one it saw, the others about all that follow it.    *)
(***************************************************************************)
MutAlwaysTested(t, c) == TRUE
utTestedLater(t, c) ==
    local[t].call \in IfCalls => qserial_num[c] > local[t].qe_serial + 1

Tested(t, c) ==
    local[t].call \in IfCalls => qserial_num[c] > local[t].qe_serial

Matches(t, c) == Tested(t, c) /\ kind[event[c]] \in local[t].wants

\* The elements that t looks at.
Ahead(t) == From(IF local[t].prev = Nil THEN head ELSE next[local[t].prev])

\* The first hit of the scan is removed, unless the call only peeks.
Found(t, ahead, i) ==
    LET c == ahead[i]
        before == IF i = 1 THEN local[t].prev ELSE ahead[i - 1]
    IN /\ IF local[t].call \in Peeks THEN UNCHANGED <<queueVars, returned, local>>
          ELSE /\ Deq(before, c)
               /\ returned' = returned \cup {event[c]}
               /\ local' = [local EXCEPT ![t].got = event[c]]
       /\ Leave(t)

\* "if (prev) qe_serial = prev->qserial_num"
Remembered(t, ahead) ==
    LET last == IF ahead = <<>> THEN local[t].prev ELSE Last(ahead)
    IN [local[t] EXCEPT
          !.prev = last,
          !.qe_serial = IF last = Nil THEN @ ELSE qserial_num[last],
          !.serial = next_event_serial_num,
          !.mode = IF local[t].call \in CheckCalls THEN "Check" ELSE "Read",
          !.tested = @ \cup {qserial_num[c] : c \in {d \in Range(ahead) : Tested(t, d)}}]

\* A call that waits goes into _XReadEvents.  The others look for more in
\* _XEventsQueued, then in _XFlush, which do nothing while another thread is
\* blocked for events, and give up after the third scan.
NotFound(t, ahead) ==
    /\ local' = [local EXCEPT ![t] = Remembered(t, ahead)]
    /\ IF local[t].call \in CheckCalls /\ local[t].n = 0
          THEN Leave(t)
          ELSE /\ Goto(t, CASE local[t].call \notin CheckCalls -> "ReadLoop"
                            [] local[t].call \in CheckCalls /\ event_waiter -> "AfterRead"
                            [] OTHER -> "Poll")
               /\ UNCHANGED in_ifevent
    /\ UNCHANGED <<queueVars, returned>>

Scan(t) ==
    /\ At(t, "Scan")
    /\ LET ahead == Ahead(t)
           hits == {i \in DOMAIN ahead : Matches(t, ahead[i])}
       IN IF hits # {} THEN Found(t, ahead, Min(hits)) ELSE NotFound(t, ahead)
    /\ UNCHANGED <<mutex, sleeping, userLockVars, ifevent_thread, event_waiter,
                   serverVars, script, fatal>>

\* "another thread has snatched this event": the element is not the same.
MutNoSnatchTest(t) == FALSE

Snatched(t) ==
    local[t].prev # Nil /\ qserial_num[local[t].prev] # local[t].qe_serial

\* "for (n = 3; --n >= 0;)"
MutNoCount(t) == local[t].n

Count(t) == IF local[t].call \in CheckCalls THEN local[t].n - 1 ELSE local[t].n

AfterRead(t) ==
    /\ At(t, "AfterRead")
    /\ IF local[t].call \in Scans
          THEN /\ local' = [local EXCEPT
                     ![t].prev = IF Snatched(t) THEN Nil ELSE @,
                     ![t].n = Count(t)]
               /\ Goto(t, "Scan")
          ELSE Goto(t, "TakeHead") /\ UNCHANGED local
    /\ UNCHANGED <<lockVars, queueVars, event_waiter, serverVars, returned,
                   script, fatal>>

-----------------------------------------------------------------------------
(***************************************************************************)
(* XNextEvent and XPeekEvent.                                              *)
(***************************************************************************)
NextEvent(t) ==
    /\ At(t, "Head")
    /\ IF head # Nil THEN Goto(t, "TakeHead") /\ UNCHANGED local
       ELSE /\ local' = [local EXCEPT ![t].serial = next_event_serial_num,
                                      ![t].mode = "Read"]
            /\ Goto(t, "ReadLoop")
    /\ UNCHANGED <<lockVars, queueVars, event_waiter, serverVars, returned,
                   script, fatal>>

TakeHead(t) ==
    /\ At(t, "TakeHead")
    /\ \/ /\ head = Nil
          /\ fatal' = "null_pointer"
          /\ UNCHANGED <<queueVars, returned, local>>
       \/ /\ head # Nil /\ local[t].call = "PeekEvent"
          /\ UNCHANGED <<queueVars, returned, local, fatal>>
       \/ /\ head # Nil /\ local[t].call = "NextEvent"
          /\ Deq(Nil, head)
          /\ returned' = returned \cup {event[head]}
          /\ local' = [local EXCEPT ![t].got = event[head]]
          /\ UNCHANGED fatal
    /\ Goto(t, "Unlock")
    /\ UNCHANGED <<lockVars, event_waiter, serverVars, script>>

-----------------------------------------------------------------------------
(***************************************************************************)
(* XPutBackEvent, of the event this thread got last.                       *)
(***************************************************************************)
PutBack(t) ==
    /\ At(t, "PutBack")
    /\ LET c == NewElement
       IN IF local[t].got = 0 THEN UNCHANGED <<queueVars, returned, local>>
          ELSE /\ CanAllocate
               /\ Allocated
               /\ qfree' = FreeList
               /\ next' = [next EXCEPT ![c] = head]
               /\ qserial_num' = [qserial_num EXCEPT ![c] = next_event_serial_num]
               /\ next_event_serial_num' = next_event_serial_num + 1
               /\ event' = [event EXCEPT ![c] = local[t].got]
               /\ head' = c
               /\ tail' = IF tail = Nil THEN c ELSE tail
               /\ qlen' = qlen + 1
               /\ returned' = returned \ {local[t].got}
               /\ local' = [local EXCEPT ![t].got = 0]
    /\ Goto(t, "Unlock")
    /\ UNCHANGED <<lockVars, event_waiter, serverVars, script, fatal>>

(***************************************************************************)
(* XSync: a round trip, during which the lock is free and after which the  *)
(* events that have come are taken in; then the whole queue becomes free.  *)
(***************************************************************************)
RoundTrip(t) ==
    /\ At(t, "RoundTrip")
    /\ Released(t)
    /\ Goto(t, "WaitForReply")
    /\ UNCHANGED <<sleeping, userLockVars, ifeventVars, queueVars, event_waiter,
                   serverVars, returned, script, local, fatal>>

WaitForReply(t) ==
    /\ At(t, "WaitForReply")
    /\ Acquired(t, TRUE)
    /\ local' = [local EXCEPT ![t].mode = "Sync"]
    /\ Goto(t, IF event_waiter THEN "Discard" ELSE "Poll")
    /\ UNCHANGED <<sleeping, userLockVars, ifeventVars, queueVars, event_waiter,
                   serverVars, returned, script, fatal>>

\* "qelt->qserial_num = 0" for every element.
MutNotAllZeroed == qserial_num

AllZeroed ==
    [c \in Elements |-> IF c \in Range(From(head)) THEN 0 ELSE qserial_num[c]]

Discard(t) ==
    /\ At(t, "Discard")
    /\ IF head = Nil THEN UNCHANGED queueVars
       ELSE /\ qserial_num' = AllZeroed
            /\ next' = [next EXCEPT ![tail] = qfree]
            /\ qfree' = head
            /\ head' = Nil /\ tail' = Nil
            /\ qlen' = 0
            /\ UNCHANGED <<next_event_serial_num, event, allocated>>
    /\ Goto(t, "Unlock")
    /\ UNCHANGED <<lockVars, event_waiter, serverVars, returned, script, local,
                   fatal>>

\* XPending: look for events unless there are some.
Pending(t) ==
    /\ At(t, "Pending")
    /\ local' = [local EXCEPT ![t].mode = "Pending"]
    /\ Goto(t, IF qlen > 0 \/ event_waiter THEN "Unlock" ELSE "Poll")
    /\ UNCHANGED <<lockVars, queueVars, event_waiter, serverVars, returned,
                   script, fatal>>

-----------------------------------------------------------------------------
(***************************************************************************)
(* _XReadEvents, and the loops that take in what has come.                 *)
(***************************************************************************)
EnoughRead(t) == local[t].serial # next_event_serial_num /\ qlen > 0

ReadLoop(t) ==
    /\ At(t, "ReadLoop")
    /\ \/ /\ EnoughRead(t)
          /\ local' = [local EXCEPT ![t].mode = "Drain"]
          /\ Goto(t, IF event_waiter THEN "AfterRead" ELSE "Poll")
          /\ UNCHANGED <<mutex, sleeping, event_waiter>>
       \/ /\ ~EnoughRead(t) /\ event_waiter
          /\ ConditionWait("event_notify", t)
          /\ local' = [local EXCEPT ![t].back = "ReadLoop"]
          /\ Goto(t, "Asleep")
          /\ UNCHANGED event_waiter
       \/ /\ ~EnoughRead(t) /\ ~event_waiter
          /\ event_waiter' = TRUE
          /\ Released(t)
          /\ Goto(t, "WaitForEvent")
          /\ UNCHANGED <<sleeping, local>>
    /\ UNCHANGED <<userLockVars, ifeventVars, queueVars, serverVars, returned,
                   script, fatal>>

\* xcb_wait_for_event has returned and the lock is taken again.
WaitForEvent(t) ==
    /\ At(t, "WaitForEvent")
    /\ arrived # <<>>
    /\ Acquired(t, TRUE)
    /\ event_waiter' = FALSE
    /\ ConditionBroadcast("event_notify")
    /\ local' = [local EXCEPT ![t].mode = "Read"]
    /\ Goto(t, "Poll")
    /\ UNCHANGED <<userLockVars, ifeventVars, queueVars, serverVars, returned,
                   script, fatal>>

AfterPoll(t) ==
    CASE local[t].mode \in {"Drain", "Check"} -> "AfterRead"
      [] local[t].mode = "Sync" -> "Discard"
      [] local[t].mode = "Pending" -> "Unlock"
      [] local[t].mode = "Read" -> "ReadLoop"

\* One item: poll_for_response and handle_response.
Poll(t) ==
    /\ At(t, "Poll")
    /\ LET again == IF local[t].mode = "Read" THEN "ReadLoop" ELSE "Poll"
       IN \/ /\ event_waiter
             /\ fatal' = "event_waiter_assert"
             /\ UNCHANGED <<queueVars, arrived, pc, local>>
          \/ /\ ~event_waiter /\ arrived = <<>>
             /\ Goto(t, AfterPoll(t))
             /\ UNCHANGED <<queueVars, arrived, local, fatal>>
          \/ /\ ~event_waiter /\ arrived # <<>> /\ kind[Head(arrived)] = "error"
             /\ arrived' = Tail(arrived)
             /\ local' = [local EXCEPT ![t].resume = again]
             /\ Goto(t, "XError")
             /\ UNCHANGED <<queueVars, fatal>>
          \/ /\ ~event_waiter /\ arrived # <<>> /\ kind[Head(arrived)] # "error"
             /\ Enq(Head(arrived))
             /\ arrived' = Tail(arrived)
             /\ Goto(t, again)
             /\ UNCHANGED <<local, fatal>>
    /\ UNCHANGED <<lockVars, event_waiter, kind, returned, script>>

\* _XError: under the user lock, with the display unlocked.
XError(t) ==
    /\ At(t, "XError")
    /\ \/ /\ UserLockedByOther(t)
          /\ ConditionWait("cv", t)
          /\ local' = [local EXCEPT ![t].back = "XError"]
          /\ Goto(t, "Asleep")
          /\ UNCHANGED userLockVars
       \/ /\ UserLocked(t)
          /\ Released(t)
          /\ Goto(t, "UserErrorHandler")
          /\ UNCHANGED <<sleeping, local>>
    /\ UNCHANGED <<ifeventVars, queueVars, event_waiter, serverVars, returned,
                   script, fatal>>

UserErrorHandler(t) ==
    /\ At(t, "UserErrorHandler")
    /\ Acquired(t, FALSE)
    /\ UserUnlocked
    /\ Goto(t, local[t].resume)
    /\ UNCHANGED <<ifeventVars, queueVars, event_waiter, serverVars, returned,
                   script, local, fatal>>

-----------------------------------------------------------------------------
Thread(t) ==
    \/ LockDisplay(t) \/ UnlockDisplay(t) \/ Resume(t)
    \/ Scan(t) \/ AfterRead(t) \/ NextEvent(t) \/ TakeHead(t) \/ PutBack(t)
    \/ RoundTrip(t) \/ WaitForReply(t) \/ Discard(t) \/ Pending(t)
    \/ ReadLoop(t) \/ WaitForEvent(t) \/ Poll(t)
    \/ XError(t) \/ UserErrorHandler(t)

\* Every thread is done or waits for events, or the process has ended.
Waiting(t) ==
    \/ pc[t] = "WaitForEvent" /\ arrived = <<>>
    \/ t \in sleeping["event_notify"] /\ event_waiter

\* A thread that is blocked for events and keeps the lock stops all others.
Stopped ==
    /\ \/ fatal # "none"
       \/ \A t \in Threads : Waiting(t) \/ (pc[t] = "Idle" /\ script[t] = <<>>)
       \/ \E t \in Threads : Waiting(t) /\ mutex = t
    /\ UNCHANGED vars

Next == (\E t \in Threads : Thread(t)) \/ Send \/ Stopped

Spec == Init /\ [][Next]_vars

\* The scheduler runs every thread.
FairSpec == Spec /\ \A t \in Threads : WF_vars(Thread(t))

-----------------------------------------------------------------------------
(***************************************************************************)
(* Properties.                                                             *)
(***************************************************************************)
Queue == From(head)
Free == From(qfree)

\* A scan never follows an element that has left the queue.
ScanStaysInQueue ==
    \A t \in Threads : pc[t] = "Scan" => local[t].prev \in {Nil} \cup Range(Queue)

\* The queue and the free list are two disjoint lists without cycles that
\* hold every element; qlen, tail, the serial numbers and the places that
\* scans have kept agree with them.
QueueWellFormed ==
    /\ IsInjective(Queue \o Free)
    /\ Range(Queue \o Free) = 1..allocated
    /\ Len(Queue) = qlen
    /\ tail = IF Queue = <<>> THEN Nil ELSE Last(Queue)
    /\ \A c \in Range(Queue) : qserial_num[c] \in 1..(next_event_serial_num - 1)
    /\ \A c, d \in Range(Queue) : c # d => qserial_num[c] # qserial_num[d]
    /\ ScanStaysInQueue

\* A scan that waits has looked at all events that were in the queue when it
\* began to wait: none of them is what it waits for.
Blocked(t) == pc[t] \in {"WaitForEvent", "Asleep"} /\ local[t].call \in Scans \ CheckCalls

NothingMissed ==
    \A t \in Threads : Blocked(t) =>
        \A c \in Range(Queue) :
            qserial_num[c] < local[t].serial =>
                kind[event[c]] \notin local[t].wants

\* "The predicate procedure is called once for each event in the queue"
\* (man/XIfEvent.man): no element is shown to it a second time.
PredicateCalledOnce ==
    [][\A t \in Threads : Scan(t) /\ local[t].call \in IfCalls =>
          \A i \in DOMAIN Ahead(t) :
             Tested(t, Ahead(t)[i]) =>
                qserial_num[Ahead(t)[i]] \notin local[t].tested]_vars

\* The display lock excludes although X...IfEvent calls do not release it,
\* and no thread keeps it when its call is over.
LockExcludes ==
    \A t \in Threads :
        IF pc[t] \in {"Asleep", "WaitForReply", "WaitForEvent", "UserErrorHandler"}
        THEN mutex = t => InIfEvent(t)
        ELSE (mutex = t) = (pc[t] # "Idle")

\* The queue as its clients see it.
Stream == INSTANCE EventStream WITH
    taken_in <- Len(kind) - Len(arrived),
    queue <- [i \in DOMAIN Queue |-> event[Queue[i]]]

ImplementsStream == Stream!Spec

\* A call that does not wait for events comes back, unless a thread that is
\* blocked in an X...IfEvent call keeps the lock for ever.
KeepsLock == \E t \in Threads : Waiting(t) /\ mutex = t

CallsReturn ==
    []<>~KeepsLock =>
        \A t \in Threads :
            pc[t] \in {"Scan", "Pending", "PutBack", "RoundTrip"}
                /\ local[t].call \notin {"IfEvent", "PeekIfEvent", "MaskEvent"}
            ~> (pc[t] = "Idle" \/ fatal # "none")

=============================================================================
