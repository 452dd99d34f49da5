------------------------------- MODULE XcbIo -------------------------------
(***************************************************************************)
(* src/src/xcb_io.c: how the threads of a client share one connection.     *)
(*                                                                         *)
(* Each thread runs a script of Xlib calls.  A call takes the display lock *)
(* (DisplayLock), works on the shared lists of the Display, and gives the  *)
(* lock up wherever the code does: around xcb_wait_for_reply64 in _XReply, *)
(* around xcb_wait_for_event in _XReadEvents, in ConditionWait, and around *)
(* the application's error handler in _XError.  One action is the code     *)
(* between two places where another thread, or XCB, may interfere.         *)
(*                                                                         *)
(* XCB itself is external.  It numbers what the server sends, keeps events *)
(* (and errors, unless they were asked to be set aside) in one queue and   *)
(* replies by sequence number, and learns from every packet that all the   *)
(* requests before it are finished.  It reads the connection only inside a *)
(* call of a thread: Reading(t).                                           *)
(***************************************************************************)
EXTENDS DisplayLock, Sequences

CONSTANTS
    Setups,            \* what the threads do (a function from a thread to its
                       \* calls), and which library owns the event queue
    MaxEvents,         \* bound: events the server sends
    MaxErrors,         \* bound: requests the server answers with an error
    BufferSize         \* requests that fit into the output buffer

Calls == {"Request", "RoundTrip", "AsyncRoundTrip", "NextEvent", "Flush",
          "Pending", "XLockDisplay", "XUnlockDisplay"}

Owners == {"XlibOwnsEventQueue", "XCBOwnsEventQueue"}

ASSUME SetupAssumption ==
    Setups \subseteq [script : [Threads -> Seq(Calls)], event_owner : Owners]
ASSUME BoundsAssumption == MaxEvents \in Nat /\ MaxErrors \in Nat
ASSUME BufferAssumption == BufferSize \in Nat \ {0}

NoItem == [type |-> "none", seq |-> 0]
Items == [type : {"event", "error", "reply"}, seq : Nat] \cup {NoItem}

PendingRequest == [sequence : Nat, reply_waiter : BOOLEAN]

Labels ==
    Calls \cup
    {"Idle", "Asleep", "XReply", "ReplyLoop", "WaitForReply", "GotReply",
     "FinishReply", "ReplyDone", "ReadLoop", "WaitForEvent", "GotEvent",
     "NoResponse", "TakeEvent", "Poll", "PollReply", "PollAgain", "XError",
     "UserErrorHandler", "Unlock"}

Fatalities == {"none", "event_waiter_assert", "sequence_assert", "io_error",
               "null_pointer"}

VARIABLES
    \* the Display
    issued,             \* the kinds of the requests made; X_DPY_GET_REQUEST
                        \* is Len(issued)
    last_flushed,       \* dpy->xcb->last_flushed
    last_request_read,  \* X_DPY_GET_LAST_REQUEST_READ
    pending_requests,   \* dpy->xcb->pending_requests, oldest first
    async_handlers,     \* the requests the handlers in dpy->async_handlers
                        \* answer for
    next_event,         \* dpy->xcb->next_event
    next_response,      \* dpy->xcb->next_response
    event_waiter,       \* dpy->xcb->event_waiter
    qlen,               \* dpy->qlen: events in the queue
    next_event_serial_num, \* dpy->next_event_serial_num
    event_owner,        \* dpy->xcb->event_owner
    fatal,              \* the failure that ended the process, or "none"
    \* the threads
    pc, script, local,
    delivered,          \* events the calls have returned
    \* XCB and the server (external)
    xcb_events,         \* the event queue of XCB
    xcb_replies,        \* replies and set-aside errors, one per request
    request_read,       \* sequence number of the last packet read
    answered,           \* that request has had its reply or error
    errored,            \* ... an error
    server              \* [events, errors]: what the server has sent

sendVars == <<issued, last_flushed>>
queueVars == <<qlen, next_event_serial_num>>
displayVars == <<issued, last_flushed, last_request_read, pending_requests,
                 async_handlers, next_event, next_response, event_waiter,
                 qlen, next_event_serial_num>>
callVars == <<script, event_owner>>
threadVars == <<pc, callVars, local, delivered>>
xcbVars == <<xcb_events, xcb_replies, request_read, answered, errored,
             server>>
ifeventVars == <<in_ifevent, ifevent_thread>>
userLockVars == <<locking_level, locking_thread, ifeventVars>>
vars == <<lockVars, displayVars, fatal, threadVars, xcbVars>>

\* Where a thread goes on after ConditionWait, after _XError and after the
\* loop of _XEventsQueued.
BackLabels == {"Idle", "ReplyLoop", "ReadLoop", "XError"}
ResumeLabels == {"Idle", "Poll", "ReadLoop", "ReplyLoop", "Unlock"}
DoneLabels == {"Idle", "Unlock", "Request", "RoundTrip", "AsyncRoundTrip"}

Locals == [back : BackLabels, caller : {"Reply", "ReadEvents", "Drain", "Flush"},
           resume : ResumeLabels, done : DoneLabels, current : Nat, req : Nat,
           response : Items, error : Items, polled : Items, event : Items,
           serial : Nat, handles : SUBSET Nat]

RequestTypeOK ==
    /\ issued \in Seq({"void", "reply"})
    /\ last_flushed \in 0..Len(issued)
    /\ pending_requests \in Seq(PendingRequest)
    /\ async_handlers \in SUBSET Nat

ResponseTypeOK ==
    /\ last_request_read \in Nat
    /\ next_event \in Items
    /\ next_response \in Items
    /\ event_waiter \in BOOLEAN
    /\ qlen \in Nat
    /\ next_event_serial_num \in Nat
    /\ fatal \in Fatalities

ThreadTypeOK ==
    /\ pc \in [Threads -> Labels]
    /\ script \in [Threads -> Seq(Calls)]
    /\ event_owner \in Owners
    /\ local \in [Threads -> Locals]
    /\ delivered \in Nat

XcbTypeOK ==
    /\ xcb_events \in Seq(Items)
    /\ xcb_replies \in SUBSET Items
    /\ request_read \in Nat
    /\ answered \in BOOLEAN
    /\ errored \in BOOLEAN
    /\ server \in [events : Nat, errors : Nat]

TypeOK ==
    LockTypeOK /\ RequestTypeOK /\ ResponseTypeOK /\ ThreadTypeOK /\ XcbTypeOK

XlibOwnsEventQueue == event_owner = "XlibOwnsEventQueue"

Init ==
    /\ LockInit
    /\ issued = <<>>
    /\ last_flushed = 0
    /\ last_request_read = 0
    /\ pending_requests = <<>>
    /\ async_handlers = {}
    /\ next_event = NoItem
    /\ next_response = NoItem
    /\ event_waiter = FALSE
    /\ qlen = 0
    /\ next_event_serial_num = 1
    /\ fatal = "none"
    /\ pc = [t \in Threads |-> "Idle"]
    /\ \E setup \in Setups :
          script = setup.script /\ event_owner = setup.event_owner
    /\ local = [t \in Threads |->
                  [back |-> "Idle", caller |-> "Flush", resume |-> "Idle",
                   done |-> "Idle",
                   current |-> 0, req |-> 0, response |-> NoItem,
                   error |-> NoItem, event |-> NoItem, serial |-> 0,
                   handles |-> {}, polled |-> NoItem]]
    /\ delivered = 0
    /\ xcb_events = <<>>
    /\ xcb_replies = {}
    /\ request_read = 0
    /\ answered = TRUE
    /\ errored = FALSE
    /\ server = [events |-> 0, errors |-> 0]

-----------------------------------------------------------------------------
(***************************************************************************)
(* Helpers.                                                                *)
(***************************************************************************)
Goto(t, label) == pc' = [pc EXCEPT ![t] = label]

\* A step of t inside the lock.
At(t, label) == fatal = "none" /\ pc[t] = label /\ mutex = t

\* A step of t outside the lock.
Outside(t, label) == fatal = "none" /\ pc[t] = label

\* Sleep on c; Resume(t) continues at label.
SleepAt(t, c, label) ==
    /\ ConditionWait(c, t)
    /\ Goto(t, "Asleep")
    /\ local' = [local EXCEPT ![t].back = label]

\* The request whose answer is next.
FirstPending == Head(pending_requests)

\* "Don't let any other thread get this reply."
MutNotClaimed(list, i) == list

Claimed(list, i) == [list EXCEPT ![i].reply_waiter = TRUE]

\* Another thread is blocked in xcb_wait_for_event: it gets the next event.
MutNoReaderCheck == FALSE

ReaderBlocked == event_waiter

\* append_pending_request for every sequence number in first..last
Appended(pending, first, last) ==
    pending \o [i \in 1..(last + 1 - first) |->
                  [sequence |-> first + i - 1, reply_waiter |-> FALSE]]

(***************************************************************************)
(* _XSend: what it does to the list of pending requests.  Replies to       *)
(* requests that nobody waits for must be picked up later when async       *)
(* handlers expect them, or errors were set aside for us.                  *)
(***************************************************************************)
MutFlushTwice ==
    IF ~XlibOwnsEventQueue \/ async_handlers # {}
       THEN Appended(pending_requests, last_flushed, Len(issued))
       ELSE pending_requests

AfterXSend ==
    IF ~XlibOwnsEventQueue \/ async_handlers # {}
       THEN Appended(pending_requests, last_flushed + 1, Len(issued))
       ELSE pending_requests

XSend ==
    /\ pending_requests' = AfterXSend
    /\ last_flushed' = Len(issued)
    /\ UNCHANGED issued

(***************************************************************************)
(* handle_response: an event goes to the queue (_XEnq), a reply to the     *)
(* async handlers, and an error to its async handler or to the             *)
(* application (_XError, which gives the lock up).  Then t is at label.    *)
(***************************************************************************)
HandleResponse(t, item, label) ==
    IF item.type = "error" /\ item.seq \notin async_handlers
       THEN /\ Goto(t, "XError")
            /\ local' = [local EXCEPT ![t].resume = label]
            /\ UNCHANGED queueVars
       ELSE /\ Goto(t, label)
            /\ UNCHANGED local
            /\ IF item.type = "event"
                  THEN /\ qlen' = qlen + 1
                       /\ next_event_serial_num' = next_event_serial_num + 1
                  ELSE UNCHANGED queueVars

-----------------------------------------------------------------------------
(***************************************************************************)
(* XCB and the server (external).  The server answers the flushed requests *)
(* in order; an event carries the number of the last request begun.  The   *)
(* packet for request s tells XCB that every request before s is done.     *)
(***************************************************************************)
\* Errors are kept with the replies when Xlib asked for XCB_REQUEST_CHECKED.
SetAside(item) == item.type = "reply" \/ ~XlibOwnsEventQueue

\* The requests the server may go on to: everything before is finished.
Unanswered(s) == s > request_read \/ (s = request_read /\ ~answered)

CanReach(s) == \A r \in 1..(s - 1) : Unanswered(r) => issued[r] = "void"

\* xcb_poll_for_reply64 has an answer: a response, or none will come.
FirstReply(s) ==
    IF \E r \in xcb_replies : r.seq = s
       THEN CHOOSE r \in xcb_replies : r.seq = s ELSE NoItem
WithoutFirst(s) == {r \in xcb_replies : r.seq # s}
Completed(s) == s < request_read \/ (s = request_read /\ errored)
ReplyReady(s) == Completed(s) \/ FirstReply(s) # NoItem

\* Thread t is in a call of XCB that reads the connection.
Reading(t) ==
    \/ pc[t] = "WaitForEvent" /\ xcb_events = <<>>
    \/ pc[t] = "WaitForReply" /\ ~ReplyReady(local[t].req)
    \/ /\ pc[t] = "Poll"
       /\ next_event = NoItem /\ next_response = NoItem /\ xcb_events = <<>>
    \/ pc[t] = "PollReply" /\ ~ReplyReady(Head(pending_requests).sequence)

Packet(item, isAnswer) ==
    /\ fatal = "none"
    /\ \E t \in Threads : Reading(t)
    /\ IF item.type = "event" \/ ~SetAside(item)
          THEN xcb_events' = Append(xcb_events, item) /\ UNCHANGED xcb_replies
          ELSE xcb_replies' = xcb_replies \cup {item} /\ UNCHANGED xcb_events
    /\ request_read' = item.seq
    /\ answered' = (isAnswer \/ (item.seq = request_read /\ answered))
    /\ errored' = IF isAnswer THEN item.type = "error"
                  ELSE item.seq = request_read /\ errored
    /\ UNCHANGED <<lockVars, displayVars, fatal, threadVars>>

ServerEvent ==
    \E s \in request_read..last_flushed :
        /\ CanReach(s)
        /\ server.events < MaxEvents
        /\ server' = [server EXCEPT !.events = @ + 1]
        /\ Packet([type |-> "event", seq |-> s], FALSE)

ServerReply ==
    \E s \in request_read..last_flushed :
        /\ s > 0 /\ CanReach(s) /\ Unanswered(s) /\ issued[s] = "reply"
        /\ UNCHANGED server
        /\ Packet([type |-> "reply", seq |-> s], TRUE)

ServerError ==
    \E s \in request_read..last_flushed :
        /\ s > 0 /\ CanReach(s) /\ Unanswered(s)
        /\ server.errors < MaxErrors
        /\ server' = [server EXCEPT !.errors = @ + 1]
        /\ Packet([type |-> "error", seq |-> s], TRUE)

-----------------------------------------------------------------------------
(***************************************************************************)
(* Entering and leaving a call.                                            *)
(***************************************************************************)
\* LockDisplay at the head of the next call of the script.
LockDisplay(t) ==
    /\ Outside(t, "Idle")
    /\ script[t] # <<>>
    /\ \/ /\ Acquired(t, FALSE)
          /\ Goto(t, Head(script[t]))
          /\ script' = [script EXCEPT ![t] = Tail(@)]
          /\ UNCHANGED sleeping
       \/ /\ MustWait(t)
          /\ UNCHANGED <<pc, script>>
    /\ UNCHANGED <<userLockVars, displayVars, event_owner, fatal, local, delivered,
                   xcbVars>>

\* UnlockDisplay at its end; its async handlers are gone by then.
UnlockDisplay(t) ==
    /\ At(t, "Unlock")
    /\ Released(t)
    /\ Goto(t, "Idle")
    /\ async_handlers' = async_handlers \ local[t].handles
    /\ local' = [local EXCEPT ![t].handles = {}]
    /\ UNCHANGED <<sleeping, userLockVars, sendVars, last_request_read,
                   pending_requests, next_event, next_response, event_waiter,
                   queueVars, fatal, callVars, delivered, xcbVars>>

\* A thread that slept in ConditionWait has the mutex back.
Resume(t) ==
    /\ Outside(t, "Asleep")
    /\ Wakeup(t)
    /\ Goto(t, local[t].back)
    /\ UNCHANGED <<sleeping, userLockVars, displayVars, fatal, callVars, local,
                   delivered, xcbVars>>

-----------------------------------------------------------------------------
(***************************************************************************)
(* Making requests: _XGetRequest.  If the buffer is full it is flushed     *)
(* first, and the responses that have come are taken in (_XFlush).         *)
(* A round trip goes on into _XReply; an AsyncRoundTrip first makes a      *)
(* request whose reply a handler it registers will get.                    *)
(***************************************************************************)
RequestCalls == {"Request", "RoundTrip", "AsyncRoundTrip"}

BufferFull == Len(issued) - last_flushed >= BufferSize

GetRequest(t) ==
    /\ pc[t] \in RequestCalls /\ At(t, pc[t])
    /\ ~BufferFull
    /\ issued' = Append(issued, IF pc[t] = "Request" THEN "void" ELSE "reply")
    /\ IF pc[t] = "AsyncRoundTrip"
          THEN /\ async_handlers' = async_handlers \cup {Len(issued) + 1}
               /\ local' = [local EXCEPT ![t].handles = {Len(issued) + 1}]
          ELSE UNCHANGED <<async_handlers, local>>
    /\ Goto(t, CASE pc[t] = "Request" -> "Unlock"
                 [] pc[t] = "RoundTrip" -> "XReply"
                 [] pc[t] = "AsyncRoundTrip" -> "RoundTrip")
    /\ UNCHANGED <<lockVars, last_flushed, last_request_read,
                   pending_requests, next_event, next_response, event_waiter,
                   queueVars, fatal, callVars, delivered, xcbVars>>

\* _XFlush, from a full buffer or from XFlush; then t goes on at label.
\* _XEventsQueued does nothing while a thread is blocked waiting for events.
XFlush(t, label) ==
    /\ XSend
    /\ local' = [local EXCEPT ![t].caller = "Flush", ![t].done = label]
    /\ Goto(t, IF XlibOwnsEventQueue /\ ~ReaderBlocked THEN "Poll" ELSE label)

\* The request is then made: each of these fits in an empty buffer, so
\* _XGetRequest does not come to its exit for one that is still too large.
FlushFullBuffer(t) ==
    /\ pc[t] \in RequestCalls /\ At(t, pc[t])
    /\ BufferFull
    /\ XFlush(t, pc[t])
    /\ UNCHANGED <<lockVars, last_request_read, async_handlers, next_event,
                   next_response, event_waiter, queueVars, fatal, callVars,
                   delivered, xcbVars>>

(***************************************************************************)
(* _XReply, up to its loop: flush, and find or append the pending request  *)
(* for the reply this thread wants.  No other thread may take that reply.  *)
(***************************************************************************)
IsListed(list) == list # <<>> /\ list[Len(list)].sequence = Len(issued)

ReplyList ==
    IF IsListed(AfterXSend) THEN AfterXSend
    ELSE Appended(AfterXSend, Len(issued), Len(issued))

XReply(t) ==
    /\ At(t, "XReply")
    /\ pending_requests' = Claimed(ReplyList, Len(ReplyList))
    /\ fatal' = IF /\ ~IsListed(AfterXSend) /\ AfterXSend # <<>>
                   /\ AfterXSend[Len(AfterXSend)].sequence >= Len(issued)
                THEN "sequence_assert" ELSE fatal
    /\ last_flushed' = Len(issued)
    /\ local' = [local EXCEPT
          ![t].current = pending_requests'[Len(pending_requests')].sequence]
    /\ Goto(t, "ReplyLoop")
    /\ UNCHANGED <<lockVars, issued, last_request_read, async_handlers,
                   next_event, next_response, event_waiter, queueVars,
                   callVars, delivered, xcbVars>>

(***************************************************************************)
(* The top of _XReply's loop: the first pending request is either another  *)
(* thread's business, or this thread waits for it with the lock released.  *)
(***************************************************************************)
ReplyLoop(t) ==
    /\ At(t, "ReplyLoop")
    /\ LET first == FirstPending
       IN \/ /\ first.sequence # local[t].current
             /\ first.reply_waiter
             /\ SleepAt(t, "reply_notify", "ReplyLoop")
             /\ UNCHANGED pending_requests
          \/ /\ first.sequence = local[t].current \/ ~first.reply_waiter
             /\ pending_requests' = Claimed(pending_requests, 1)
             /\ local' = [local EXCEPT ![t].req = first.sequence]
             /\ Released(t)
             /\ Goto(t, "WaitForReply")
             /\ UNCHANGED sleeping
    /\ UNCHANGED <<userLockVars, sendVars, last_request_read, async_handlers,
                   next_event, next_response, event_waiter, queueVars, fatal,
                   callVars, delivered, xcbVars>>

\* xcb_wait_for_reply64 returns.
WaitForReply(t) ==
    /\ Outside(t, "WaitForReply")
    /\ ReplyReady(local[t].req)
    /\ LET r == FirstReply(local[t].req)
       IN /\ xcb_replies' = WithoutFirst(local[t].req)
          /\ local' = [local EXCEPT
                ![t].response = IF r.type = "reply" THEN r ELSE NoItem,
                ![t].error = IF r.type = "error" THEN r ELSE NoItem]
    /\ Goto(t, "GotReply")
    /\ UNCHANGED <<lockVars, displayVars, fatal, callVars, delivered,
                   xcb_events, request_read, answered, errored, server>>

(***************************************************************************)
(* _XReply relocks, ignoring user locks, and processes the events that     *)
(* came before, unless some thread is blocked waiting for events.          *)
(***************************************************************************)
GotReply(t) ==
    /\ Outside(t, "GotReply")
    /\ Acquired(t, TRUE)
    /\ IF XlibOwnsEventQueue /\ ~ReaderBlocked
          THEN /\ local' = [local EXCEPT ![t].caller = "Reply"]
               /\ Goto(t, "Poll")
          ELSE UNCHANGED local /\ Goto(t, "FinishReply")
    /\ UNCHANGED <<sleeping, userLockVars, displayVars, fatal, callVars,
                   delivered, xcbVars>>

(***************************************************************************)
(* The rest of the loop: the request waited for has been processed.  It    *)
(* stays in the list until XCB says that no more replies will come.        *)
(***************************************************************************)
MutNoWakeup == UNCHANGED sleeping

WakeRepliers == ConditionBroadcast("reply_notify")

\* No thread waits for the replies that may still come.
MutStillMarked(list, req) == list

Unmarked(list, req) ==
    [i \in DOMAIN list |->
        IF list[i].sequence = req THEN [list[i] EXCEPT !.reply_waiter = FALSE]
        ELSE list[i]]

FinishReply(t) ==
    /\ At(t, "FinishReply")
    /\ LET req == local[t].req
           more == local[t].response # NoItem
           lost == ~more /\ Head(pending_requests).sequence # req
       IN /\ last_request_read' = req
          /\ pending_requests' =
                IF more
                   THEN Unmarked(pending_requests, req)
                   ELSE IF lost THEN pending_requests
                   ELSE Tail(pending_requests)
          /\ fatal' = IF lost THEN "sequence_assert" ELSE fatal
          /\ IF req = local[t].current
                THEN Goto(t, "ReplyDone") /\ UNCHANGED <<local, queueVars>>
                ELSE HandleResponse(t, IF local[t].error # NoItem
                                       THEN local[t].error
                                       ELSE local[t].response, "ReplyLoop")
    /\ WakeRepliers
    /\ UNCHANGED <<mutex, userLockVars, sendVars, async_handlers, next_event,
                   next_response, event_waiter, callVars, delivered, xcbVars>>

(***************************************************************************)
(* The end of _XReply.  An error for this request may be waiting as the    *)
(* next event.  Some errors are returned, the others go to the             *)
(* application.  Neither a reply nor an error: _XIOError, which exits.     *)
(***************************************************************************)
ReplyDone(t) ==
    /\ At(t, "ReplyDone")
    /\ LET mine == next_event.type = "error" /\ next_event.seq = last_request_read
           error == IF mine THEN next_event ELSE local[t].error
       IN /\ next_event' = IF mine THEN NoItem ELSE next_event
          /\ \/ /\ error # NoItem
                \* BadName, BadFont, BadAlloc, BadAccess: just return 0
                /\ Goto(t, "Unlock")
                /\ UNCHANGED <<local, queueVars, fatal>>
             \/ /\ error # NoItem
                /\ HandleResponse(t, error, "Unlock")
                /\ UNCHANGED fatal
             \/ /\ error = NoItem
                /\ fatal' = IF local[t].response = NoItem THEN "io_error"
                            ELSE fatal
                /\ Goto(t, "Unlock")
                /\ UNCHANGED <<local, queueVars>>
    /\ UNCHANGED <<lockVars, sendVars, last_request_read, pending_requests,
                   async_handlers, next_response, event_waiter, callVars,
                   delivered, xcbVars>>

-----------------------------------------------------------------------------
(***************************************************************************)
(* poll_for_event asserts that no thread is blocked waiting for events,    *)
(* then takes the next event of XCB unless one is left over.  The event is *)
(* returned if it came before the answer to the first pending request; an  *)
(* error numbered like that request is left for the thread that waits.     *)
(***************************************************************************)
NextQueuedEvent ==
    CASE next_event # NoItem -> next_event
      [] next_event = NoItem /\ xcb_events # <<>> -> Head(xcb_events)
      [] OTHER -> NoItem

FetchedFromXcb ==
    xcb_events' = IF next_event = NoItem /\ xcb_events # <<>>
                  THEN Tail(xcb_events) ELSE xcb_events

MutAnyOrder(event) == event # NoItem

MutErrorToo(event) ==
    /\ event # NoItem
    /\ pending_requests # <<>> =>
          event.seq <= Head(pending_requests).sequence

InOrder(event) ==
    /\ event # NoItem
    /\ pending_requests # <<>> =>
          \/ event.seq < Head(pending_requests).sequence
          \/ /\ event.type # "error"
             /\ event.seq = Head(pending_requests).sequence

EventWaiterAssert == fatal' = IF event_waiter THEN "event_waiter_assert" ELSE fatal

\* There is a first pending request, and no thread has dibs on its reply.
Unclaimed == pending_requests # <<>> /\ ~Head(pending_requests).reply_waiter

\* poll_for_event returns an event, which the caller handles.
TakeNextEvent(t, label) ==
    /\ InOrder(NextQueuedEvent)
    /\ FetchedFromXcb
    /\ next_event' = NoItem
    /\ last_request_read' = NextQueuedEvent.seq
    /\ HandleResponse(t, NextQueuedEvent, label)

\* poll_for_event returns NULL, perhaps leaving an event for later.
MutDropEvent ==
    /\ ~InOrder(NextQueuedEvent)
    /\ FetchedFromXcb
    /\ next_event' = NoItem

LeaveNextEvent ==
    /\ ~InOrder(NextQueuedEvent)
    /\ FetchedFromXcb
    /\ next_event' = NextQueuedEvent

\* Where the four loops around poll_for_response go on after a response ...
AfterResponse(t) ==
    IF local[t].caller = "ReadEvents" THEN "ReadLoop" ELSE "Poll"

\* ... and after NULL.
AfterNoResponse(t) ==
    CASE local[t].caller = "Reply" -> "FinishReply"
      [] local[t].caller = "ReadEvents" -> "NoResponse"
      [] local[t].caller = "Drain" -> "TakeEvent"
      [] local[t].caller = "Flush" -> local[t].done

(***************************************************************************)
(* Step 6 of poll_for_response: the first pending request has its answer.  *)
(* A reply is returned to be handled and its request stays; without one    *)
(* the request is finished, and an error is returned.                      *)
(***************************************************************************)
Answer(t, item) ==
    /\ last_request_read' = Head(pending_requests).sequence
    /\ pending_requests' = IF item.type = "reply" THEN pending_requests
                           ELSE Tail(pending_requests)
    /\ IF item = NoItem
          THEN Goto(t, "Poll") /\ UNCHANGED <<local, queueVars>>
          ELSE HandleResponse(t, item, AfterResponse(t))

\* Steps 1 to 3 of poll_for_response.
Poll(t) ==
    /\ At(t, "Poll")
    /\ EventWaiterAssert
    /\ \/ /\ TakeNextEvent(t, AfterResponse(t))
          /\ UNCHANGED <<pending_requests, next_response>>
       \/ /\ LeaveNextEvent
          /\ ~Unclaimed
          /\ Goto(t, AfterNoResponse(t))
          /\ UNCHANGED <<local, queueVars, pending_requests, next_response,
                         last_request_read>>
       \/ /\ LeaveNextEvent
          /\ Unclaimed
          /\ IF next_response # NoItem
                THEN /\ Answer(t, next_response)
                     /\ next_response' = NoItem
                ELSE /\ Goto(t, "PollReply")
                     /\ UNCHANGED <<local, queueVars, pending_requests,
                                    next_response, last_request_read>>
    /\ UNCHANGED <<lockVars, sendVars, async_handlers, event_waiter, callVars,
                   delivered, xcb_replies, request_read, answered, errored,
                   server>>

(***************************************************************************)
(* Step 4: xcb_poll_for_reply64, which may read the connection.  If it has *)
(* nothing for the request it may still have read events.                  *)
(***************************************************************************)
PollReply(t) ==
    /\ At(t, "PollReply")
    /\ LET first == Head(pending_requests).sequence
       IN \/ /\ ReplyReady(first)
             /\ xcb_replies' = WithoutFirst(first)
             /\ local' = [local EXCEPT ![t].polled = FirstReply(first)]
             /\ Goto(t, "PollAgain")
             /\ UNCHANGED <<xcb_events, next_event, last_request_read,
                            queueVars, fatal>>
          \/ /\ ~ReplyReady(first)
             /\ EventWaiterAssert
             /\ TakeNextEvent(t, AfterResponse(t))
             /\ UNCHANGED xcb_replies
          \/ /\ ~ReplyReady(first)
             /\ EventWaiterAssert
             /\ LeaveNextEvent
             /\ Goto(t, AfterNoResponse(t))
             /\ UNCHANGED <<xcb_replies, local, queueVars, last_request_read>>
    /\ UNCHANGED <<lockVars, sendVars, pending_requests, async_handlers,
                   next_response, event_waiter, callVars, delivered,
                   request_read, answered, errored, server>>

(***************************************************************************)
(* Step 5: events that came before the answer go first; the answer is      *)
(* saved.  Step 6 otherwise.                                               *)
(***************************************************************************)
PollAgain(t) ==
    /\ At(t, "PollAgain")
    /\ EventWaiterAssert
    /\ \/ /\ TakeNextEvent(t, AfterResponse(t))
          /\ next_response' = local[t].polled
          /\ UNCHANGED pending_requests
       \/ /\ LeaveNextEvent
          /\ Answer(t, local[t].polled)
          /\ UNCHANGED next_response
    /\ UNCHANGED <<lockVars, sendVars, async_handlers, event_waiter, callVars,
                   delivered, xcb_replies, request_read, answered, errored,
                   server>>

-----------------------------------------------------------------------------
(***************************************************************************)
(* _XError: the thread takes the user lock, sleeping while another thread  *)
(* has it, and releases the display for the application's error handler.   *)
(* Afterwards it locks the display again and gives the user lock back.     *)
(***************************************************************************)
XError(t) ==
    /\ At(t, "XError")
    /\ \/ /\ UserLockedByOther(t)
          /\ SleepAt(t, "cv", "XError")
          /\ UNCHANGED <<locking_level, locking_thread>>
       \/ /\ UserLocked(t)
          /\ Released(t)
          /\ Goto(t, "UserErrorHandler")
          /\ UNCHANGED <<sleeping, local>>
    /\ UNCHANGED <<ifeventVars, displayVars, fatal, callVars, delivered, xcbVars>>

UserErrorHandler(t) ==
    /\ Outside(t, "UserErrorHandler")
    /\ Acquired(t, FALSE)
    /\ UserUnlocked
    /\ Goto(t, local[t].resume)
    /\ UNCHANGED <<ifeventVars, displayVars, fatal, callVars, local, delivered,
                   xcbVars>>

-----------------------------------------------------------------------------
(***************************************************************************)
(* XNextEvent: if the queue is empty, _XReadEvents flushes and blocks      *)
(* until this or another thread has put an event into the queue.           *)
(***************************************************************************)
NextEvent(t) ==
    /\ At(t, "NextEvent")
    /\ IF qlen > 0
          THEN Goto(t, "TakeEvent") /\ UNCHANGED <<local, sendVars, pending_requests>>
          ELSE /\ XSend
               /\ local' = [local EXCEPT ![t].serial = next_event_serial_num]
               /\ Goto(t, IF XlibOwnsEventQueue THEN "ReadLoop" ELSE "TakeEvent")
    /\ UNCHANGED <<lockVars, last_request_read, async_handlers, next_event,
                   next_response, event_waiter, queueVars, fatal, callVars,
                   delivered, xcbVars>>

\* The head of the loop in _XReadEvents, and the test before its last loop.
MutOneResponse(t) == local[t].caller = "ReadEvents"

EnoughRead(t) == local[t].serial # next_event_serial_num /\ qlen > 0

ReadLoop(t) ==
    /\ At(t, "ReadLoop")
    /\ LET enough == EnoughRead(t)
       IN \/ /\ enough
             /\ IF ReaderBlocked
                   THEN Goto(t, "TakeEvent") /\ UNCHANGED local
                   ELSE /\ local' = [local EXCEPT ![t].caller = "Drain"]
                        /\ Goto(t, "Poll")
             /\ UNCHANGED <<mutex, sleeping, event_waiter>>
          \/ /\ ~enough /\ ReaderBlocked
             /\ SleepAt(t, "event_notify", "ReadLoop")
             /\ UNCHANGED event_waiter
          \/ /\ ~enough /\ ~ReaderBlocked /\ next_event = NoItem
             /\ event_waiter' = TRUE
             /\ Released(t)
             /\ Goto(t, "WaitForEvent")
             /\ UNCHANGED <<local, sleeping>>
          \/ /\ ~enough /\ ~ReaderBlocked /\ next_event # NoItem
             /\ local' = [local EXCEPT ![t].caller = "ReadEvents"]
             /\ Goto(t, "Poll")
             /\ UNCHANGED <<mutex, sleeping, event_waiter>>
    /\ UNCHANGED <<userLockVars, sendVars, last_request_read, pending_requests,
                   async_handlers, next_event, next_response, queueVars, fatal,
                   callVars, delivered, xcbVars>>

\* xcb_wait_for_event returns.
WaitForEvent(t) ==
    /\ Outside(t, "WaitForEvent")
    /\ xcb_events # <<>>
    /\ local' = [local EXCEPT ![t].event = Head(xcb_events)]
    /\ xcb_events' = Tail(xcb_events)
    /\ Goto(t, "GotEvent")
    /\ UNCHANGED <<lockVars, displayVars, fatal, callVars, delivered,
                   xcb_replies, request_read, answered, errored, server>>

\* _XReadEvents relocks, ignoring user locks, and looks for a response.
GotEvent(t) ==
    /\ Outside(t, "GotEvent")
    /\ Acquired(t, TRUE)
    /\ event_waiter' = FALSE
    /\ ConditionBroadcast("event_notify")
    /\ next_event' = local[t].event
    /\ local' = [local EXCEPT ![t].caller = "ReadEvents", ![t].event = NoItem]
    /\ Goto(t, "Poll")
    /\ UNCHANGED <<userLockVars, sendVars, last_request_read, pending_requests,
                   async_handlers, next_response, queueVars, fatal, callVars,
                   delivered, xcbVars>>

\* poll_for_response had nothing: another thread must act first.
NoResponse(t) ==
    /\ At(t, "NoResponse")
    /\ IF pending_requests # <<>> /\ Head(pending_requests).reply_waiter
          THEN SleepAt(t, "reply_notify", "ReadLoop") /\ UNCHANGED fatal
          ELSE /\ fatal' = IF pending_requests = <<>> THEN "null_pointer"
                           ELSE "io_error"
               /\ UNCHANGED <<mutex, sleeping, pc, local>>
    /\ UNCHANGED <<userLockVars, displayVars, callVars, delivered, xcbVars>>

\* XNextEvent takes the head of the queue, which it does not test.
TakeEvent(t) ==
    /\ At(t, "TakeEvent")
    /\ IF qlen > 0
          THEN /\ qlen' = qlen - 1
               /\ delivered' = delivered + 1
               /\ UNCHANGED fatal
          ELSE fatal' = "null_pointer" /\ UNCHANGED <<qlen, delivered>>
    /\ Goto(t, "Unlock")
    /\ UNCHANGED <<lockVars, sendVars, last_request_read, pending_requests,
                   async_handlers, next_event, next_response, event_waiter,
                   next_event_serial_num, callVars, local, xcbVars>>

(***************************************************************************)
(* XFlush, and XPending, which does nothing when the queue has an event or *)
(* Xlib does not own the event queue.                                      *)
(***************************************************************************)
EventsQueued(t) ==
    /\ \/ At(t, "Flush") /\ XFlush(t, "Unlock")
       \/ At(t, "Pending") /\ qlen = 0 /\ XlibOwnsEventQueue
                          /\ XFlush(t, "Unlock")
       \/ /\ At(t, "Pending") /\ (qlen > 0 \/ ~XlibOwnsEventQueue)
          /\ Goto(t, "Unlock")
          /\ UNCHANGED <<local, sendVars, pending_requests>>
    /\ UNCHANGED <<lockVars, last_request_read, async_handlers, next_event,
                   next_response, event_waiter, queueVars, fatal, callVars,
                   delivered, xcbVars>>

-----------------------------------------------------------------------------
\* XLockDisplay, after LockDisplay.
XLockDisplay(t) ==
    /\ At(t, "XLockDisplay")
    /\ UserLocked(t)
    /\ Released(t)
    /\ Goto(t, "Idle")
    /\ UNCHANGED <<sleeping, ifeventVars, displayVars, fatal, callVars, local,
                   delivered, xcbVars>>

\* XUnlockDisplay, after LockDisplay.
XUnlockDisplay(t) ==
    /\ At(t, "XUnlockDisplay")
    /\ UserUnlocked
    /\ Released(t)
    /\ Goto(t, "Idle")
    /\ UNCHANGED <<ifeventVars, displayVars, fatal, callVars, local, delivered,
                   xcbVars>>

-----------------------------------------------------------------------------
Thread(t) ==
    \/ LockDisplay(t) \/ UnlockDisplay(t) \/ Resume(t)
    \/ GetRequest(t) \/ FlushFullBuffer(t) \/ XReply(t) \/ ReplyLoop(t) \/ WaitForReply(t)
    \/ GotReply(t) \/ FinishReply(t) \/ ReplyDone(t)
    \/ Poll(t) \/ PollReply(t) \/ PollAgain(t)
    \/ XError(t) \/ UserErrorHandler(t)
    \/ NextEvent(t) \/ ReadLoop(t) \/ WaitForEvent(t) \/ GotEvent(t)
    \/ NoResponse(t) \/ TakeEvent(t) \/ EventsQueued(t)
    \/ XLockDisplay(t) \/ XUnlockDisplay(t)

Server == ServerEvent \/ ServerReply \/ ServerError

\* The process has ended, or every call has returned or waits for events
\* that the server may never send.
Stopped ==
    /\ \/ fatal # "none"
       \/ \A t \in Threads :
             \/ pc[t] = "Idle" /\ script[t] = <<>>
             \/ pc[t] = "WaitForEvent" /\ xcb_events = <<>>
             \/ t \in sleeping["event_notify"] /\ event_waiter
    /\ UNCHANGED vars

Next == (\E t \in Threads : Thread(t)) \/ Server \/ Stopped

Spec == Init /\ [][Next]_vars

\* The scheduler runs every thread, and the server answers every request.
FairSpec ==
    /\ Spec
    /\ \A t \in Threads : WF_vars(Thread(t))
    /\ WF_vars(ServerReply)

-----------------------------------------------------------------------------
(***************************************************************************)
(* Properties.                                                             *)
(***************************************************************************)
\* Threads that have set event_waiter and are in xcb_wait_for_event.
BlockedReaders == {t \in Threads : pc[t] \in {"WaitForEvent", "GotEvent"}}

\* Threads inside poll_for_response.
Pollers == {t \in Threads : pc[t] \in {"Poll", "PollReply", "PollAgain"}}

\* "At most one thread can be reading from XCB's event queue at a time."
\* (xcb_io.c, thread-safety rules; the assertion in poll_for_event)
OneEventReader == Cardinality(BlockedReaders \cup Pollers) <= 1

\* The same rule for replies: a thread blocked in xcb_wait_for_reply64, or
\* back from it with an answer it has not processed, is the only one, and
\* the answer is for the first pending request.
OneReplyReader ==
    \A t \in Threads : pc[t] \in {"WaitForReply", "GotReply", "FinishReply"} =>
        /\ \A u \in Threads \ {t} :
              pc[u] \notin {"WaitForReply", "GotReply", "FinishReply"}
        /\ pending_requests # <<>>
        /\ Head(pending_requests).sequence = local[t].req
        /\ Head(pending_requests).reply_waiter

\* The pending requests are in the order they were made, none twice, and
\* all were made: the list append_pending_request and dequeue_pending_request
\* keep, whose checks end the process otherwise.
PendingInOrder ==
    /\ \A i, j \in 1..Len(pending_requests) :
          i < j => pending_requests[i].sequence < pending_requests[j].sequence
    /\ \A i \in 1..Len(pending_requests) :
          pending_requests[i].sequence \in 1..Len(issued)
    /\ fatal # "sequence_assert"

\* "We always process all responses in sequence-number order": the number
\* of the last response processed never decreases.
ResponsesInOrder == [][last_request_read' >= last_request_read]_vars

\* _XReply and _XReadEvents report an I/O error only when the connection
\* fails (here it never does): every reply or error reaches the thread that
\* waits for it, whoever read it.
NoSpuriousIOError == fatal # "io_error"

\* _XReadEvents returns only with an event in the queue, which XNextEvent
\* then takes without looking.
ReadEventsDelivers == fatal # "null_pointer"

\* No event is lost or duplicated on its way from the server to the caller.
EventsIn(queue) == {i \in DOMAIN queue : queue[i].type = "event"}
HeldEvents == {t \in Threads : local[t].event.type = "event"}
One(item) == IF item.type = "event" THEN 1 ELSE 0
EventsConserved ==
    server.events =
        Cardinality(EventsIn(xcb_events)) + Cardinality(HeldEvents)
        + One(next_event) + qlen + delivered

\* Every round trip comes back, whatever the other threads do.
RoundTripsReturn ==
    \A t \in Threads : pc[t] = "XReply" ~> (pc[t] = "Idle" \/ fatal # "none")
=============================================================================
