------------------------------ MODULE XcbIoInv ------------------------------
(***************************************************************************)
(* The inductive invariant behind the safety of _XReply in XcbIo: why two  *)
(* threads never wait for the same reply and why the list of pending       *)
(* requests stays in order.                                                *)
(***************************************************************************)
EXTENDS XcbIo

\* The place in the code where t is, or to which it returns from a sleep in
\* ConditionWait or from the application's error handler.
Place(t) ==
    IF pc[t] \in {"XError", "UserErrorHandler"} THEN local[t].resume
    ELSE IF pc[t] # "Asleep" THEN pc[t]
    ELSE IF local[t].back = "XError" THEN local[t].resume
    ELSE local[t].back

\* t has dibs on the reply to local[t].req: from claiming the head of the
\* list in _XReply's loop until it has processed the answer.
Claiming(t) ==
    \/ Place(t) \in {"WaitForReply", "GotReply", "FinishReply"}
    \/ Place(t) \in {"Poll", "PollReply", "PollAgain"} /\ local[t].caller = "Reply"

\* t is in _XReply's loop.
InReply(t) == Claiming(t) \/ Place(t) = "ReplyLoop"

\* t is at a place that it only reaches with the display locked.
Inside(t) ==
    pc[t] \notin {"Idle", "Asleep", "WaitForReply", "GotReply",
                  "WaitForEvent", "GotEvent", "UserErrorHandler"}

(***************************************************************************)
(* The parts of the invariant.                                             *)
(***************************************************************************)
\* The display lock excludes.
LockHeld ==
    /\ in_ifevent = 0
    /\ \A t \in Threads : Inside(t) => mutex = t

\* The pending requests are flushed requests in the order they were made.
PendingSorted ==
    /\ \A i \in 1..Len(pending_requests) :
          pending_requests[i].sequence \in 1..last_flushed
    /\ \A i, j \in 1..Len(pending_requests) :
          i < j => pending_requests[i].sequence < pending_requests[j].sequence

\* The thread with dibs waits for the head of the list, and it is alone.
ClaimIsHead ==
    \A t \in Threads : Claiming(t) =>
        /\ pending_requests # <<>>
        /\ Head(pending_requests).sequence = local[t].req
        /\ Head(pending_requests).reply_waiter
        /\ \A u \in Threads : Claiming(u) => u = t

\* The request of a thread in _XReply stays in the list, marked, until that
\* thread has its reply.
Listed(s) ==
    \E i \in 1..Len(pending_requests) :
        pending_requests[i].sequence = s /\ pending_requests[i].reply_waiter

CurrentListed == \A t \in Threads : InReply(t) => Listed(local[t].current)

\* Threads in _XReply made different requests, and none waits in the name
\* of another thread that is there.
CurrentDistinct ==
    \A t, u \in Threads : t # u /\ InReply(t) /\ InReply(u) =>
        /\ local[t].current # local[u].current
        /\ Claiming(u) => local[u].req # local[t].current

\* What holds between two steps of one critical section.
AtPlaces ==
    \A t \in Threads :
        /\ pc[t] \in {"PollReply", "PollAgain"} => Unclaimed
        /\ pc[t] = "XReply" => last_flushed < Len(issued)

IInv ==
    /\ TypeOK
    /\ LockHeld
    /\ PendingSorted
    /\ ClaimIsHead
    /\ CurrentListed
    /\ CurrentDistinct
    /\ AtPlaces
    /\ fatal # "sequence_assert"

(***************************************************************************)
(* What it needs besides to keep the process alive while no request fails. *)
(***************************************************************************)
\* t has set event_waiter and is in xcb_wait_for_event or back from it.
Blocked(t) == pc[t] \in {"WaitForEvent", "GotEvent"}

\* t is inside poll_for_response.
Polling(t) == pc[t] \in {"Poll", "PollReply", "PollAgain"}

\* A client that gave the event queue to XCB (XSetEventQueueOwner) does not
\* read events with Xlib: XNextEvent would find none and fail.
EventsThroughXlib ==
    \A setup \in Setups :
        \/ setup.event_owner = "XlibOwnsEventQueue"
        \/ setup.script \in [Threads -> Seq(Calls \ {"NextEvent"})]

EventCallsOfXlib ==
    ~XlibOwnsEventQueue =>
        /\ script \in [Threads -> Seq(Calls \ {"NextEvent"})]
        /\ \A t \in Threads : pc[t] # "NextEvent"

\* event_waiter is set exactly while one thread is blocked for events.
WaiterTrue ==
    /\ event_waiter <=> \E t \in Threads : Blocked(t)
    /\ \A t, u \in Threads : Blocked(t) /\ Blocked(u) => t = u

\* No event carries the number of a request XCB has not heard of.
NumbersRead ==
    /\ request_read <= last_flushed
    /\ next_event.seq <= request_read
    /\ \A i \in 1..Len(xcb_events) : xcb_events[i].seq <= request_read
    /\ \A t \in Threads : local[t].event.seq <= request_read

\* There is no error anywhere, and no thread on its way to a handler.
NoErrorSeen ==
    /\ ~errored
    /\ next_event.type # "error" /\ next_response.type # "error"
    /\ \A i \in 1..Len(xcb_events) : xcb_events[i].type = "event"
    /\ \A r \in xcb_replies : r.type = "reply"
    /\ \A t \in Threads :
          /\ local[t].error = NoItem
          /\ local[t].response.type # "error"
          /\ local[t].polled.type # "error"
          /\ local[t].event.type # "error"
          /\ pc[t] \notin {"XError", "UserErrorHandler"}
          /\ pc[t] = "Asleep" => local[t].back # "XError"

\* What the loops of _XReadEvents rely on when they have the lock.
PollsGuarded ==
    \A t \in Threads :
        /\ Polling(t) =>
              /\ ~event_waiter
              /\ local[t].caller = "ReadEvents" => next_event # NoItem
              /\ local[t].caller = "Drain" => qlen > 0
        /\ pc[t] = "TakeEvent" => qlen > 0
        /\ pc[t] = "NoResponse" =>
              pending_requests # <<>> /\ Head(pending_requests).reply_waiter
        /\ pc[t] = "GotEvent" => local[t].event # NoItem

\* The reply that a thread in _XReply asked for is still to come, or XCB has
\* it, or the thread has it.
HasAnswer(t) ==
    Claiming(t) /\ Place(t) # "WaitForReply" /\ local[t].req = local[t].current

ReplyKept(t) ==
    LET s == local[t].current
    IN /\ s \in 1..last_flushed /\ issued[s] = "reply"
       /\ IF HasAnswer(t) THEN local[t].response.type = "reply"
          ELSE Unanswered(s) \/ \E r \in xcb_replies : r.seq = s

RepliesKept ==
    \A t \in Threads :
        /\ InReply(t) => ReplyKept(t)
        /\ pc[t] = "ReplyDone" => local[t].response.type = "reply"
        /\ pc[t] = "XReply" => issued[Len(issued)] = "reply"

RInv ==
    /\ IInv
    /\ EventCallsOfXlib
    /\ WaiterTrue
    /\ NumbersRead
    /\ server.errors = 0 =>
          NoErrorSeen /\ PollsGuarded /\ RepliesKept /\ fatal = "none"

(***************************************************************************)
(* What keeps events from being lost or counted twice, whether requests    *)
(* fail or not.                                                            *)
(***************************************************************************)
\* The thread back from xcb_wait_for_event has the only event outside the
\* lists, and it finds next_event free when it puts the event there.
NextEventFree ==
    /\ \A t \in Threads : local[t].event # NoItem => pc[t] = "GotEvent"
    /\ fatal = "none" /\ event_waiter => next_event = NoItem

\* No event is where the answers to requests are kept.
AnswersOnly ==
    /\ next_response.type # "event"
    /\ \A r \in xcb_replies : r.type # "event"
    /\ \A t \in Threads :
          \A item \in {local[t].response, local[t].error, local[t].polled} :
             item.type # "event"

EInv == IInv /\ WaiterTrue /\ NextEventFree /\ AnswersOnly /\ EventsConserved

(***************************************************************************)
(* Beyond the invariants above.                                             *)
(***************************************************************************)
\* Nobody takes the answer to a request away from the thread in _XReply that
\* made it: once sent it is with XCB or the thread has it, an error may also
\* be the next event.  (An error does get lost when another thread is
\* blocked for events: xcb_io.c, the end of _XReply.)
ErrorFor(s, item) == item.type = "error" /\ item.seq = s

AnswerAwaitsCaller ==
    \A t \in Threads : InReply(t) =>
        LET s == local[t].current
        IN \/ Unanswered(s)
           \/ FirstReply(s) # NoItem
           \/ local[t].response.seq = s
           \/ \E e \in {next_event, local[t].error} : ErrorFor(s, e)
           \/ \E i \in DOMAIN xcb_events : ErrorFor(s, xcb_events[i])

\* While no request fails, the process goes on: one thread at a time reads
\* XCB's event queue, each XNextEvent finds the event that _XReadEvents has
\* read, and each _XReply gets its reply.  All three end with the first
\* error: its handler runs with the display unlocked in the middle of the
\* loops that poll for responses (xcb_io.c:528, 721).
ReadersUndisturbed ==
    server.errors = 0 => OneEventReader /\ ReadEventsDelivers /\ NoSpuriousIOError


(***************************************************************************)
(* What keeps the process alive, and every answer with its thread, in a    *)
(* client that never calls XNextEvent: then errors do no harm either.      *)
(***************************************************************************)
\* Nobody waits for events with Xlib: the client only makes requests, or has
\* given the event queue to XCB.
NoReaders ==
    \A setup \in Setups : setup.script \in [Threads -> Seq(Calls \ {"NextEvent"})]

ReaderPlaces ==
    {"NextEvent", "ReadLoop", "WaitForEvent", "GotEvent", "NoResponse", "TakeEvent"}

NobodyReads ==
    /\ script \in [Threads -> Seq(Calls \ {"NextEvent"})]
    /\ ~event_waiter
    /\ \A t \in Threads :
          /\ pc[t] \notin ReaderPlaces
          /\ local[t].caller \in {"Flush", "Reply"}
          /\ local[t].resume # "ReadLoop" /\ local[t].back # "ReadLoop"

\* XCB's events are in the order of their numbers, the next event first, and
\* errors are among them only if they are not set aside.
EventsOrdered ==
    /\ \A i \in 1..Len(xcb_events) : xcb_events[i] # NoItem
    /\ \A i, j \in 1..Len(xcb_events) : i < j => xcb_events[i].seq <= xcb_events[j].seq
    /\ next_event # NoItem => \A i \in 1..Len(xcb_events) : next_event.seq <= xcb_events[i].seq

ErrorsSetAside ==
    /\ errored => answered
    /\ ~XlibOwnsEventQueue =>
          /\ next_event.type # "error"
          /\ \A i \in 1..Len(xcb_events) : xcb_events[i].type # "error"

\* The error that answers request s waits among the events.
ErrorWaits(s) ==
    \/ ErrorFor(s, next_event)
    \/ \E i \in 1..Len(xcb_events) : ErrorFor(s, xcb_events[i])

\* t has the answer to the request s.
Replied(t, s) ==
    \/ local[t].response.type = "reply" /\ local[t].response.seq = s
    \/ ErrorFor(s, local[t].error)

\* Where the answer is that a thread in _XReply needs.
AnswerKept(t) ==
    LET s == local[t].current
    IN /\ s \in 1..last_flushed /\ issued[s] = "reply"
       /\ \/ ErrorWaits(s)
          \/ IF HasAnswer(t) THEN Replied(t, s)
             ELSE Unanswered(s) \/ \E r \in xcb_replies : r.seq = s
       /\ pc[t] = "FinishReply" /\ local[t].req = s =>
             Replied(t, s) \/ ErrorFor(s, next_event)

\* At the end of _XReply, and at its beginning.
AnswerAtEnd(t) ==
    LET s == local[t].current
    IN /\ s = last_request_read
       /\ Replied(t, s) \/ ErrorFor(s, next_event)
       /\ \A u \in Threads : InReply(u) => local[u].current # s

AnswersKept ==
    \A t \in Threads :
        /\ InReply(t) => AnswerKept(t)
        /\ pc[t] = "ReplyDone" => AnswerAtEnd(t)
        /\ pc[t] = "XReply" => issued[Len(issued)] = "reply"

DInv ==
    /\ EInv
    /\ NumbersRead
    /\ NobodyReads
    /\ EventsOrdered
    /\ ErrorsSetAside
    /\ AnswersKept
    /\ fatal = "none"

=============================================================================
