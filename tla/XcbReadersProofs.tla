-------------------------- MODULE XcbReadersProofs --------------------------
(***************************************************************************)
(* While no request fails, Xlib never ends the process: the proof, for     *)
(* every number of threads and every script, that RInv is an invariant of  *)
(* XcbIo.  Whatever the server answers, no event is lost or counted twice: *)
(* EInv.  And if nobody waits for events with Xlib, every answer gets to   *)
(* the thread that asked for it, errors and their handlers included: DInv. *)
(* The comments name the code of src/src/xcb_io.c.                         *)
(***************************************************************************)
EXTENDS XcbIoProofs, FiniteSetTheorems

(***************************************************************************)
(* The building blocks of the steps.                                       *)
(***************************************************************************)
\* NoItem is the only item without a type.
LEMMA ItemFacts ==
    \A x \in Items :
        /\ x.seq \in Nat
        /\ x.type \in {"none", "event", "error", "reply"}
        /\ x.type = "none" <=> x = NoItem
BY DEF Items, NoItem

\* Where the loops around poll_for_response send their thread.
LEMMA LoopFacts ==
    ASSUME TypeOK, NEW t \in Threads
    PROVE  /\ AfterResponse(t) = IF local[t].caller = "ReadEvents" THEN "ReadLoop" ELSE "Poll"
           /\ local[t].caller = "Reply" => AfterNoResponse(t) = "FinishReply"
           /\ local[t].caller = "ReadEvents" => AfterNoResponse(t) = "NoResponse"
           /\ local[t].caller = "Drain" => AfterNoResponse(t) = "TakeEvent"
           /\ local[t].caller = "Flush" => AfterNoResponse(t) \in DoneLabels
           /\ local[t].caller \in {"Reply", "ReadEvents", "Drain", "Flush"}
<1>1. local[t] \in Locals
  BY DEF TypeOK, ThreadTypeOK
<1>2. /\ local[t].caller \in {"Reply", "ReadEvents", "Drain", "Flush"}
      /\ local[t].done \in DoneLabels
  BY <1>1 DEF Locals
<1> QED
  BY <1>2 DEF AfterResponse, AfterNoResponse

\* The next event is the one left over, or the first of XCB's queue.
LEMMA NextQueuedFacts ==
    /\ next_event # NoItem => NextQueuedEvent = next_event
    /\ next_event = NoItem /\ xcb_events # <<>> => NextQueuedEvent = Head(xcb_events)
    /\ next_event = NoItem /\ xcb_events = <<>> => NextQueuedEvent = NoItem
BY DEF NextQueuedEvent

-----------------------------------------------------------------------------
(***************************************************************************)
(* The calls that read events, and the thread blocked for one.             *)
(***************************************************************************)
\* No step changes which library owns the event queue.
LEMMA OwnerStays == \A t \in Threads : Thread(t) => event_owner' = event_owner
<1> SUFFICES ASSUME NEW t \in Threads, Thread(t) PROVE event_owner' = event_owner
  OBVIOUS
<1>1. CASE LockDisplay(t) \/ UnlockDisplay(t) \/ Resume(t) \/ GetRequest(t)
           \/ FlushFullBuffer(t) \/ XReply(t) \/ ReplyLoop(t) \/ WaitForReply(t)
  BY <1>1 DEF LockDisplay, UnlockDisplay, Resume, GetRequest, FlushFullBuffer,
     XReply, ReplyLoop, WaitForReply, callVars
<1>2. CASE GotReply(t) \/ FinishReply(t) \/ ReplyDone(t) \/ Poll(t) \/ PollReply(t)
           \/ PollAgain(t) \/ XError(t) \/ UserErrorHandler(t)
  BY <1>2 DEF GotReply, FinishReply, ReplyDone, Poll, PollReply, PollAgain,
     XError, UserErrorHandler, callVars
<1>3. CASE NextEvent(t) \/ ReadLoop(t) \/ WaitForEvent(t) \/ GotEvent(t) \/ NoResponse(t)
           \/ TakeEvent(t) \/ EventsQueued(t) \/ XLockDisplay(t) \/ XUnlockDisplay(t)
  BY <1>3 DEF NextEvent, ReadLoop, WaitForEvent, GotEvent, NoResponse, TakeEvent,
     EventsQueued, XLockDisplay, XUnlockDisplay, callVars
<1> QED
  BY <1>1, <1>2, <1>3 DEF Thread

\* The calls that are left are some of those that were.
LEMMA CallsStep ==
    ASSUME IInv, NEW t \in Threads, Thread(t),
           script \in [Threads -> Seq(Calls \ {"NextEvent"})]
    PROVE  script' \in [Threads -> Seq(Calls \ {"NextEvent"})]
<1>d. script[t] # <<>> => /\ Head(script[t]) \in Calls \ {"NextEvent"}
                          /\ Tail(script[t]) \in Seq(Calls \ {"NextEvent"})
  BY HeadTailProperties
<1>1. script' \in [Threads -> Seq(Calls \ {"NextEvent"})]
  <2>1. CASE LockDisplay(t)
    <3>1. CASE script' = script
      BY <3>1
    <3>2. CASE script[t] # <<>> /\ script' = [script EXCEPT ![t] = Tail(@)]
      BY <1>d, <3>2
    <3> QED BY <2>1, <3>1, <3>2 DEF LockDisplay
  <2>2. CASE ~LockDisplay(t)
    <3>1. script' = script
      <4>1. CASE UnlockDisplay(t) \/ Resume(t) \/ GetRequest(t) \/ FlushFullBuffer(t)
                 \/ XReply(t) \/ ReplyLoop(t) \/ WaitForReply(t)
        BY <4>1 DEF UnlockDisplay, Resume, GetRequest, FlushFullBuffer,
           XReply, ReplyLoop, WaitForReply, callVars
      <4>2. CASE GotReply(t) \/ FinishReply(t) \/ ReplyDone(t) \/ Poll(t) \/ PollReply(t)
                 \/ PollAgain(t) \/ XError(t) \/ UserErrorHandler(t)
        BY <4>2 DEF GotReply, FinishReply, ReplyDone, Poll, PollReply, PollAgain,
           XError, UserErrorHandler, callVars
      <4>3. CASE NextEvent(t) \/ ReadLoop(t) \/ WaitForEvent(t) \/ GotEvent(t) \/ NoResponse(t)
                 \/ TakeEvent(t) \/ EventsQueued(t) \/ XLockDisplay(t) \/ XUnlockDisplay(t)
        BY <4>3 DEF NextEvent, ReadLoop, WaitForEvent, GotEvent, NoResponse, TakeEvent,
           EventsQueued, XLockDisplay, XUnlockDisplay, callVars
      <4> QED BY <2>2, <4>1, <4>2, <4>3 DEF Thread
    <3> QED BY <3>1
  <2> QED BY <2>1, <2>2
<1> QED
  BY <1>1

LEMMA EventCallsStep ==
    \A t \in Threads : IInv /\ EventCallsOfXlib /\ Thread(t) => EventCallsOfXlib'
<1> SUFFICES ASSUME IInv, EventCallsOfXlib, NEW t \in Threads, Thread(t)
             PROVE  EventCallsOfXlib'
  OBVIOUS
<1>a. /\ pc \in [Threads -> Labels] /\ local \in [Threads -> Locals] /\ TypeOK
      /\ script \in [Threads -> Seq(Calls)]
      /\ local[t].back \in BackLabels /\ local[t].resume \in ResumeLabels
      /\ AfterNoResponse(t) \in {"FinishReply", "NoResponse", "TakeEvent"} \cup DoneLabels
      /\ AfterResponse(t) \in {"ReadLoop", "Poll"}
  BY LocalTypes, HelperTypes DEF IInv, TypeOK, ThreadTypeOK
<1>b. event_owner' = event_owner
  BY OwnerStays
<1> SUFFICES ASSUME ~XlibOwnsEventQueue
             PROVE  /\ script' \in [Threads -> Seq(Calls \ {"NextEvent"})]
                    /\ \A u \in Threads : pc'[u] # "NextEvent"
  BY <1>b DEF EventCallsOfXlib, XlibOwnsEventQueue
<1>c. /\ script \in [Threads -> Seq(Calls \ {"NextEvent"})]
      /\ \A u \in Threads : pc[u] # "NextEvent"
  BY DEF EventCallsOfXlib
<1>d. script[t] # <<>> => Head(script[t]) \in Calls \ {"NextEvent"}
  BY <1>c, HeadTailProperties
<1>1. script' \in [Threads -> Seq(Calls \ {"NextEvent"})]
  BY <1>c, CallsStep
<1>2. pc'[t] # "NextEvent"
  <2>1. CASE LockDisplay(t)
    BY <2>1, <1>a, <1>c, <1>d DEF LockDisplay, Goto
  <2>2. CASE UnlockDisplay(t) \/ Resume(t) \/ GetRequest(t) \/ FlushFullBuffer(t)
             \/ XReply(t) \/ ReplyLoop(t) \/ WaitForReply(t) \/ GotReply(t)
    BY <2>2, <1>a DEF UnlockDisplay, Resume, GetRequest, FlushFullBuffer, XFlush,
       XReply, ReplyLoop, WaitForReply, GotReply, Goto, SleepAt, RequestCalls, BackLabels
  <2>3. CASE FinishReply(t) \/ ReplyDone(t) \/ Poll(t) \/ PollReply(t) \/ PollAgain(t)
    BY <2>3, <1>a DEF FinishReply, ReplyDone, Poll, PollReply, PollAgain, TakeNextEvent,
       Answer, HandleResponse, Goto, DoneLabels
  <2>4. CASE XError(t) \/ UserErrorHandler(t) \/ NextEvent(t) \/ ReadLoop(t) \/ WaitForEvent(t)
             \/ GotEvent(t) \/ NoResponse(t) \/ TakeEvent(t)
    BY <2>4, <1>a, <1>c DEF XError, UserErrorHandler, NextEvent, ReadLoop, WaitForEvent,
       GotEvent, NoResponse, TakeEvent, Goto, SleepAt, ResumeLabels
  <2>5. CASE EventsQueued(t) \/ XLockDisplay(t) \/ XUnlockDisplay(t)
    BY <2>5, <1>a DEF EventsQueued, XFlush, XLockDisplay, XUnlockDisplay, Goto
  <2> QED BY <2>1, <2>2, <2>3, <2>4, <2>5 DEF Thread
<1> QED
  BY <1>1, <1>2, <1>c, OthersFrame

\* The only steps that block a thread or wake it, and that set event_waiter.
LEMMA WaiterFrame ==
    \A t \in Threads : IInv /\ Thread(t) /\ ~ReadLoop(t) /\ ~WaitForEvent(t) /\ ~GotEvent(t)
       => event_waiter' = event_waiter /\ ~Blocked(t)' /\ ~Blocked(t)
<1> SUFFICES ASSUME IInv, NEW t \in Threads, Thread(t), ~ReadLoop(t), ~WaitForEvent(t),
                    ~GotEvent(t)
             PROVE  event_waiter' = event_waiter /\ ~Blocked(t)' /\ ~Blocked(t)
  OBVIOUS
<1>a. /\ pc \in [Threads -> Labels] /\ local \in [Threads -> Locals] /\ TypeOK
      /\ local[t].back \in BackLabels /\ local[t].resume \in ResumeLabels
      /\ AfterNoResponse(t) \in {"FinishReply", "NoResponse", "TakeEvent"} \cup DoneLabels
      /\ AfterResponse(t) \in {"ReadLoop", "Poll"}
  BY LocalTypes, HelperTypes DEF IInv, TypeOK, ThreadTypeOK
<1>b. script[t] # <<>> => Head(script[t]) \in Calls
  BY HeadTailProperties DEF IInv, TypeOK, ThreadTypeOK
<1>1. CASE LockDisplay(t) \/ UnlockDisplay(t) \/ Resume(t)
  BY <1>1, <1>a, <1>b DEF LockDisplay, UnlockDisplay, Resume, Goto, Outside, At, Blocked,
     Calls, BackLabels, displayVars
<1>2. CASE GetRequest(t) \/ FlushFullBuffer(t) \/ XReply(t) \/ ReplyLoop(t)
  BY <1>2, <1>a DEF GetRequest, FlushFullBuffer, XFlush, XReply, ReplyLoop, Goto, SleepAt, At,
     Blocked, RequestCalls
<1>3. CASE WaitForReply(t) \/ GotReply(t)
  BY <1>3, <1>a DEF WaitForReply, GotReply, Goto, Outside, Blocked, displayVars
<1>4. CASE FinishReply(t) \/ ReplyDone(t)
  BY <1>4, <1>a DEF FinishReply, ReplyDone, HandleResponse, Goto, At, Blocked
<1>5. CASE Poll(t) \/ PollReply(t) \/ PollAgain(t)
  BY <1>5, <1>a DEF Poll, PollReply, PollAgain, TakeNextEvent, Answer, HandleResponse, Goto, At,
     Blocked, DoneLabels
<1>6. CASE XError(t) \/ UserErrorHandler(t) \/ NextEvent(t) \/ NoResponse(t) \/ TakeEvent(t)
  BY <1>6, <1>a DEF XError, UserErrorHandler, NextEvent, NoResponse, TakeEvent, Goto, SleepAt,
     At, Outside, Blocked, ResumeLabels, displayVars
<1>7. CASE EventsQueued(t) \/ XLockDisplay(t) \/ XUnlockDisplay(t)
  BY <1>7, <1>a DEF EventsQueued, XFlush, XLockDisplay, XUnlockDisplay, Goto, At, Blocked,
     displayVars
<1> QED
  BY <1>1, <1>2, <1>3, <1>4, <1>5, <1>6, <1>7 DEF Thread

\* _XReadEvents sets event_waiter when it blocks, which it does only while
\* event_waiter is clear, and clears it when it is back.
LEMMA WaiterStep ==
    \A t \in Threads : IInv /\ WaiterTrue /\ Thread(t) => WaiterTrue'
<1> SUFFICES ASSUME IInv, WaiterTrue, NEW t \in Threads, Thread(t) PROVE WaiterTrue'
  OBVIOUS
<1>a. pc \in [Threads -> Labels]
  BY DEF IInv, TypeOK, ThreadTypeOK
<1>b. \A u \in Threads : u # t => (Blocked(u)' <=> Blocked(u))
  BY OthersFrame DEF Blocked
<1>1. CASE ~ReadLoop(t) /\ ~WaitForEvent(t) /\ ~GotEvent(t)
  <2>1. event_waiter' = event_waiter /\ (Blocked(t)' <=> Blocked(t))
    BY <1>1, WaiterFrame
  <2> QED BY <1>b, <2>1 DEF WaiterTrue
<1>2. CASE ReadLoop(t)
  <2>1. ~Blocked(t)
    BY <1>2 DEF ReadLoop, At, Blocked
  <2>2. CASE event_waiter' = event_waiter /\ ~Blocked(t)'
    BY <1>b, <2>1, <2>2 DEF WaiterTrue
  <2>3. CASE event_waiter' /\ ~event_waiter /\ Blocked(t)'
    BY <1>b, <2>1, <2>3 DEF WaiterTrue
  <2> QED BY <1>a, <1>2, <2>2, <2>3 DEF ReadLoop, SleepAt, Goto, Blocked, ReaderBlocked
<1>3. CASE WaitForEvent(t)
  <2>1. Blocked(t) /\ Blocked(t)' /\ event_waiter' = event_waiter
    BY <1>a, <1>3 DEF WaitForEvent, Outside, Goto, Blocked, displayVars
  <2> QED BY <1>b, <2>1 DEF WaiterTrue
<1>4. CASE GotEvent(t)
  <2>1. Blocked(t) /\ ~Blocked(t)' /\ ~event_waiter'
    BY <1>a, <1>4 DEF GotEvent, Outside, Goto, Blocked
  <2> QED BY <1>b, <2>1 DEF WaiterTrue
<1> QED
  BY <1>1, <1>2, <1>3, <1>4

-----------------------------------------------------------------------------
(***************************************************************************)
(* Where the responses go.  A step of a thread makes none: it takes them   *)
(* from XCB, passes them on, or forgets them.                              *)
(***************************************************************************)
\* What a step of t may do to the responses in the Display and with XCB.
SharedMoved(t) ==
    /\ UNCHANGED <<request_read, answered, errored, server>>
    /\ xcb_replies' \subseteq xcb_replies
    /\ \/ xcb_events' = xcb_events
       \/ xcb_events # <<>> /\ xcb_events' = Tail(xcb_events)
    /\ next_event' \in {next_event, NoItem, NextQueuedEvent, local[t].event}
    /\ next_response' \in {next_response, NoItem, local[t].polled}

\* ... and to the ones that t itself has.
HeldMoved(t) ==
    /\ \/ local'[t].event \in {local[t].event, NoItem}
       \/ xcb_events # <<>> /\ local'[t].event = Head(xcb_events)
    /\ local'[t].response \in {local[t].response, NoItem} \/ local'[t].response.type = "reply"
    /\ local'[t].error \in {local[t].error, NoItem} \cup {r \in xcb_replies : r.type = "error"}
    /\ local'[t].polled \in {local[t].polled, NoItem} \cup xcb_replies
    /\ ~WaitForReply(t) => /\ local'[t].response = local[t].response
                           /\ local'[t].error = local[t].error

LEMMA SharedStep == \A t \in Threads : IInv /\ Thread(t) => SharedMoved(t)
<1> SUFFICES ASSUME IInv, NEW t \in Threads, Thread(t) PROVE SharedMoved(t)
  OBVIOUS
<1>w. \A s : WithoutFirst(s) \subseteq xcb_replies
  BY DEF WithoutFirst
<1>f. FetchedFromXcb => \/ xcb_events' = xcb_events
                        \/ xcb_events # <<>> /\ xcb_events' = Tail(xcb_events)
  BY DEF FetchedFromXcb
<1>1. CASE LockDisplay(t) \/ UnlockDisplay(t) \/ Resume(t) \/ GetRequest(t)
           \/ FlushFullBuffer(t) \/ XReply(t) \/ ReplyLoop(t)
  BY <1>1 DEF LockDisplay, UnlockDisplay, Resume, GetRequest, FlushFullBuffer,
     XReply, ReplyLoop, displayVars, xcbVars, SharedMoved
<1>2. CASE WaitForReply(t)
  BY <1>2, <1>w DEF WaitForReply, displayVars, SharedMoved
<1>3. CASE GotReply(t) \/ FinishReply(t) \/ ReplyDone(t)
  BY <1>3 DEF GotReply, FinishReply, ReplyDone, displayVars, xcbVars, SharedMoved
<1>4. CASE Poll(t)
  BY <1>4, <1>f DEF Poll, TakeNextEvent, LeaveNextEvent, SharedMoved
<1>5. CASE PollReply(t)
  BY <1>5, <1>f, <1>w DEF PollReply, TakeNextEvent, LeaveNextEvent, SharedMoved
<1>6. CASE PollAgain(t)
  BY <1>6, <1>f DEF PollAgain, TakeNextEvent, LeaveNextEvent, SharedMoved
<1>7. CASE XError(t) \/ UserErrorHandler(t) \/ NextEvent(t) \/ ReadLoop(t)
  BY <1>7 DEF XError, UserErrorHandler, NextEvent, ReadLoop, displayVars, xcbVars, SharedMoved
<1>8. CASE WaitForEvent(t)
  BY <1>8 DEF WaitForEvent, displayVars, SharedMoved
<1>9. CASE GotEvent(t)
  BY <1>9 DEF GotEvent, xcbVars, SharedMoved
<1>10. CASE NoResponse(t) \/ TakeEvent(t) \/ EventsQueued(t) \/ XLockDisplay(t)
            \/ XUnlockDisplay(t)
  BY <1>10 DEF NoResponse, TakeEvent, EventsQueued, XLockDisplay, XUnlockDisplay,
     displayVars, xcbVars, SharedMoved
<1> QED
  BY <1>1, <1>2, <1>3, <1>4, <1>5, <1>6, <1>7, <1>8, <1>9, <1>10 DEF Thread

LEMMA HeldStep == \A t \in Threads : IInv /\ Thread(t) => HeldMoved(t)
<1> SUFFICES ASSUME IInv, NEW t \in Threads, Thread(t) PROVE HeldMoved(t)
  OBVIOUS
<1>t. TypeOK
  BY DEF IInv
<1>a. /\ local \in [Threads -> Locals] /\ local[t] \in Locals
      /\ pending_requests \in Seq(PendingRequest)
  BY DEF IInv, TypeOK, ThreadTypeOK, RequestTypeOK
<1> DEFINE same == /\ local'[t].event = local[t].event
                   /\ local'[t].response = local[t].response
                   /\ local'[t].error = local[t].error
                   /\ local'[t].polled = local[t].polled
<1>s. same => HeldMoved(t)
  BY DEF HeldMoved
<1>u. local' = local => same
  OBVIOUS
<1>h. \A item, label : HandleResponse(t, item, label) => same
  <2> SUFFICES ASSUME NEW item, NEW label, HandleResponse(t, item, label) PROVE same
    OBVIOUS
  <2>1. local'[t] = local[t] \/ local'[t] = [local[t] EXCEPT !.resume = label]
    BY <1>t, PlaceFacts
  <2> QED BY <1>a, <2>1 DEF Locals
<1>x. \A label : XFlush(t, label) => same
  <2> SUFFICES ASSUME NEW label, XFlush(t, label) PROVE same
    OBVIOUS
  <2>1. local'[t] = [local[t] EXCEPT !.caller = "Flush", !.done = label]
    BY <1>t, PlaceFacts
  <2> QED BY <1>a, <2>1 DEF Locals
<1>z. \A c, label : SleepAt(t, c, label) => same
  <2> SUFFICES ASSUME NEW c, NEW label, SleepAt(t, c, label) PROVE same
    OBVIOUS
  <2>1. local'[t] = [local[t] EXCEPT !.back = label]
    BY <1>t, PlaceFacts
  <2> QED BY <1>a, <2>1 DEF Locals
<1>f. \A s : FirstReply(s) = NoItem \/ FirstReply(s) \in xcb_replies
  BY DEF FirstReply
<1>1. CASE LockDisplay(t) \/ UnlockDisplay(t) \/ Resume(t) \/ GetRequest(t)
           \/ FlushFullBuffer(t) \/ XReply(t) \/ ReplyLoop(t)
  <2> SUFFICES same
    BY <1>s
  <2>1. CASE LockDisplay(t) \/ Resume(t)
    BY <2>1, <1>u DEF LockDisplay, Resume
  <2>6. CASE UnlockDisplay(t)
    BY <2>6, <1>a DEF UnlockDisplay, Locals
  <2>2. CASE GetRequest(t)
    BY <2>2, <1>a, <1>u DEF GetRequest, Locals
  <2>3. CASE FlushFullBuffer(t)
    BY <2>3, <1>x DEF FlushFullBuffer
  <2>4. CASE XReply(t)
    BY <2>4, <1>a DEF XReply, Locals
  <2>5. CASE ReplyLoop(t)
    BY <2>5, <1>a, <1>z DEF ReplyLoop, Locals
  <2> QED BY <1>1, <2>1, <2>2, <2>3, <2>4, <2>5, <2>6
<1>2. CASE WaitForReply(t)
  <2> DEFINE r == FirstReply(local[t].req)
  <2>1. local' = [local EXCEPT ![t] =
                    [local[t] EXCEPT !.response = IF r.type = "reply" THEN r ELSE NoItem,
                                     !.error = IF r.type = "error" THEN r ELSE NoItem]]
    BY <1>2, <1>a DEF WaitForReply
  <2>2. /\ local'[t].response = IF r.type = "reply" THEN r ELSE NoItem
        /\ local'[t].error = IF r.type = "error" THEN r ELSE NoItem
        /\ local'[t].event = local[t].event /\ local'[t].polled = local[t].polled
    BY <1>a, <2>1 DEF Locals
  <2>3. r = NoItem \/ r \in xcb_replies
    BY <1>f
  <2>4. r.type = "error" => r \in xcb_replies
    BY <2>3 DEF NoItem
  <2> HIDE DEF r
  <2> QED BY <1>2, <2>2, <2>4 DEF HeldMoved
<1>3. CASE GotReply(t) \/ FinishReply(t) \/ ReplyDone(t)
  <2>1. same
    BY <1>3, <1>a, <1>u, <1>h DEF GotReply, FinishReply, ReplyDone, Locals
  <2> QED BY <1>s, <2>1
<1>4. CASE Poll(t) \/ PollAgain(t)
  <2>1. same
    BY <1>4, <1>u, <1>h DEF Poll, PollAgain, TakeNextEvent, Answer
  <2> QED BY <1>s, <2>1
<1>5. CASE PollReply(t)
  <2> DEFINE r == FirstReply(Head(pending_requests).sequence)
  <2>1. CASE local' = [local EXCEPT ![t].polled = r]
    <3>1. /\ local'[t].polled = r /\ local'[t].event = local[t].event
          /\ local'[t].response = local[t].response /\ local'[t].error = local[t].error
      BY <1>a, <2>1 DEF Locals
    <3> QED BY <1>f, <3>1 DEF HeldMoved
  <2>2. CASE same
    BY <1>s, <2>2
  <2> QED BY <1>5, <1>u, <1>h, <2>1, <2>2 DEF PollReply, TakeNextEvent
<1>6. CASE XError(t) \/ UserErrorHandler(t) \/ NextEvent(t) \/ ReadLoop(t)
  <2> SUFFICES same
    BY <1>s
  <2>1. CASE XError(t) \/ UserErrorHandler(t)
    BY <2>1, <1>u, <1>z DEF XError, UserErrorHandler
  <2>2. CASE NextEvent(t)
    BY <2>2, <1>a, <1>u DEF NextEvent, Locals
  <2>3. CASE ReadLoop(t)
    BY <2>3, <1>a, <1>u, <1>z DEF ReadLoop, Locals
  <2> QED BY <1>6, <2>1, <2>2, <2>3
<1>7. CASE WaitForEvent(t)
  <2>1. /\ local'[t].event = Head(xcb_events) /\ local'[t].response = local[t].response
        /\ local'[t].error = local[t].error /\ local'[t].polled = local[t].polled
    BY <1>7, <1>a DEF WaitForEvent, Locals
  <2>2. xcb_events # <<>>
    BY <1>7 DEF WaitForEvent
  <2> QED BY <2>1, <2>2 DEF HeldMoved
<1>8. CASE GotEvent(t)
  <2>1. local' = [local EXCEPT ![t] =
                    [local[t] EXCEPT !.caller = "ReadEvents", !.event = NoItem]]
    BY <1>8, <1>a DEF GotEvent
  <2>2. /\ local'[t].event = NoItem /\ local'[t].response = local[t].response
        /\ local'[t].error = local[t].error /\ local'[t].polled = local[t].polled
    BY <1>a, <2>1 DEF Locals
  <2> QED BY <2>2 DEF HeldMoved
<1>9. CASE NoResponse(t) \/ TakeEvent(t) \/ EventsQueued(t) \/ XLockDisplay(t)
           \/ XUnlockDisplay(t)
  <2>1. same
    BY <1>9, <1>u, <1>x, <1>z DEF NoResponse, TakeEvent, EventsQueued, XLockDisplay,
       XUnlockDisplay
  <2> QED BY <1>s, <2>1
<1> QED
  BY <1>1, <1>2, <1>3, <1>4, <1>5, <1>6, <1>7, <1>8, <1>9 DEF Thread

\* The head and the tail of a queue that is not empty.
LEMMA QueueTail ==
    ASSUME NEW queue \in Seq(Items), queue # <<>>
    PROVE  /\ 1 \in 1..Len(queue) /\ Head(queue) = queue[1]
           /\ Len(Tail(queue)) = Len(queue) - 1 /\ Len(queue) \in Nat
           /\ \A i \in 1..(Len(queue) - 1) : Tail(queue)[i] = queue[i + 1]
<1>1. Len(queue) # 0 /\ Len(queue) \in Nat
  BY EmptySeq, LenProperties
<1>2. /\ Head(queue) = queue[1]
      /\ Len(Tail(queue)) = Len(queue) - 1
      /\ \A i \in 1..Len(Tail(queue)) : Tail(queue)[i] = queue[i + 1]
  BY HeadTailProperties
<1> QED
  BY <1>1, <1>2

\* What is in XCB's event queue was there before, and so was what becomes
\* the next event.
LEMMA EventsStay ==
    ASSUME IInv, NEW t \in Threads, Thread(t)
    PROVE  /\ \A i \in 1..Len(xcb_events') :
                 \E j \in 1..Len(xcb_events) : xcb_events'[i] = xcb_events[j]
           /\ \/ next_event' \in {next_event, NoItem, local[t].event}
              \/ \E j \in 1..Len(xcb_events) : next_event' = xcb_events[j]
           /\ \/ local'[t].event \in {local[t].event, NoItem}
              \/ \E j \in 1..Len(xcb_events) : local'[t].event = xcb_events[j]
<1>a. xcb_events \in Seq(Items) /\ Len(xcb_events) \in Nat
  BY LenProperties DEF IInv, TypeOK, XcbTypeOK
<1>b. SharedMoved(t) /\ HeldMoved(t)
  BY SharedStep, HeldStep
<1>h. xcb_events # <<>> => /\ 1 \in 1..Len(xcb_events) /\ Head(xcb_events) = xcb_events[1]
                           /\ Len(Tail(xcb_events)) = Len(xcb_events) - 1
                           /\ \A i \in 1..(Len(xcb_events) - 1) :
                                 Tail(xcb_events)[i] = xcb_events[i + 1]
  BY <1>a, QueueTail
<1>1. \A i \in 1..Len(xcb_events') :
         \E j \in 1..Len(xcb_events) : xcb_events'[i] = xcb_events[j]
  <2> SUFFICES ASSUME NEW i \in 1..Len(xcb_events')
               PROVE  \E j \in 1..Len(xcb_events) : xcb_events'[i] = xcb_events[j]
    OBVIOUS
  <2>1. CASE xcb_events' = xcb_events
    BY <2>1
  <2>2. CASE xcb_events # <<>> /\ xcb_events' = Tail(xcb_events)
    <3>1. i \in 1..(Len(xcb_events) - 1) /\ xcb_events'[i] = xcb_events[i + 1]
      BY <1>h, <2>2
    <3>2. i + 1 \in 1..Len(xcb_events)
      BY <1>a, <3>1
    <3> QED BY <3>1, <3>2
  <2> QED BY <1>b, <2>1, <2>2 DEF SharedMoved
<1> QED
  BY <1>1, <1>b, <1>h, NextQueuedFacts DEF SharedMoved, HeldMoved

\* Requests are made and flushed, never unmade.
LEMMA IssuedGrows ==
    ASSUME IInv, NEW t \in Threads, Thread(t)
    PROVE  /\ Len(issued) \in Nat /\ last_flushed \in 0..Len(issued)
           /\ last_flushed <= last_flushed' /\ last_flushed' \in Nat
           /\ \A i \in 1..Len(issued) : issued'[i] = issued[i]
           /\ issued' # issued => GetRequest(t)
           /\ issued' = issued \/ Len(issued') = Len(issued) + 1
<1>a. /\ issued \in Seq({"void", "reply"}) /\ Len(issued) \in Nat
      /\ last_flushed \in 0..Len(issued)
  BY LenProperties DEF IInv, TypeOK, RequestTypeOK
<1>1. CASE ~GetRequest(t)
  <2>1. issued' = issued /\ last_flushed' \in {last_flushed, Len(issued)}
    <3>1. CASE LockDisplay(t) \/ UnlockDisplay(t) \/ Resume(t) \/ FlushFullBuffer(t)
               \/ XReply(t) \/ ReplyLoop(t) \/ WaitForReply(t) \/ GotReply(t)
      BY <3>1 DEF LockDisplay, UnlockDisplay, Resume, FlushFullBuffer, XFlush, XSend,
         XReply, ReplyLoop, WaitForReply, GotReply, displayVars, sendVars
    <3>2. CASE FinishReply(t) \/ ReplyDone(t) \/ Poll(t) \/ PollReply(t) \/ PollAgain(t)
               \/ XError(t) \/ UserErrorHandler(t) \/ NextEvent(t)
      BY <3>2 DEF FinishReply, ReplyDone, Poll, PollReply, PollAgain, XError,
         UserErrorHandler, NextEvent, XSend, displayVars, sendVars
    <3>3. CASE ReadLoop(t) \/ WaitForEvent(t) \/ GotEvent(t) \/ NoResponse(t)
               \/ TakeEvent(t) \/ EventsQueued(t) \/ XLockDisplay(t) \/ XUnlockDisplay(t)
      BY <3>3 DEF ReadLoop, WaitForEvent, GotEvent, NoResponse, TakeEvent, EventsQueued,
         XFlush, XSend, XLockDisplay, XUnlockDisplay, displayVars, sendVars
    <3> QED BY <1>1, <3>1, <3>2, <3>3 DEF Thread
  <2> QED BY <1>1, <1>a, <2>1
<1>2. CASE GetRequest(t)
  <2> DEFINE kind == IF pc[t] = "Request" THEN "void" ELSE "reply"
  <2>1. issued' = Append(issued, kind) /\ last_flushed' = last_flushed
    BY <1>2 DEF GetRequest
  <2>2. kind \in {"void", "reply"}
    OBVIOUS
  <2>3. /\ Len(Append(issued, kind)) = Len(issued) + 1
        /\ \A i \in 1..Len(issued) : Append(issued, kind)[i] = issued[i]
    BY <1>a, <2>2, AppendProperties
  <2> QED BY <1>2, <1>a, <2>1, <2>3
<1> QED
  BY <1>1, <1>2

LEMMA NumbersStep ==
    \A t \in Threads : IInv /\ NumbersRead /\ Thread(t) => NumbersRead'
<1> SUFFICES ASSUME IInv, NumbersRead, NEW t \in Threads, Thread(t) PROVE NumbersRead'
  OBVIOUS
<1>a. request_read' = request_read /\ request_read \in Nat
  BY SharedStep DEF SharedMoved, IInv, TypeOK, XcbTypeOK
<1>1. request_read' <= last_flushed'
  BY <1>a, IssuedGrows DEF NumbersRead
<1>n. NoItem.seq <= request_read
  BY <1>a DEF NoItem
<1>2. next_event'.seq <= request_read'
  BY <1>a, <1>n, EventsStay DEF NumbersRead
<1>3. \A i \in 1..Len(xcb_events') : xcb_events'[i].seq <= request_read'
  BY <1>a, EventsStay DEF NumbersRead
<1>4. \A u \in Threads : local'[u].event.seq <= request_read'
  <2>1. local'[t].event.seq <= request_read'
    BY <1>a, <1>n, EventsStay DEF NumbersRead
  <2> QED BY <1>a, <2>1, OthersFrame DEF NumbersRead
<1> QED
  BY <1>1, <1>2, <1>3, <1>4 DEF NumbersRead

\* What a packet from the server brings: its number is at least that of the
\* last one, and it goes to the end of XCB's event queue or to the replies.
LEMMA PacketFacts ==
    ASSUME TypeOK, NumbersRead, Server
    PROVE  /\ request_read <= request_read' /\ request_read' <= last_flushed
           /\ \E item \in Items \ {NoItem} :
                 /\ item.seq = request_read'
                 /\ item.type = "error" => server'.errors > server.errors
                 /\ \/ /\ xcb_events' = Append(xcb_events, item)
                       /\ xcb_replies' = xcb_replies
                       /\ item.type # "reply"
                    \/ /\ xcb_replies' = xcb_replies \cup {item}
                       /\ xcb_events' = xcb_events
                       /\ item.type # "event"
           /\ errored' => errored \/ server'.errors > server.errors
           /\ server'.errors >= server.errors
<1>a. request_read \in Nat /\ last_flushed \in Nat /\ server \in [events : Nat, errors : Nat]
  BY DEF TypeOK, XcbTypeOK, RequestTypeOK
<1>1. CASE ServerEvent
  <2> PICK s \in request_read..last_flushed :
        /\ server' = [server EXCEPT !.events = @ + 1]
        /\ Packet([type |-> "event", seq |-> s], FALSE)
    BY <1>1 DEF ServerEvent
  <2> DEFINE item == [type |-> "event", seq |-> s]
  <2>1. item \in Items \ {NoItem} /\ item.seq = s /\ item.type = "event" /\ s \in Nat
    BY <1>a DEF Items, NoItem
  <2>2. /\ xcb_events' = Append(xcb_events, item) /\ xcb_replies' = xcb_replies
        /\ request_read' = s /\ (errored' => errored)
    BY <2>1 DEF Packet
  <2>3. server'.errors = server.errors
    BY <1>a
  <2> HIDE DEF item
  <2> QED BY <1>a, <2>1, <2>2, <2>3
<1>2. CASE ServerReply
  <2> PICK s \in request_read..last_flushed :
        /\ UNCHANGED server
        /\ Packet([type |-> "reply", seq |-> s], TRUE)
    BY <1>2 DEF ServerReply
  <2> DEFINE item == [type |-> "reply", seq |-> s]
  <2>1. item \in Items \ {NoItem} /\ item.seq = s /\ item.type = "reply" /\ s \in Nat
    BY <1>a DEF Items, NoItem
  <2>2. /\ xcb_replies' = xcb_replies \cup {item} /\ xcb_events' = xcb_events
        /\ request_read' = s /\ ~errored'
    BY <2>1 DEF Packet, SetAside
  <2> HIDE DEF item
  <2> QED BY <1>a, <2>1, <2>2
<1>3. CASE ServerError
  <2> PICK s \in request_read..last_flushed :
        /\ server' = [server EXCEPT !.errors = @ + 1]
        /\ Packet([type |-> "error", seq |-> s], TRUE)
    BY <1>3 DEF ServerError
  <2> DEFINE item == [type |-> "error", seq |-> s]
  <2>1. item \in Items \ {NoItem} /\ item.seq = s /\ item.type = "error" /\ s \in Nat
    BY <1>a DEF Items, NoItem
  <2>2. /\ \/ xcb_events' = Append(xcb_events, item) /\ xcb_replies' = xcb_replies
           \/ xcb_replies' = xcb_replies \cup {item} /\ xcb_events' = xcb_events
        /\ request_read' = s
    BY <2>1 DEF Packet
  <2>3. server'.errors > server.errors
    BY <1>a
  <2> HIDE DEF item
  <2> QED BY <1>a, <2>1, <2>2, <2>3
<1> QED
  BY <1>1, <1>2, <1>3 DEF Server

LEMMA ServerNumbers == TypeOK /\ NumbersRead /\ Server => NumbersRead'
<1> SUFFICES ASSUME TypeOK, NumbersRead, Server PROVE NumbersRead'
  OBVIOUS
<1>a. /\ request_read <= request_read' /\ request_read' <= last_flushed
      /\ last_flushed' = last_flushed /\ next_event' = next_event /\ local' = local
  BY PacketFacts, ServerFrame DEF displayVars, threadVars
<1>b. /\ request_read \in Nat /\ request_read' \in Nat /\ xcb_events \in Seq(Items)
      /\ Len(xcb_events) \in Nat /\ next_event.seq \in Nat
      /\ \A t \in Threads : local[t].event.seq \in Nat
      /\ \A i \in 1..Len(xcb_events) : xcb_events[i].seq \in Nat
  BY ItemFacts, ServerType, LenProperties, LocalTypes DEF TypeOK, XcbTypeOK, ThreadTypeOK, ResponseTypeOK
<1>1. \A i \in 1..Len(xcb_events') : xcb_events'[i].seq <= request_read'
  <2>1. CASE xcb_events' = xcb_events
    BY <1>a, <1>b, <2>1 DEF NumbersRead
  <2>2. ASSUME NEW item \in Items, item.seq = request_read', xcb_events' = Append(xcb_events, item)
        PROVE  \A i \in 1..Len(xcb_events') : xcb_events'[i].seq <= request_read'
    <3>1. /\ Len(xcb_events') = Len(xcb_events) + 1
          /\ xcb_events'[Len(xcb_events) + 1] = item
          /\ \A i \in 1..Len(xcb_events) : xcb_events'[i] = xcb_events[i]
      BY <1>b, <2>2, AppendProperties
    <3>2. \A i \in 1..Len(xcb_events') : i \in 1..Len(xcb_events) \/ i = Len(xcb_events) + 1
      BY <1>b, <3>1
    <3> QED BY <1>a, <1>b, <2>2, <3>1, <3>2 DEF NumbersRead
  <2> QED BY <2>1, <2>2, PacketFacts
<1> QED
  BY <1>a, <1>b, <1>1 DEF NumbersRead

-----------------------------------------------------------------------------
(***************************************************************************)
(* Without an error, nobody is on the way to an error handler.             *)
(***************************************************************************)
\* What handle_response gets is no error.
LEMMA NoErrorHandled ==
    ASSUME IInv, NoErrorSeen, NEW t \in Threads
    PROVE  /\ NextQueuedEvent.type # "error"
           /\ \A item, label : HandleResponse(t, item, label) /\ item.type # "error" =>
                 pc'[t] = label /\ local' = local
           /\ ~(next_event.type = "error" /\ next_event.seq = last_request_read)
<1>a. pc \in [Threads -> Labels] /\ xcb_events \in Seq(Items) /\ next_event \in Items
  BY DEF IInv, TypeOK, ThreadTypeOK, XcbTypeOK, ResponseTypeOK
<1>1. next_event.type # "error" /\ NoItem.type # "error"
  BY DEF NoErrorSeen, NoItem
<1>2. xcb_events # <<>> => Head(xcb_events).type = "event"
  <2> SUFFICES ASSUME xcb_events # <<>> PROVE Head(xcb_events).type = "event"
    OBVIOUS
  <2>1. 1 \in 1..Len(xcb_events) /\ Head(xcb_events) = xcb_events[1]
    BY <1>a, EmptySeq
  <2> QED BY <2>1 DEF NoErrorSeen
<1> QED
  BY <1>a, <1>1, <1>2, NextQueuedFacts DEF HandleResponse, Goto, NoErrorSeen

LEMMA NoErrorPlaces ==
    ASSUME IInv, NoErrorSeen, NEW t \in Threads, Thread(t)
    PROVE  /\ pc'[t] \notin {"XError", "UserErrorHandler"}
           /\ pc'[t] = "Asleep" => local'[t].back # "XError"
<1>t. TypeOK
  BY DEF IInv
<1>a. /\ pc \in [Threads -> Labels] /\ local \in [Threads -> Locals] /\ local[t] \in Locals
      /\ local[t].back \in BackLabels /\ local[t].resume \in ResumeLabels
      /\ AfterNoResponse(t) \in {"FinishReply", "NoResponse", "TakeEvent"} \cup DoneLabels
      /\ AfterResponse(t) \in {"ReadLoop", "Poll"}
  BY LocalTypes, HelperTypes DEF IInv, TypeOK, ThreadTypeOK
<1>b. script[t] # <<>> => Head(script[t]) \in Calls
  BY HeadTailProperties DEF IInv, TypeOK, ThreadTypeOK
<1>z. \A c, label : SleepAt(t, c, label) =>
         pc'[t] = "Asleep" /\ local'[t].back = label
  <2> SUFFICES ASSUME NEW c, NEW label, SleepAt(t, c, label)
               PROVE  pc'[t] = "Asleep" /\ local'[t].back = label
    OBVIOUS
  <2>1. pc'[t] = "Asleep" /\ local'[t] = [local[t] EXCEPT !.back = label]
    BY <1>t, PlaceFacts
  <2> QED BY <1>a, <2>1 DEF Locals
<1>n. pc[t] \notin {"XError", "UserErrorHandler"} /\ (pc[t] = "Asleep" => local[t].back # "XError")
  BY DEF NoErrorSeen
<1>h. \A item, label : HandleResponse(t, item, label) /\ item.type # "error" => pc'[t] = label
  BY NoErrorHandled
<1>1. CASE LockDisplay(t) \/ UnlockDisplay(t) \/ Resume(t)
  BY <1>1, <1>a, <1>b, <1>n DEF LockDisplay, UnlockDisplay, Resume, Goto, Outside, Calls, BackLabels
<1>2. CASE GetRequest(t) \/ FlushFullBuffer(t) \/ XReply(t)
  BY <1>2, <1>a DEF GetRequest, FlushFullBuffer, XFlush, XReply, Goto, RequestCalls
<1>3. CASE WaitForReply(t) \/ GotReply(t) \/ NextEvent(t) \/ WaitForEvent(t) \/ GotEvent(t)
           \/ TakeEvent(t)
  BY <1>3, <1>a DEF WaitForReply, GotReply, NextEvent, WaitForEvent, GotEvent, TakeEvent, Goto
<1>4. CASE ReplyLoop(t) \/ ReadLoop(t)
  BY <1>4, <1>a, <1>z DEF ReplyLoop, ReadLoop, Goto
<1>5. CASE NoResponse(t)
  BY <1>5, <1>n, <1>z DEF NoResponse, At
<1>6. CASE FinishReply(t)
  <2>1. local[t].error.type # "error" /\ local[t].response.type # "error"
    BY DEF NoErrorSeen, NoItem
  <2> QED BY <1>6, <1>a, <1>h, <2>1 DEF FinishReply, Goto
<1>7. CASE ReplyDone(t)
  <2>1. local[t].error = NoItem /\ ~(next_event.type = "error" /\ next_event.seq = last_request_read)
    BY NoErrorHandled DEF NoErrorSeen
  <2> QED BY <1>7, <1>a, <2>1 DEF ReplyDone, Goto
<1>8. CASE Poll(t) \/ PollAgain(t) \/ PollReply(t)
  <2>1. NextQueuedEvent.type # "error" /\ next_response.type # "error" /\ local[t].polled.type # "error"
    BY NoErrorHandled DEF NoErrorSeen
  <2>2. TakeNextEvent(t, AfterResponse(t)) => pc'[t] = AfterResponse(t)
    BY <1>h, <2>1 DEF TakeNextEvent
  <2>3. \A item : item.type # "error" /\ Answer(t, item) => pc'[t] \in {"Poll", AfterResponse(t)}
    BY <1>a, <1>h DEF Answer, Goto
  <2> QED BY <1>8, <1>a, <2>1, <2>2, <2>3 DEF Poll, PollAgain, PollReply, Goto, DoneLabels
<1>9. CASE EventsQueued(t) \/ XLockDisplay(t) \/ XUnlockDisplay(t)
  BY <1>9, <1>a DEF EventsQueued, XFlush, XLockDisplay, XUnlockDisplay, Goto
<1>10. ~XError(t) /\ ~UserErrorHandler(t)
  BY <1>n DEF XError, UserErrorHandler, At, Outside
<1> QED
  BY <1>1, <1>2, <1>3, <1>4, <1>5, <1>6, <1>7, <1>8, <1>9, <1>10 DEF Thread

LEMMA NoErrorStep ==
    \A t \in Threads : IInv /\ NoErrorSeen /\ Thread(t) => NoErrorSeen'
<1> SUFFICES ASSUME IInv, NoErrorSeen, NEW t \in Threads, Thread(t) PROVE NoErrorSeen'
  OBVIOUS
<1>m. SharedMoved(t) /\ HeldMoved(t)
  BY SharedStep, HeldStep
<1>n. NoItem.type \notin {"error", "reply"}
  BY DEF NoItem
<1>1. ~errored' /\ next_event'.type # "error" /\ next_response'.type # "error"
  <2>1. ~errored' /\ next_response'.type # "error"
    BY <1>m, <1>n DEF SharedMoved, NoErrorSeen
  <2>2. next_event'.type # "error"
    BY <1>n, EventsStay DEF NoErrorSeen
  <2> QED BY <2>1, <2>2
<1>2. \A i \in 1..Len(xcb_events') : xcb_events'[i].type = "event"
  BY EventsStay DEF NoErrorSeen
<1>3. \A r \in xcb_replies' : r.type = "reply"
  BY <1>m DEF SharedMoved, NoErrorSeen
<1>4. /\ local'[t].error = NoItem /\ local'[t].response.type # "error"
      /\ local'[t].polled.type # "error"
  BY <1>m, <1>n DEF HeldMoved, NoErrorSeen
<1>5. local'[t].event.type # "error"
  BY <1>n, EventsStay DEF NoErrorSeen
<1>6. \A u \in Threads : u # t => pc'[u] = pc[u] /\ local'[u] = local[u]
  BY OthersFrame
<1>7. \A u \in Threads :
          /\ local'[u].error = NoItem
          /\ local'[u].response.type # "error"
          /\ local'[u].polled.type # "error"
          /\ local'[u].event.type # "error"
          /\ pc'[u] \notin {"XError", "UserErrorHandler"}
          /\ pc'[u] = "Asleep" => local'[u].back # "XError"
  <2> TAKE u \in Threads
  <2>1. CASE u = t
    BY <1>4, <1>5, <2>1, NoErrorPlaces
  <2>2. CASE u # t
    BY <1>6, <2>2 DEF NoErrorSeen
  <2> QED BY <2>1, <2>2
<1> QED
  BY <1>1, <1>2, <1>3, <1>7 DEF NoErrorSeen

\* The server answers with an error, or brings none.
LEMMA ServerNoError ==
    TypeOK /\ NumbersRead /\ NoErrorSeen /\ Server /\ server'.errors = server.errors => NoErrorSeen'
<1> SUFFICES ASSUME TypeOK, NumbersRead, NoErrorSeen, Server, server'.errors = server.errors
             PROVE  NoErrorSeen'
  OBVIOUS
<1>a. UNCHANGED <<next_event, next_response, local, pc>>
  BY ServerFrame DEF displayVars, threadVars
<1>b. xcb_events \in Seq(Items) /\ Len(xcb_events) \in Nat /\ server.errors \in Nat
  BY LenProperties DEF TypeOK, XcbTypeOK
<1>c. ~errored'
  BY <1>b, PacketFacts DEF NoErrorSeen
<1>1. PICK item \in Items \ {NoItem} :
         /\ item.type # "error"
         /\ \/ /\ xcb_events' = Append(xcb_events, item)
               /\ xcb_replies' = xcb_replies
               /\ item.type # "reply"
            \/ /\ xcb_replies' = xcb_replies \cup {item}
               /\ xcb_events' = xcb_events
               /\ item.type # "event"
  BY <1>b, PacketFacts
<1>2. item.type \in {"event", "reply"}
  BY <1>1, ItemFacts
<1>3. \A i \in 1..Len(xcb_events') : xcb_events'[i].type = "event"
  <2>1. CASE xcb_events' = xcb_events
    BY <2>1 DEF NoErrorSeen
  <2>2. CASE xcb_events' = Append(xcb_events, item) /\ item.type = "event"
    <3>1. /\ Len(xcb_events') = Len(xcb_events) + 1
          /\ xcb_events'[Len(xcb_events) + 1] = item
          /\ \A i \in 1..Len(xcb_events) : xcb_events'[i] = xcb_events[i]
      BY <1>b, <2>2, AppendProperties
    <3>2. \A i \in 1..Len(xcb_events') : i \in 1..Len(xcb_events) \/ i = Len(xcb_events) + 1
      BY <1>b, <3>1
    <3> QED BY <2>2, <3>1, <3>2 DEF NoErrorSeen
  <2> QED BY <1>1, <1>2, <2>1, <2>2
<1>4. \A r \in xcb_replies' : r.type = "reply"
  BY <1>1, <1>2 DEF NoErrorSeen
<1> QED
  BY <1>a, <1>c, <1>3, <1>4 DEF NoErrorSeen

-----------------------------------------------------------------------------
(***************************************************************************)
(* The loops around poll_for_response keep what they rely on.              *)
(***************************************************************************)
\* While another thread has the lock, t can only come back from XCB.
LEMMA LockedOut ==
    ASSUME IInv, NEW t \in Threads, Thread(t), mutex # t, mutex # NoThread
    PROVE  UNCHANGED displayVars /\ fatal' = fatal
<1>i. ~InIfEvent(t)
  BY DEF IInv, LockHeld, TypeOK, LockTypeOK, InIfEvent
<1>1. CASE WaitForReply(t) \/ WaitForEvent(t)
  BY <1>1 DEF WaitForReply, WaitForEvent
<1>2. ~LockDisplay(t) /\ ~GotReply(t) /\ ~GotEvent(t) /\ ~UserErrorHandler(t) /\ ~Resume(t)
  BY <1>i DEF LockDisplay, GotReply, GotEvent, UserErrorHandler, Resume, Acquired, MustWait, Wakeup
<1>3. /\ ~UnlockDisplay(t) /\ ~GetRequest(t) /\ ~FlushFullBuffer(t) /\ ~XReply(t)
      /\ ~ReplyLoop(t) /\ ~FinishReply(t) /\ ~ReplyDone(t) /\ ~Poll(t) /\ ~PollReply(t)
  BY DEF UnlockDisplay, GetRequest, FlushFullBuffer, XReply, ReplyLoop, FinishReply,
     ReplyDone, Poll, PollReply, At
<1>4. /\ ~PollAgain(t) /\ ~XError(t) /\ ~NextEvent(t) /\ ~ReadLoop(t) /\ ~NoResponse(t)
      /\ ~TakeEvent(t) /\ ~EventsQueued(t) /\ ~XLockDisplay(t) /\ ~XUnlockDisplay(t)
  BY DEF PollAgain, XError, NextEvent, ReadLoop, NoResponse, TakeEvent, EventsQueued,
     XLockDisplay, XUnlockDisplay, At
<1> QED
  BY <1>1, <1>2, <1>3, <1>4 DEF Thread

\* The part of PollsGuarded about one thread.
Guarded(t) ==
    /\ Polling(t) =>
          /\ ~event_waiter
          /\ local[t].caller = "ReadEvents" => next_event # NoItem
          /\ local[t].caller = "Drain" => qlen > 0
    /\ pc[t] = "TakeEvent" => qlen > 0
    /\ pc[t] = "NoResponse" =>
          pending_requests # <<>> /\ Head(pending_requests).reply_waiter
    /\ pc[t] = "GotEvent" => local[t].event # NoItem

\* Inside a loop: poll_for_response leaves the caller's guard as it was, and
\* returns NULL to _XReadEvents only when another thread waits for a reply.
LEMMA PollGuarded ==
    ASSUME IInv, NumbersRead, NoErrorSeen, NEW t \in Threads, Guarded(t),
           Poll(t) \/ PollReply(t) \/ PollAgain(t)
    PROVE  Guarded(t)'
<1>t. TypeOK
  BY DEF IInv
<1>a. /\ pc \in [Threads -> Labels] /\ local \in [Threads -> Locals] /\ local[t] \in Locals
      /\ qlen \in Nat /\ next_event \in Items /\ NextQueuedEvent \in Items
  BY <1>t, HelperTypes DEF TypeOK, ThreadTypeOK, ResponseTypeOK
<1>b. /\ Polling(t) /\ event_waiter' = event_waiter /\ Polling(t)
      /\ pc[t] \in {"PollReply", "PollAgain"} => Unclaimed
  BY DEF Poll, PollReply, PollAgain, At, Polling, IInv, AtPlaces
<1>h. \A item, label : HandleResponse(t, item, label) /\ item.type # "error" =>
         pc'[t] = label /\ local' = local /\ qlen' \in {qlen, qlen + 1}
  BY <1>a, NoErrorHandled DEF HandleResponse, queueVars
<1>i. NextQueuedEvent.type # "error" /\ next_response.type # "error" /\ local[t].polled.type # "error"
  BY NoErrorHandled DEF NoErrorSeen
<1>k. /\ local[t].caller = "ReadEvents" => next_event # NoItem /\ NextQueuedEvent = next_event
      /\ local[t].caller = "Drain" => qlen > 0
  BY <1>b, NextQueuedFacts DEF Guarded
\* After a response.
<1>1. ASSUME pc'[t] = AfterResponse(t), local' = local, qlen' \in {qlen, qlen + 1}
      PROVE  Guarded(t)'
  <2>1. CASE local[t].caller = "ReadEvents"
    BY <1>t, <1>1, <2>1, LoopFacts DEF Guarded, Polling
  <2>2. CASE local[t].caller # "ReadEvents"
    BY <1>t, <1>a, <1>b, <1>k, <1>1, <2>2, LoopFacts DEF Guarded, Polling
  <2> QED BY <2>1, <2>2
\* Once more in the loop, with the next event as it was.
<1>2. ASSUME pc'[t] \in {"Poll", "PollReply", "PollAgain"}, local'[t].caller = local[t].caller,
             qlen' = qlen, next_event' \in {next_event, NextQueuedEvent}
      PROVE  Guarded(t)'
  BY <1>b, <1>k, <1>2 DEF Guarded, Polling
\* After NULL.
<1>3. ASSUME pc'[t] = AfterNoResponse(t), local' = local, qlen' = qlen,
             local[t].caller = "ReadEvents" =>
                pending_requests' # <<>> /\ Head(pending_requests').reply_waiter
      PROVE  Guarded(t)'
  <2>1. AfterNoResponse(t) \in DoneLabels => Guarded(t)'
    BY <1>3 DEF Guarded, Polling, DoneLabels
  <2>2. AfterNoResponse(t) = "FinishReply" => Guarded(t)'
    BY <1>3 DEF Guarded, Polling
  <2>3. local[t].caller = "ReadEvents" => Guarded(t)'
    BY <1>t, <1>3, LoopFacts DEF Guarded, Polling
  <2>4. local[t].caller = "Drain" => Guarded(t)'
    BY <1>t, <1>3, <1>k, LoopFacts DEF Guarded, Polling
  <2> QED BY <1>t, <2>1, <2>2, <2>3, <2>4, LoopFacts
<1>4. TakeNextEvent(t, AfterResponse(t)) => Guarded(t)'
  BY <1>1, <1>h, <1>i DEF TakeNextEvent
<1>5. ASSUME NEW item, item.type # "error", Answer(t, item), LeaveNextEvent
      PROVE  Guarded(t)'
  <2>1. CASE item = NoItem
    <3>1. pc'[t] = "Poll" /\ local' = local /\ qlen' = qlen /\ next_event' = NextQueuedEvent
      BY <1>a, <1>5, <2>1 DEF Answer, Goto, queueVars, LeaveNextEvent
    <3> QED BY <1>2, <3>1
  <2>2. CASE item # NoItem
    BY <1>1, <1>5, <1>h, <2>2 DEF Answer
  <2> QED BY <2>1, <2>2
<1>6. CASE Poll(t)
  <2>1. CASE LeaveNextEvent /\ ~Unclaimed /\ Goto(t, AfterNoResponse(t))
             /\ UNCHANGED <<local, queueVars, pending_requests>>
    <3>1. pc'[t] = AfterNoResponse(t) /\ qlen' = qlen
      BY <1>a, <2>1 DEF Goto, queueVars
    <3>2. local[t].caller = "ReadEvents" => pending_requests # <<>>
      BY <1>k, <2>1 DEF LeaveNextEvent, InOrder
    <3> QED BY <1>3, <2>1, <3>1, <3>2 DEF Unclaimed
  <2>2. CASE LeaveNextEvent /\ Answer(t, next_response)
    BY <1>5, <1>i, <2>2
  <2>3. CASE LeaveNextEvent /\ Goto(t, "PollReply") /\ UNCHANGED <<local, queueVars>>
    <3>1. pc'[t] = "PollReply" /\ qlen' = qlen /\ next_event' = NextQueuedEvent
      BY <1>a, <2>3 DEF Goto, queueVars, LeaveNextEvent
    <3> QED BY <1>2, <2>3, <3>1
  <2> QED BY <1>4, <1>6, <2>1, <2>2, <2>3 DEF Poll
<1>7. CASE PollReply(t)
  <2> DEFINE first == Head(pending_requests).sequence
  <2>1. CASE local' = [local EXCEPT ![t].polled = FirstReply(first)] /\ Goto(t, "PollAgain")
             /\ UNCHANGED <<next_event, queueVars>>
    <3>1. pc'[t] = "PollAgain" /\ qlen' = qlen /\ local'[t].caller = local[t].caller
      BY <1>a, <2>1 DEF Goto, queueVars, Locals
    <3> QED BY <1>2, <2>1, <3>1
  <2>2. CASE ~ReplyReady(first) /\ LeaveNextEvent /\ Goto(t, AfterNoResponse(t))
             /\ UNCHANGED <<local, queueVars>>
    <3>1. pc'[t] = AfterNoResponse(t) /\ qlen' = qlen
      BY <1>a, <2>2 DEF Goto, queueVars
    <3>2. local[t].caller # "ReadEvents"
      <4> SUFFICES ASSUME local[t].caller = "ReadEvents" PROVE FALSE
        OBVIOUS
      <4>1. next_event # NoItem /\ NextQueuedEvent = next_event /\ next_event.type # "error"
        BY <1>k, <1>i
      <4>2. pending_requests # <<>>
        BY <1>b, <1>7 DEF PollReply, At, Unclaimed
      <4>3. first \in Nat /\ request_read \in Nat /\ next_event.seq \in Nat
        BY <1>t, <1>a, <4>2, PendingHead, ItemFacts DEF TypeOK, RequestTypeOK, XcbTypeOK
      <4>4. request_read <= first
        BY <2>2, <4>3 DEF ReplyReady, Completed
      <4>5. next_event.seq < first \/ next_event.seq = first
        BY <4>3, <4>4 DEF NumbersRead
      <4>6. InOrder(next_event)
        BY <4>1, <4>5 DEF InOrder
      <4> QED BY <2>2, <4>1, <4>6 DEF LeaveNextEvent
    <3> QED BY <1>3, <2>2, <3>1, <3>2
  <2> QED BY <1>4, <1>7, <2>1, <2>2 DEF PollReply
<1>8. CASE PollAgain(t)
  BY <1>4, <1>5, <1>8, <1>i DEF PollAgain
<1> QED
  BY <1>6, <1>7, <1>8

LEMMA GuardStep ==
    \A t \in Threads :
       IInv /\ EventCallsOfXlib /\ NumbersRead /\ NoErrorSeen /\ PollsGuarded /\ Thread(t)
       => PollsGuarded'
<1> SUFFICES ASSUME IInv, EventCallsOfXlib, NumbersRead, NoErrorSeen, PollsGuarded, NEW t \in Threads, Thread(t)
             PROVE  PollsGuarded'
  OBVIOUS
<1>t. TypeOK
  BY DEF IInv
<1>a. /\ pc \in [Threads -> Labels] /\ local \in [Threads -> Locals] /\ local[t] \in Locals
      /\ xcb_events \in Seq(Items) /\ qlen \in Nat
      /\ local[t].back \in BackLabels /\ local[t].resume \in ResumeLabels
      /\ script[t] # <<>> => Head(script[t]) \in Calls
  BY LocalTypes, HeadTailProperties DEF IInv, TypeOK, ThreadTypeOK, XcbTypeOK, ResponseTypeOK
<1>g. \A u \in Threads : Guarded(u)
  BY DEF PollsGuarded, Guarded
<1>1. ASSUME NEW u \in Threads, u # t PROVE Guarded(u)'
  <2>1. pc'[u] = pc[u] /\ local'[u] = local[u]
    BY <1>1, OthersFrame
  <2>2. CASE Polling(u) \/ pc[u] \in {"TakeEvent", "NoResponse"}
    <3>1. mutex = u
      BY <2>2 DEF IInv, LockHeld, Inside, Polling
    <3>2. mutex # NoThread
      BY <3>1, NoThreadAssumption
    <3>3. UNCHANGED <<event_waiter, next_event, qlen, pending_requests>>
      BY <1>1, <3>1, <3>2, LockedOut DEF displayVars
    <3> QED BY <1>g, <2>1, <3>3 DEF Guarded, Polling
  <2>3. CASE ~Polling(u) /\ pc[u] \notin {"TakeEvent", "NoResponse"}
    BY <1>g, <2>1, <2>3 DEF Guarded, Polling
  <2> QED BY <2>2, <2>3
<1>2. Guarded(t)'
  <2> DEFINE elsewhere == pc'[t] \notin {"Poll", "PollReply", "PollAgain", "TakeEvent",
                                         "NoResponse", "GotEvent"}
  <2>e. elsewhere => Guarded(t)'
    BY DEF Guarded, Polling
  <2>n. pc[t] \notin {"XError", "UserErrorHandler"} /\ pc'[t] # "XError"
    BY NoErrorPlaces DEF NoErrorSeen
  <2>x. ASSUME NEW label \in DoneLabels, XFlush(t, label), event_waiter' = event_waiter
        PROVE  Guarded(t)'
    <3>1. /\ pc'[t] = IF XlibOwnsEventQueue /\ ~ReaderBlocked THEN "Poll" ELSE label
          /\ local'[t] = [local[t] EXCEPT !.caller = "Flush", !.done = label]
      BY <1>t, <1>a, <2>x, PlaceFacts DEF XFlush, Goto
    <3>2. local'[t].caller = "Flush"
      BY <1>a, <3>1 DEF Locals
    <3>3. CASE pc'[t] = label
      BY <2>e, <3>3 DEF DoneLabels
    <3>4. CASE pc'[t] = "Poll" /\ ~event_waiter
      BY <2>x, <3>2, <3>4 DEF Guarded
    <3> QED BY <3>1, <3>3, <3>4 DEF ReaderBlocked
  <2>z. \A c, label : SleepAt(t, c, label) => elsewhere
    BY <1>a DEF SleepAt, Goto
  <2>1. CASE LockDisplay(t) \/ UnlockDisplay(t) \/ Resume(t) \/ GetRequest(t)
    <3>1. elsewhere
      BY <2>1, <1>a DEF LockDisplay, UnlockDisplay, Resume, GetRequest, Goto, Outside, Calls,
         BackLabels, RequestCalls
    <3> QED BY <2>e, <3>1
  <2>2. CASE FlushFullBuffer(t)
    <3>1. pc[t] \in DoneLabels /\ XFlush(t, pc[t]) /\ event_waiter' = event_waiter
      BY <2>2, LabelFacts DEF FlushFullBuffer
    <3> QED BY <2>x, <3>1
  <2>3. CASE XReply(t) \/ ReplyLoop(t) \/ WaitForReply(t)
    <3>1. elsewhere
      BY <2>3, <1>a, <2>z DEF XReply, ReplyLoop, WaitForReply, Goto
    <3> QED BY <2>e, <3>1
  <2>4. CASE GotReply(t)
    <3>1. CASE pc'[t] = "FinishReply"
      BY <2>e, <3>1
    <3>2. CASE pc'[t] = "Poll" /\ ~ReaderBlocked /\ local' = [local EXCEPT ![t].caller = "Reply"]
      <4>1. local'[t].caller = "Reply" /\ event_waiter' = event_waiter
        BY <1>a, <2>4, <3>2 DEF GotReply, displayVars, Locals
      <4> QED BY <3>2, <4>1 DEF Guarded, ReaderBlocked
    <3> QED BY <2>4, <1>a, <3>1, <3>2 DEF GotReply, Goto
  <2>5. CASE FinishReply(t)
    <3>1. local[t].error.type # "error" /\ local[t].response.type # "error"
      BY DEF NoErrorSeen, NoItem
    <3>2. elsewhere
      BY <2>5, <1>a, <3>1, NoErrorHandled DEF FinishReply, Goto
    <3> QED BY <2>e, <3>2
  <2>6. CASE ReplyDone(t)
    <3>1. elsewhere
      BY <2>6, <1>a DEF ReplyDone, HandleResponse, Goto
    <3> QED BY <2>e, <3>1
  <2>7. CASE Poll(t) \/ PollReply(t) \/ PollAgain(t)
    BY <1>g, <2>7, PollGuarded
  <2>8. ~XError(t) /\ ~UserErrorHandler(t)
    BY <2>n DEF XError, UserErrorHandler, At, Outside
  <2>9. CASE NextEvent(t)
    <3>1. \/ pc'[t] = "TakeEvent" /\ qlen' = qlen /\ qlen > 0
          \/ elsewhere
      BY <2>9, <1>a DEF NextEvent, At, Goto, queueVars, EventCallsOfXlib
    <3> QED BY <2>e, <3>1 DEF Guarded, Polling
  <2>10. CASE ReadLoop(t)
    <3>1. qlen' = qlen /\ next_event' = next_event
      BY <2>10 DEF ReadLoop, queueVars
    <3>2. CASE qlen > 0 /\ pc'[t] = "TakeEvent"
      BY <3>1, <3>2 DEF Guarded, Polling
    <3>3. CASE qlen > 0 /\ ~event_waiter /\ event_waiter' = event_waiter
               /\ local' = [local EXCEPT ![t].caller = "Drain"] /\ pc'[t] = "Poll"
      <4>1. local'[t].caller = "Drain"
        BY <1>a, <3>3 DEF Locals
      <4> QED BY <3>1, <3>3, <4>1 DEF Guarded
    <3>4. CASE elsewhere
      BY <2>e, <3>4
    <3>5. CASE next_event # NoItem /\ ~event_waiter /\ event_waiter' = event_waiter
               /\ local' = [local EXCEPT ![t].caller = "ReadEvents"] /\ pc'[t] = "Poll"
      <4>1. local'[t].caller = "ReadEvents"
        BY <1>a, <3>5 DEF Locals
      <4> QED BY <3>1, <3>5, <4>1 DEF Guarded
    <3> QED BY <2>10, <1>a, <2>z, <3>2, <3>3, <3>4, <3>5 DEF ReadLoop, Goto, EnoughRead, ReaderBlocked
  <2>11. CASE WaitForEvent(t)
    <3>1. pc'[t] = "GotEvent" /\ local'[t].event = Head(xcb_events) /\ xcb_events # <<>>
      BY <2>11, <1>a DEF WaitForEvent, Goto, Locals
    <3>2. 1 \in 1..Len(xcb_events) /\ Head(xcb_events) = xcb_events[1]
      BY <1>a, <3>1, EmptySeq
    <3>3. local'[t].event.type = "event"
      BY <3>1, <3>2 DEF NoErrorSeen
    <3> QED BY <3>1, <3>3 DEF Guarded, Polling, NoItem
  <2>12. CASE GotEvent(t)
    <3>1. /\ local' = [local EXCEPT ![t] =
                         [local[t] EXCEPT !.caller = "ReadEvents", !.event = NoItem]]
          /\ pc[t] = "GotEvent"
      BY <2>12, <1>a DEF GotEvent, Outside
    <3>2. local'[t].caller = "ReadEvents"
      BY <1>a, <3>1 DEF Locals
    <3>3. pc'[t] = "Poll" /\ ~event_waiter' /\ next_event' = local[t].event
      BY <2>12, <1>a DEF GotEvent, Goto
    <3> QED BY <1>g, <3>1, <3>2, <3>3 DEF Guarded
  <2>13. CASE NoResponse(t)
    <3>1. CASE SleepAt(t, "reply_notify", "ReadLoop")
      BY <2>e, <2>z, <3>1
    <3>2. CASE UNCHANGED pc /\ pc[t] = "NoResponse"
      BY <2>13, <1>g, <3>2 DEF Guarded, Polling, NoResponse, displayVars
    <3> QED BY <2>13, <3>1, <3>2 DEF NoResponse, At
  <2>14. CASE TakeEvent(t) \/ XLockDisplay(t) \/ XUnlockDisplay(t)
    <3>1. elsewhere
      BY <2>14, <1>a DEF TakeEvent, XLockDisplay, XUnlockDisplay, Goto
    <3> QED BY <2>e, <3>1
  <2>15. CASE EventsQueued(t)
    <3>1. event_waiter' = event_waiter /\ "Unlock" \in DoneLabels
      BY <2>15 DEF EventsQueued, DoneLabels
    <3>2. XFlush(t, "Unlock") \/ pc'[t] = "Unlock"
      BY <2>15, <1>a DEF EventsQueued, Goto
    <3> QED BY <2>e, <2>x, <3>1, <3>2
  <2> QED BY <2>1, <2>2, <2>3, <2>4, <2>5, <2>6, <2>7, <2>8, <2>9, <2>10, <2>11, <2>12,
             <2>13, <2>14, <2>15 DEF Thread
<1>3. \A u \in Threads : Guarded(u)'
  BY <1>1, <1>2
<1> QED
  BY <1>3 DEF PollsGuarded, Guarded

-----------------------------------------------------------------------------
(***************************************************************************)
(* The reply that a thread in _XReply waits for reaches it.                *)
(***************************************************************************)
\* The reply to s is still to come, or XCB has it.
Coming(s) == Unanswered(s) \/ \E r \in xcb_replies : r.seq = s

LEMMA ReplyKeptParts ==
    \A t \in Threads :
       ReplyKept(t) <=>
          /\ local[t].current \in 1..last_flushed /\ issued[local[t].current] = "reply"
          /\ HasAnswer(t) => local[t].response.type = "reply"
          /\ ~HasAnswer(t) => Coming(local[t].current)
BY DEF ReplyKept, Coming

\* Only _XReply's own wait, and a poll for a request nobody waits for, take
\* a reply out of XCB.
LEMMA ComingStep ==
    ASSUME IInv, NEW t \in Threads, Thread(t), NEW s, Coming(s),
           WaitForReply(t) => local[t].req # s,
           PollReply(t) => Head(pending_requests).sequence # s
    PROVE  Coming(s)'
<1>1. Unanswered(s)' <=> Unanswered(s)
  BY SharedStep DEF SharedMoved, Unanswered
<1>2. ASSUME NEW r \in xcb_replies, r.seq = s PROVE r \in xcb_replies'
  <2>1. CASE WaitForReply(t)
    BY <1>2, <2>1 DEF WaitForReply, WithoutFirst
  <2>2. CASE PollReply(t)
    BY <1>2, <2>2 DEF PollReply, WithoutFirst
  <2>3. CASE ~WaitForReply(t) /\ ~PollReply(t)
    <3>1. xcb_replies' = xcb_replies
      <4>1. CASE LockDisplay(t) \/ UnlockDisplay(t) \/ Resume(t) \/ GetRequest(t)
                 \/ FlushFullBuffer(t) \/ XReply(t) \/ ReplyLoop(t) \/ GotReply(t)
        BY <4>1 DEF LockDisplay, UnlockDisplay, Resume, GetRequest, FlushFullBuffer,
           XReply, ReplyLoop, GotReply, xcbVars
      <4>2. CASE FinishReply(t) \/ ReplyDone(t) \/ Poll(t) \/ PollAgain(t)
                 \/ XError(t) \/ UserErrorHandler(t) \/ NextEvent(t)
        BY <4>2 DEF FinishReply, ReplyDone, Poll, PollAgain, XError,
           UserErrorHandler, NextEvent, xcbVars
      <4>3. CASE ReadLoop(t) \/ WaitForEvent(t) \/ GotEvent(t) \/ NoResponse(t)
                 \/ TakeEvent(t) \/ EventsQueued(t) \/ XLockDisplay(t) \/ XUnlockDisplay(t)
        BY <4>3 DEF ReadLoop, WaitForEvent, GotEvent, NoResponse, TakeEvent, EventsQueued,
           XLockDisplay, XUnlockDisplay, xcbVars
      <4> QED BY <2>3, <4>1, <4>2, <4>3 DEF Thread
    <3> QED BY <1>2, <3>1
  <2> QED BY <2>1, <2>2, <2>3
<1> QED
  BY <1>1, <1>2 DEF Coming

\* The server does not pass a request that has a reply without sending it.
LEMMA ServerComing ==
    ASSUME TypeOK, Server, server'.errors = server.errors,
           NEW s \in 1..last_flushed, issued[s] = "reply", Coming(s)
    PROVE  Coming(s)'
<1>a. request_read \in Nat /\ last_flushed \in Nat /\ server \in [events : Nat, errors : Nat]
  BY DEF TypeOK, XcbTypeOK, RequestTypeOK
<1>r. ASSUME NEW n \in request_read..last_flushed, CanReach(n) PROVE ~Unanswered(s) \/ n <= s
  <2> SUFFICES ASSUME Unanswered(s), n > s PROVE FALSE
    BY <1>a
  <2>1. s \in 1..(n - 1)
    BY <1>a
  <2> QED BY <1>r, <2>1 DEF CanReach
<1>1. CASE ServerEvent
  <2> PICK n \in request_read..last_flushed :
        CanReach(n) /\ Packet([type |-> "event", seq |-> n], FALSE)
    BY <1>1 DEF ServerEvent
  <2>1. /\ request_read' = n /\ xcb_replies' = xcb_replies
        /\ answered' <=> (n = request_read /\ answered)
    BY DEF Packet
  <2>2. Unanswered(s) => Unanswered(s)'
    BY <1>a, <1>r, <2>1 DEF Unanswered
  <2> QED BY <2>1, <2>2 DEF Coming
<1>2. CASE ServerReply
  <2> PICK n \in request_read..last_flushed :
        CanReach(n) /\ Packet([type |-> "reply", seq |-> n], TRUE)
    BY <1>2 DEF ServerReply
  <2> DEFINE item == [type |-> "reply", seq |-> n]
  <2>1. request_read' = n /\ xcb_replies' = xcb_replies \cup {item} /\ item.seq = n
    BY DEF Packet, SetAside
  <2>2. Unanswered(s) => n = s \/ Unanswered(s)'
    BY <1>a, <1>r, <2>1 DEF Unanswered
  <2> HIDE DEF item
  <2> QED BY <2>1, <2>2 DEF Coming
<1>3. ~ServerError
  <2> SUFFICES ASSUME ServerError PROVE FALSE
    OBVIOUS
  <2>1. server' = [server EXCEPT !.errors = @ + 1]
    BY DEF ServerError
  <2> QED BY <1>a, <2>1
<1> QED
  BY <1>1, <1>2, <1>3 DEF Server

\* A thread that goes on in _XReply has its answer if it had it before,
\* apart from the steps that are about just that.
LEMMA StaysInReply ==
    ASSUME IInv, NoErrorSeen, NEW t \in Threads, Thread(t), InReply(t)',
           ~XReply(t), ~ReplyLoop(t), ~WaitForReply(t), ~FinishReply(t)
    PROVE  /\ InReply(t) /\ (HasAnswer(t)' <=> HasAnswer(t))
           /\ local'[t].current = local[t].current
           /\ local'[t].response = local[t].response
<1>t. TypeOK
  BY DEF IInv
<1>a. /\ pc \in [Threads -> Labels] /\ local \in [Threads -> Locals] /\ local[t] \in Locals
      /\ local[t].back \in BackLabels /\ local[t].resume \in ResumeLabels
      /\ AfterNoResponse(t) \in {"FinishReply", "NoResponse", "TakeEvent"} \cup DoneLabels
      /\ script[t] # <<>> => Head(script[t]) \in Calls
  BY <1>t, LocalTypes, HelperTypes, HeadTailProperties DEF TypeOK, ThreadTypeOK
<1>n. /\ pc[t] \notin {"XError", "UserErrorHandler"} /\ pc'[t] \notin {"XError", "UserErrorHandler"}
      /\ pc'[t] = "Asleep" => local'[t].back # "XError"
      /\ pc[t] = "Asleep" => local[t].back # "XError"
  BY NoErrorPlaces DEF NoErrorSeen
<1>p. /\ Place(t) = IF pc[t] = "Asleep" THEN local[t].back ELSE pc[t]
      /\ Place(t)' = IF pc'[t] = "Asleep" THEN local'[t].back ELSE pc'[t]
  BY <1>n DEF Place
<1>q. \/ Place(t)' \in {"WaitForReply", "GotReply", "FinishReply", "ReplyLoop"}
      \/ Place(t)' \in {"Poll", "PollReply", "PollAgain"} /\ local'[t].caller = "Reply"
  BY DEF InReply, Claiming
<1> DEFINE same == /\ local'[t].current = local[t].current
                   /\ local'[t].req = local[t].req
                   /\ local'[t].response = local[t].response
                   /\ local'[t].caller = local[t].caller
\* The two ways to go on.
<1>s. ASSUME same, Place(t)' = Place(t)
      PROVE  /\ InReply(t) /\ (HasAnswer(t)' <=> HasAnswer(t))
             /\ local'[t].current = local[t].current
             /\ local'[t].response = local[t].response
  <2>1. Claiming(t)' <=> Claiming(t)
    BY <1>s DEF Claiming
  <2>2. InReply(t)
    BY <1>s, <2>1 DEF InReply
  <2>3. HasAnswer(t)' <=> HasAnswer(t)
    BY <1>s, <2>1 DEF HasAnswer
  <2> QED BY <1>s, <2>2, <2>3
<1>c. ASSUME local'[t].current = local[t].current, local'[t].req = local[t].req,
             local'[t].response = local[t].response,
             Claiming(t), Claiming(t)', Place(t) # "WaitForReply", Place(t)' # "WaitForReply"
      PROVE  /\ InReply(t) /\ (HasAnswer(t)' <=> HasAnswer(t))
             /\ local'[t].current = local[t].current
             /\ local'[t].response = local[t].response
  BY <1>c DEF InReply, HasAnswer
<1>1. ~LockDisplay(t) /\ ~UnlockDisplay(t) /\ ~GetRequest(t)
  <2>1. CASE LockDisplay(t)
    BY <2>1, <1>a, <1>p, <1>q DEF LockDisplay, Goto, Outside, Calls
  <2>2. CASE UnlockDisplay(t)
    BY <2>2, <1>a, <1>p, <1>q DEF UnlockDisplay, Goto
  <2>3. CASE GetRequest(t)
    BY <2>3, <1>a, <1>p, <1>q DEF GetRequest, Goto, RequestCalls
  <2> QED BY <2>1, <2>2, <2>3
<1>2. CASE Resume(t)
  <2>1. pc[t] = "Asleep" /\ pc'[t] = local[t].back /\ local' = local
    BY <1>2, <1>a DEF Resume, Outside, Goto
  <2>2. Place(t)' = Place(t) /\ same
    BY <1>p, <2>1, <1>a DEF BackLabels
  <2> QED BY <1>s, <2>2
<1>x. \A label \in DoneLabels : ~XFlush(t, label)
  <2> SUFFICES ASSUME NEW label \in DoneLabels, XFlush(t, label) PROVE FALSE
    OBVIOUS
  <2>1. /\ pc'[t] \in {"Poll", label}
        /\ local'[t] = [local[t] EXCEPT !.caller = "Flush", !.done = label]
    BY <1>t, PlaceFacts
  <2>2. local'[t].caller = "Flush"
    BY <1>a, <2>1 DEF Locals
  <2> QED BY <1>p, <1>q, <2>1, <2>2 DEF DoneLabels
<1>3. ~FlushFullBuffer(t)
  BY <1>x, LabelFacts DEF FlushFullBuffer
<1>4. CASE GotReply(t)
  <2>1. /\ pc[t] = "GotReply" /\ pc'[t] \in {"Poll", "FinishReply"}
        /\ local' = local \/ local' = [local EXCEPT ![t].caller = "Reply"]
    BY <1>4, <1>a DEF GotReply, Outside, Goto
  <2>2. /\ local'[t].current = local[t].current /\ local'[t].req = local[t].req
        /\ local'[t].response = local[t].response
    BY <1>a, <2>1 DEF Locals
  <2>3. Claiming(t) /\ Claiming(t)'
    BY <1>p, <1>q, <2>1 DEF Claiming
  <2> QED BY <1>c, <1>p, <2>1, <2>2, <2>3
<1>5. ~ReplyDone(t)
  <2>1. local[t].error = NoItem /\ ~(next_event.type = "error" /\ next_event.seq = last_request_read)
    BY NoErrorHandled DEF NoErrorSeen
  <2> QED BY <2>1, <1>a, <1>p, <1>q DEF ReplyDone, Goto
<1>6. CASE Poll(t) \/ PollReply(t) \/ PollAgain(t)
  <2>1. NextQueuedEvent.type # "error" /\ next_response.type # "error" /\ local[t].polled.type # "error"
    BY NoErrorHandled DEF NoErrorSeen
  <2>2. TakeNextEvent(t, AfterResponse(t)) => local' = local /\ pc'[t] = AfterResponse(t)
    BY <2>1, NoErrorHandled DEF TakeNextEvent
  <2>3. \A item : item.type # "error" /\ Answer(t, item) =>
           local' = local /\ pc'[t] \in {"Poll", AfterResponse(t)}
    BY <1>a, NoErrorHandled DEF Answer, Goto
  <2>4. /\ pc[t] \in {"Poll", "PollReply", "PollAgain"}
        /\ pc'[t] \in {"Poll", "PollReply", "PollAgain", AfterResponse(t), AfterNoResponse(t)}
        /\ local' = local \/
              local' = [local EXCEPT ![t].polled = FirstReply(Head(pending_requests).sequence)]
    BY <1>6, <1>a, <2>1, <2>2, <2>3 DEF Poll, PollReply, PollAgain, At, Goto
  <2>5. same
    BY <1>a, <2>4 DEF Locals
  <2>6. pc'[t] # "Asleep"
    BY <1>a, <1>t, <2>4, LoopFacts DEF DoneLabels
  <2>7. local[t].caller = "Reply"
    BY <1>a, <1>t, <1>p, <1>q, <2>4, <2>5, <2>6, LoopFacts DEF DoneLabels
  <2>8. Claiming(t) /\ Claiming(t)' /\ Place(t) # "WaitForReply" /\ Place(t)' # "WaitForReply"
    BY <1>t, <1>p, <2>4, <2>5, <2>6, <2>7, LoopFacts DEF Claiming
  <2> QED BY <1>c, <2>5, <2>8
<1>7. ~XError(t) /\ ~UserErrorHandler(t)
  BY <1>n DEF XError, UserErrorHandler, At, Outside
<1>z. \A c, label : SleepAt(t, c, label) => Place(t)' = label
  <2> SUFFICES ASSUME NEW c, NEW label, SleepAt(t, c, label) PROVE Place(t)' = label
    OBVIOUS
  <2>1. pc'[t] = "Asleep" /\ local'[t] = [local[t] EXCEPT !.back = label]
    BY <1>t, PlaceFacts
  <2>2. local'[t].back = label
    BY <1>a, <2>1 DEF Locals
  <2> QED BY <1>p, <2>1, <2>2
<1>8. ~NextEvent(t) /\ ~WaitForEvent(t) /\ ~TakeEvent(t) /\ ~XLockDisplay(t) /\ ~XUnlockDisplay(t)
  BY <1>a, <1>p, <1>q DEF NextEvent, WaitForEvent, TakeEvent, XLockDisplay, XUnlockDisplay, Goto
<1>9. ~ReadLoop(t)
  <2> SUFFICES ASSUME ReadLoop(t) PROVE FALSE
    OBVIOUS
  <2>1. CASE local' = [local EXCEPT ![t].caller = "Drain"] /\ pc'[t] = "Poll"
    <3>1. local'[t].caller = "Drain"
      BY <1>a, <2>1 DEF Locals
    <3> QED BY <1>p, <1>q, <2>1, <3>1
  <2>2. CASE local' = [local EXCEPT ![t].caller = "ReadEvents"] /\ pc'[t] = "Poll"
    <3>1. local'[t].caller = "ReadEvents"
      BY <1>a, <2>2 DEF Locals
    <3> QED BY <1>p, <1>q, <2>2, <3>1
  <2>3. CASE pc'[t] \in {"TakeEvent", "WaitForEvent"} \/ SleepAt(t, "event_notify", "ReadLoop")
    BY <1>p, <1>q, <1>z, <2>3
  <2> QED BY <1>a, <2>1, <2>2, <2>3 DEF ReadLoop, Goto
<1>10. ~GotEvent(t)
  <2> SUFFICES ASSUME GotEvent(t) PROVE FALSE
    OBVIOUS
  <2>1. local' = [local EXCEPT ![t] =
                    [local[t] EXCEPT !.caller = "ReadEvents", !.event = NoItem]]
    BY <1>a DEF GotEvent
  <2>2. local'[t].caller = "ReadEvents" /\ pc'[t] = "Poll"
    BY <1>a, <2>1 DEF GotEvent, Goto, Locals
  <2> QED BY <1>p, <1>q, <2>2
<1>11. CASE NoResponse(t)
  <2>1. CASE SleepAt(t, "reply_notify", "ReadLoop")
    BY <1>p, <1>q, <1>z, <2>1
  <2>2. CASE UNCHANGED <<pc, local>>
    BY <1>11, <1>p, <1>q, <2>2 DEF NoResponse, At
  <2> QED BY <1>11, <2>1, <2>2 DEF NoResponse
<1>12. ~EventsQueued(t)
  <2>1. "Unlock" \in DoneLabels
    BY DEF DoneLabels
  <2> QED BY <1>a, <1>p, <1>q, <1>x, <2>1 DEF EventsQueued, Goto
<1> QED
  BY <1>1, <1>2, <1>3, <1>4, <1>5, <1>6, <1>7, <1>8, <1>9, <1>10, <1>11, <1>12 DEF Thread

\* A request that has a reply goes on having one.
LEMMA RequestStays ==
    ASSUME IInv, NEW t \in Threads, Thread(t)
    PROVE  \A s \in 1..last_flushed :
              issued[s] = "reply" => s \in 1..last_flushed' /\ issued'[s] = "reply"
<1>1. /\ Len(issued) \in Nat /\ last_flushed \in 0..Len(issued)
      /\ last_flushed <= last_flushed' /\ last_flushed' \in Nat
      /\ \A i \in 1..Len(issued) : issued'[i] = issued[i]
  BY IssuedGrows
<1> QED
  BY <1>1

\* Nobody polls for the reply that a thread in _XReply waits for.
LEMMA NotPolled ==
    ASSUME IInv, Unclaimed, NEW u \in Threads, InReply(u)
    PROVE  Head(pending_requests).sequence # local[u].current
<1>a. pending_requests \in Seq(PendingRequest) /\ Len(pending_requests) \in Nat
  BY LenProperties DEF IInv, TypeOK, RequestTypeOK
<1>2. PICK i \in 1..Len(pending_requests) :
         pending_requests[i].sequence = local[u].current /\ pending_requests[i].reply_waiter
  BY DEF IInv, CurrentListed, Listed
<1>3. Head(pending_requests) = pending_requests[1] /\ 1 \in 1..Len(pending_requests)
  BY <1>a, PendingHead DEF Unclaimed
<1>4. i # 1
  BY <1>2, <1>3 DEF Unclaimed
<1>5. 1 < i
  BY <1>a, <1>4
<1>6. pending_requests[1].sequence < pending_requests[i].sequence
  BY <1>3, <1>5 DEF IInv, PendingSorted
<1>7. pending_requests[1] \in PendingRequest /\ pending_requests[i] \in PendingRequest
  BY <1>a, <1>3
<1>8. pending_requests[1].sequence \in Nat /\ pending_requests[i].sequence \in Nat
  BY <1>7 DEF PendingRequest
<1> QED
  BY <1>2, <1>3, <1>6, <1>8

\* A thread comes to _XReply right after it has made its request.
LEMMA XReplyReached ==
    ASSUME IInv, NEW t \in Threads, Thread(t), pc'[t] = "XReply"
    PROVE  issued'[Len(issued')] = "reply"
<1>a. /\ pc \in [Threads -> Labels] /\ local \in [Threads -> Locals]
      /\ issued \in Seq({"void", "reply"}) /\ Len(issued) \in Nat
      /\ local[t].back \in BackLabels /\ local[t].resume \in ResumeLabels
      /\ AfterNoResponse(t) \in {"FinishReply", "NoResponse", "TakeEvent"} \cup DoneLabels
      /\ AfterResponse(t) \in {"ReadLoop", "Poll"}
      /\ script[t] # <<>> => Head(script[t]) \in Calls
  BY LocalTypes, HelperTypes, HeadTailProperties, LenProperties
     DEF IInv, TypeOK, ThreadTypeOK, RequestTypeOK
<1>1. CASE GetRequest(t)
  <2>1. pc[t] # "Request" /\ issued' = Append(issued, "reply")
    BY <1>a, <1>1 DEF GetRequest, Goto
  <2> QED BY <1>a, <2>1, AppendProperties
<1>2. ~LockDisplay(t) /\ ~UnlockDisplay(t) /\ ~Resume(t) /\ ~FlushFullBuffer(t)
  BY <1>a DEF LockDisplay, UnlockDisplay, Resume, FlushFullBuffer, XFlush, Goto, Outside,
     Calls, BackLabels, RequestCalls
<1>3. ~XReply(t) /\ ~ReplyLoop(t) /\ ~WaitForReply(t) /\ ~GotReply(t) /\ ~FinishReply(t)
  BY <1>a DEF XReply, ReplyLoop, WaitForReply, GotReply, FinishReply, HandleResponse,
     SleepAt, Goto
<1>4. ~ReplyDone(t) /\ ~Poll(t) /\ ~PollReply(t) /\ ~PollAgain(t)
  BY <1>a DEF ReplyDone, Poll, PollReply, PollAgain, TakeNextEvent, Answer, HandleResponse,
     Goto, DoneLabels
<1>5. /\ ~XError(t) /\ ~UserErrorHandler(t) /\ ~NextEvent(t) /\ ~ReadLoop(t)
      /\ ~WaitForEvent(t) /\ ~GotEvent(t)
  BY <1>a DEF XError, UserErrorHandler, NextEvent, ReadLoop, WaitForEvent, GotEvent,
     SleepAt, Goto, ResumeLabels
<1>6. ~NoResponse(t) /\ ~TakeEvent(t) /\ ~EventsQueued(t) /\ ~XLockDisplay(t) /\ ~XUnlockDisplay(t)
  BY <1>a DEF NoResponse, At, TakeEvent, EventsQueued, XFlush, XLockDisplay, XUnlockDisplay,
     SleepAt, Goto
<1> QED
  BY <1>1, <1>2, <1>3, <1>4, <1>5, <1>6 DEF Thread

\* It leaves _XReply's loop with the answer to its own request.
LEMMA ReplyDoneReached ==
    ASSUME IInv, NEW t \in Threads, Thread(t), pc'[t] = "ReplyDone"
    PROVE  /\ FinishReply(t) /\ pc[t] = "FinishReply"
           /\ local[t].req = local[t].current /\ local' = local
<1>a. /\ pc \in [Threads -> Labels] /\ local \in [Threads -> Locals]
      /\ issued \in Seq({"void", "reply"}) /\ Len(issued) \in Nat
      /\ local[t].back \in BackLabels /\ local[t].resume \in ResumeLabels
      /\ AfterNoResponse(t) \in {"FinishReply", "NoResponse", "TakeEvent"} \cup DoneLabels
      /\ AfterResponse(t) \in {"ReadLoop", "Poll"}
      /\ script[t] # <<>> => Head(script[t]) \in Calls
  BY LocalTypes, HelperTypes, HeadTailProperties, LenProperties
     DEF IInv, TypeOK, ThreadTypeOK, RequestTypeOK
<1>1. CASE FinishReply(t)
  <2>1. /\ pc[t] = "FinishReply" /\ local[t].req = local[t].current /\ local' = local
    BY <1>a, <1>1 DEF FinishReply, At, Goto, HandleResponse
  <2> QED BY <1>1, <2>1
<1>2. /\ ~LockDisplay(t) /\ ~UnlockDisplay(t) /\ ~Resume(t) /\ ~GetRequest(t)
      /\ ~FlushFullBuffer(t)
  BY <1>a DEF LockDisplay, UnlockDisplay, Resume, GetRequest, FlushFullBuffer, XFlush, Goto,
     Outside, Calls, BackLabels, RequestCalls
<1>3. ~XReply(t) /\ ~ReplyLoop(t) /\ ~WaitForReply(t) /\ ~GotReply(t)
  BY <1>a DEF XReply, ReplyLoop, WaitForReply, GotReply, SleepAt, Goto
<1>4. ~ReplyDone(t) /\ ~Poll(t) /\ ~PollReply(t) /\ ~PollAgain(t)
  BY <1>a DEF ReplyDone, Poll, PollReply, PollAgain, TakeNextEvent, Answer, HandleResponse,
     Goto, DoneLabels
<1>5. /\ ~XError(t) /\ ~UserErrorHandler(t) /\ ~NextEvent(t) /\ ~ReadLoop(t)
      /\ ~WaitForEvent(t) /\ ~GotEvent(t)
  BY <1>a DEF XError, UserErrorHandler, NextEvent, ReadLoop, WaitForEvent, GotEvent,
     SleepAt, Goto, ResumeLabels
<1>6. ~NoResponse(t) /\ ~TakeEvent(t) /\ ~EventsQueued(t) /\ ~XLockDisplay(t) /\ ~XUnlockDisplay(t)
  BY <1>a DEF NoResponse, At, TakeEvent, EventsQueued, XFlush, XLockDisplay, XUnlockDisplay,
     SleepAt, Goto
<1> QED
  BY <1>1, <1>2, <1>3, <1>4, <1>5, <1>6 DEF Thread

LEMMA RepliesStep ==
    \A t \in Threads :
       IInv /\ NumbersRead /\ NoErrorSeen /\ RepliesKept /\ Thread(t) => RepliesKept'
<1> SUFFICES ASSUME IInv, NumbersRead, NoErrorSeen, RepliesKept, NEW t \in Threads, Thread(t)
             PROVE  RepliesKept'
  OBVIOUS
<1>t. TypeOK
  BY DEF IInv
<1>a. /\ pc \in [Threads -> Labels] /\ local \in [Threads -> Locals] /\ local[t] \in Locals
      /\ issued \in Seq({"void", "reply"}) /\ Len(issued) \in Nat
      /\ pending_requests \in Seq(PendingRequest) /\ Len(pending_requests) \in Nat
      /\ request_read \in Nat /\ last_flushed \in 0..Len(issued)
      /\ local[t].back \in BackLabels /\ local[t].resume \in ResumeLabels
      /\ AfterNoResponse(t) \in {"FinishReply", "NoResponse", "TakeEvent"} \cup DoneLabels
      /\ AfterResponse(t) \in {"ReadLoop", "Poll"}
      /\ script[t] # <<>> => Head(script[t]) \in Calls
  BY <1>t, LocalTypes, HelperTypes, HeadTailProperties, LenProperties
     DEF TypeOK, ThreadTypeOK, RequestTypeOK, XcbTypeOK
<1>g. \A u \in Threads : u # t =>
         /\ pc'[u] = pc[u] /\ local'[u] = local[u] /\ Place(u)' = Place(u)
         /\ (Claiming(u)' <=> Claiming(u)) /\ (InReply(u)' <=> InReply(u))
         /\ (HasAnswer(u)' <=> HasAnswer(u))
  BY OthersFrame, OthersKeep DEF HasAnswer
<1>s. \A s \in 1..last_flushed :
         issued[s] = "reply" => s \in 1..last_flushed' /\ issued'[s] = "reply"
  BY RequestStays
<1>k. \A u \in Threads : InReply(u) =>
         /\ local[u].current \in 1..last_flushed /\ issued[local[u].current] = "reply"
         /\ HasAnswer(u) => local[u].response.type = "reply"
         /\ ~HasAnswer(u) => Coming(local[u].current)
  BY ReplyKeptParts DEF RepliesKept
<1>p. ASSUME PollReply(t), NEW u \in Threads, InReply(u)
      PROVE  Head(pending_requests).sequence # local[u].current
  <2>1. Unclaimed
    BY <1>p DEF PollReply, At, IInv, AtPlaces
  <2> QED BY <1>p, <2>1, NotPolled
<1>1. ASSUME NEW u \in Threads, u # t
      PROVE  /\ InReply(u)' => ReplyKept(u)'
             /\ pc'[u] = "ReplyDone" => local'[u].response.type = "reply"
             /\ pc'[u] = "XReply" => issued'[Len(issued')] = "reply"
  <2>1. InReply(u)' => ReplyKept(u)'
    <3> SUFFICES ASSUME InReply(u)' PROVE ReplyKept(u)'
      OBVIOUS
    <3>1. InReply(u) /\ local'[u] = local[u] /\ (HasAnswer(u)' <=> HasAnswer(u))
      BY <1>1, <1>g
    <3>2. local'[u].current \in 1..last_flushed' /\ issued'[local'[u].current] = "reply"
      BY <1>k, <1>s, <3>1
    <3>3. ASSUME ~HasAnswer(u)' PROVE Coming(local[u].current)'
      <4>1. Coming(local[u].current)
        BY <1>k, <3>1, <3>3
      <4>2. WaitForReply(t) => local[t].req # local[u].current
        <5> SUFFICES ASSUME WaitForReply(t) PROVE local[t].req # local[u].current
          OBVIOUS
        <5>1. Claiming(t) /\ InReply(t)
          BY DEF WaitForReply, Outside, Claiming, InReply, Place
        <5> QED BY <1>1, <3>1, <5>1 DEF IInv, CurrentDistinct
      <4>3. PollReply(t) => Head(pending_requests).sequence # local[u].current
        BY <1>p, <3>1
      <4>4. \A s : s = local[u].current => Coming(s)'
        BY <4>1, <4>2, <4>3, ComingStep
      <4> QED BY <3>1, <4>4 DEF Coming, Unanswered
    <3>4. HasAnswer(u)' => local'[u].response.type = "reply"
      BY <1>k, <3>1
    <3> QED BY <3>2, <3>3, <3>4 DEF ReplyKept, Coming
  <2>2. pc'[u] = "ReplyDone" => local'[u].response.type = "reply"
    BY <1>1, <1>g DEF RepliesKept
  <2>3. pc'[u] = "XReply" => issued'[Len(issued')] = "reply"
    <3> SUFFICES ASSUME pc[u] = "XReply" PROVE issued'[Len(issued')] = "reply"
      BY <1>1, <1>g
    <3>1. mutex = u /\ u # NoThread
      BY NoThreadAssumption DEF IInv, LockHeld, Inside
    <3>2. issued' = issued
      BY <1>1, <3>1, LockedOut DEF displayVars
    <3> QED BY <3>2 DEF RepliesKept
  <2> QED BY <2>1, <2>2, <2>3
<1>2. pc'[t] = "XReply" => issued'[Len(issued')] = "reply"
  BY XReplyReached
<1>3. pc'[t] = "ReplyDone" => local'[t].response.type = "reply"
  <2> SUFFICES ASSUME pc'[t] = "ReplyDone" PROVE local'[t].response.type = "reply"
    OBVIOUS
  <2>1. pc[t] = "FinishReply" /\ local[t].req = local[t].current /\ local' = local
    BY ReplyDoneReached
  <2>2. InReply(t) /\ HasAnswer(t)
    BY <2>1 DEF InReply, HasAnswer, Claiming, Place
  <2> QED BY <1>k, <2>1, <2>2
<1>4. ASSUME InReply(t)' PROVE ReplyKept(t)'
  <2>1. CASE XReply(t)
    <3>0. pc[t] = "XReply" /\ last_flushed < Len(issued) /\ issued[Len(issued)] = "reply"
      BY <2>1 DEF XReply, At, IInv, AtPlaces, RepliesKept
    <3>1. /\ ReplyList \in Seq(PendingRequest) /\ Len(ReplyList) \in 1..Len(ReplyList)
          /\ ReplyList[Len(ReplyList)].sequence = Len(issued)
      BY <1>t, <3>0, ReplyListType, ReplyListLast
    <3>2. /\ Len(pending_requests') = Len(ReplyList)
          /\ pending_requests'[Len(pending_requests')].sequence = Len(issued)
      BY <2>1, <3>1, ClaimedProperties DEF XReply
    <3>3. /\ pc'[t] = "ReplyLoop" /\ local'[t].current = Len(issued)
          /\ last_flushed' = Len(issued) /\ issued' = issued
      BY <1>a, <2>1, <3>2 DEF XReply, Goto, Locals
    <3>4. ~HasAnswer(t)'
      BY <3>3 DEF HasAnswer, Claiming, Place
    <3>5. request_read' = request_read /\ request_read < Len(issued)
      BY <1>a, <3>0, SharedStep DEF SharedMoved, NumbersRead
    <3>6. Unanswered(Len(issued))'
      BY <1>a, <3>3, <3>5 DEF Unanswered
    <3>7. Len(issued) \in 1..Len(issued)
      BY <1>a, <3>0
    <3> QED BY <3>0, <3>3, <3>4, <3>6, <3>7 DEF ReplyKept, Unanswered
  <2>2. CASE ReplyLoop(t)
    <3>1. pc[t] = "ReplyLoop" /\ InReply(t) /\ ~HasAnswer(t)
      BY <2>2 DEF ReplyLoop, At, InReply, HasAnswer, Claiming, Place
    <3>2. local'[t].current = local[t].current /\ ~HasAnswer(t)'
      <4>1. CASE SleepAt(t, "reply_notify", "ReplyLoop")
        <5>1. pc'[t] = "Asleep" /\ local'[t] = [local[t] EXCEPT !.back = "ReplyLoop"]
          BY <1>t, <4>1, PlaceFacts
        <5>2. local'[t].back = "ReplyLoop" /\ local'[t].current = local[t].current
          BY <1>a, <5>1 DEF Locals
        <5> QED BY <5>1, <5>2 DEF HasAnswer, Claiming, Place
      <4>2. CASE pc'[t] = "WaitForReply" /\ local' = [local EXCEPT ![t].req = FirstPending.sequence]
        BY <1>a, <4>2 DEF HasAnswer, Place, Locals
      <4> QED BY <1>a, <2>2, <4>1, <4>2 DEF ReplyLoop, Goto
    <3>3. Coming(local[t].current)
      BY <1>k, <3>1
    <3>4. ~WaitForReply(t) /\ ~PollReply(t)
      BY <3>1 DEF WaitForReply, PollReply, Outside, At
    <3>5. \A s : s = local[t].current => Coming(s)'
      BY <3>3, <3>4, ComingStep
    <3>6. local'[t].current \in 1..last_flushed' /\ issued'[local'[t].current] = "reply"
      BY <1>k, <1>s, <3>1, <3>2
    <3> QED BY <3>2, <3>5, <3>6 DEF ReplyKept, Coming
  <2>3. CASE WaitForReply(t)
    <3> DEFINE r == FirstReply(local[t].req)
               s == local[t].current
    <3>1. pc[t] = "WaitForReply" /\ InReply(t) /\ ~HasAnswer(t) /\ ReplyReady(local[t].req)
      BY <2>3 DEF WaitForReply, Outside, InReply, HasAnswer, Claiming, Place
    <3>2. local' = [local EXCEPT ![t] =
                      [local[t] EXCEPT !.response = IF r.type = "reply" THEN r ELSE NoItem,
                                       !.error = IF r.type = "error" THEN r ELSE NoItem]]
      BY <2>3, <1>a DEF WaitForReply
    <3>3. /\ local'[t].response = IF r.type = "reply" THEN r ELSE NoItem
          /\ local'[t].current = s /\ local'[t].req = local[t].req
      BY <1>a, <3>2 DEF Locals
    <3>4. local'[t].current \in 1..last_flushed' /\ issued'[local'[t].current] = "reply"
      BY <1>k, <1>s, <3>1, <3>3
    <3>5. Coming(s)
      BY <1>k, <3>1
    <3>6. CASE local[t].req = s
      <4>1. \E q \in xcb_replies : q.seq = s
        <5>1. Completed(s) => ~Unanswered(s)
          BY <1>a, <1>k, <3>1 DEF Completed, Unanswered, NoErrorSeen
        <5>2. FirstReply(s) # NoItem => \E q \in xcb_replies : q.seq = s
          BY DEF FirstReply
        <5> QED BY <3>1, <3>5, <3>6, <5>1, <5>2 DEF ReplyReady, Coming
      <4>2. r \in xcb_replies
        BY <3>6, <4>1 DEF FirstReply
      <4>3. r.type = "reply"
        BY <4>2 DEF NoErrorSeen
      <4>4. local'[t].response.type = "reply"
        BY <3>3, <4>3
      <4>5. pc'[t] = "GotReply"
        BY <1>a, <2>3 DEF WaitForReply, Goto
      <4>6. HasAnswer(t)'
        BY <3>3, <3>6, <4>5 DEF HasAnswer, Claiming, Place
      <4> QED BY <3>4, <4>4, <4>6 DEF ReplyKept
    <3>7. CASE local[t].req # s
      <4>1. ~HasAnswer(t)'
        BY <3>3, <3>7 DEF HasAnswer
      <4>2. ~PollReply(t)
        BY <3>1 DEF PollReply, At
      <4>3. \A x : x = s => Coming(x)'
        BY <3>5, <3>7, <4>2, ComingStep
      <4> QED BY <3>3, <3>4, <4>1, <4>3 DEF ReplyKept, Coming
    <3> QED BY <3>6, <3>7
  <2>4. CASE FinishReply(t)
    <3>0. local[t].error.type # "error" /\ local[t].response.type # "error"
      BY DEF NoErrorSeen, NoItem
    <3>1. pc[t] = "FinishReply" /\ InReply(t)
      BY <2>4 DEF FinishReply, At, InReply, Claiming, Place
    <3>2. local[t].req # local[t].current
      <4>1. local[t].req = local[t].current => pc'[t] = "ReplyDone"
        BY <1>a, <2>4 DEF FinishReply, Goto
      <4> QED BY <1>4, <4>1 DEF InReply, Claiming, Place
    <3>3. pc'[t] = "ReplyLoop" /\ local' = local
      BY <2>4, <3>0, <3>2, NoErrorHandled DEF FinishReply
    <3>4. ~HasAnswer(t) /\ ~HasAnswer(t)'
      BY <3>2, <3>3 DEF HasAnswer
    <3>5. ~WaitForReply(t) /\ ~PollReply(t)
      BY <3>1 DEF WaitForReply, PollReply, Outside, At
    <3>6. \A s : s = local[t].current => Coming(s)'
      BY <1>k, <3>1, <3>4, <3>5, ComingStep
    <3>7. local'[t].current \in 1..last_flushed' /\ issued'[local'[t].current] = "reply"
      BY <1>k, <1>s, <3>1, <3>3
    <3> QED BY <3>3, <3>4, <3>6, <3>7 DEF ReplyKept, Coming
  <2>5. CASE ~XReply(t) /\ ~ReplyLoop(t) /\ ~WaitForReply(t) /\ ~FinishReply(t)
    <3>1. /\ InReply(t) /\ (HasAnswer(t)' <=> HasAnswer(t))
          /\ local'[t].current = local[t].current
          /\ local'[t].response = local[t].response
      BY <1>4, <2>5, StaysInReply
    <3>2. local'[t].current \in 1..last_flushed' /\ issued'[local'[t].current] = "reply"
      BY <1>k, <1>s, <3>1
    <3>3. PollReply(t) => Head(pending_requests).sequence # local[t].current
      BY <1>p, <3>1
    <3>4. ASSUME ~HasAnswer(t) PROVE \A s : s = local[t].current => Coming(s)'
      <4>1. Coming(local[t].current)
        BY <1>k, <3>1, <3>4
      <4> QED BY <2>5, <3>3, <4>1, ComingStep
    <3>5. HasAnswer(t) => local'[t].response.type = "reply"
      BY <1>k, <3>1
    <3> QED BY <3>1, <3>2, <3>4, <3>5 DEF ReplyKept, Coming
  <2> QED BY <2>1, <2>2, <2>3, <2>4, <2>5
<1>5. \A u \in Threads :
         /\ InReply(u)' => ReplyKept(u)'
         /\ pc'[u] = "ReplyDone" => local'[u].response.type = "reply"
         /\ pc'[u] = "XReply" => issued'[Len(issued')] = "reply"
  BY <1>1, <1>2, <1>3, <1>4
<1> QED
  BY <1>5 DEF RepliesKept

LEMMA ServerReplies ==
    TypeOK /\ NoErrorSeen /\ RepliesKept /\ Server /\ server'.errors = server.errors => RepliesKept'
<1> SUFFICES ASSUME TypeOK, NoErrorSeen, RepliesKept, Server, server'.errors = server.errors
             PROVE  RepliesKept'
  OBVIOUS
<1>a. UNCHANGED <<issued, last_flushed, pc, local>>
  BY ServerFrame DEF displayVars, threadVars
<1>1. ASSUME NEW u \in Threads
      PROVE  /\ InReply(u)' <=> InReply(u)
             /\ HasAnswer(u)' <=> HasAnswer(u)
  BY <1>a DEF InReply, HasAnswer, Claiming, Place
<1>2. ASSUME NEW u \in Threads, InReply(u)' PROVE ReplyKept(u)'
  <2>1. InReply(u) /\ ReplyKept(u)
    BY <1>1, <1>2 DEF RepliesKept
  <2>2. /\ local[u].current \in 1..last_flushed /\ issued[local[u].current] = "reply"
        /\ HasAnswer(u) => local[u].response.type = "reply"
        /\ ~HasAnswer(u) => Coming(local[u].current)
    BY <2>1, ReplyKeptParts
  <2>3. ~HasAnswer(u) => \A s : s = local[u].current => Coming(s)'
    BY <2>2, ServerComing
  <2> QED BY <1>a, <1>1, <2>2, <2>3 DEF ReplyKept, Coming
<1> QED
  BY <1>a, <1>2 DEF RepliesKept

-----------------------------------------------------------------------------
(***************************************************************************)
(* The invariant.                                                          *)
(***************************************************************************)
\* None of the failures happens.
LEMMA StaysAlive ==
    ASSUME RInv, NEW t \in Threads, Thread(t), server.errors = 0, TypeOK',
           fatal' # "sequence_assert"
    PROVE  fatal' = "none"
<1>a. NoErrorSeen /\ PollsGuarded /\ RepliesKept /\ fatal = "none"
  BY DEF RInv
<1>b. fatal' \in Fatalities
  BY DEF TypeOK, ResponseTypeOK
<1>1. CASE Poll(t) \/ PollReply(t) \/ PollAgain(t)
  <2>1. ~event_waiter
    BY <1>a, <1>1 DEF PollsGuarded, Polling, Poll, PollReply, PollAgain, At
  <2> QED BY <1>a, <1>1, <2>1 DEF Poll, PollReply, PollAgain, EventWaiterAssert
<1>2. CASE ReplyDone(t)
  <2>1. local[t].response # NoItem
    BY <1>a, <1>2 DEF ReplyDone, At, RepliesKept, NoItem
  <2> QED BY <1>a, <1>2, <2>1 DEF ReplyDone
<1>3. CASE NoResponse(t)
  <2>1. pending_requests # <<>> /\ Head(pending_requests).reply_waiter
    BY <1>a, <1>3 DEF NoResponse, At, PollsGuarded
  <2> QED BY <1>a, <1>3, <2>1 DEF NoResponse
<1>4. CASE TakeEvent(t)
  BY <1>a, <1>4 DEF TakeEvent, At, PollsGuarded
<1>5. CASE XReply(t) \/ FinishReply(t)
  BY <1>a, <1>5 DEF XReply, FinishReply
<1>6. CASE LockDisplay(t) \/ UnlockDisplay(t) \/ Resume(t) \/ GetRequest(t)
           \/ FlushFullBuffer(t) \/ ReplyLoop(t) \/ WaitForReply(t) \/ GotReply(t)
  BY <1>a, <1>6 DEF LockDisplay, UnlockDisplay, Resume, GetRequest, FlushFullBuffer,
     ReplyLoop, WaitForReply, GotReply
<1>7. CASE XError(t) \/ UserErrorHandler(t) \/ NextEvent(t) \/ ReadLoop(t)
           \/ WaitForEvent(t) \/ GotEvent(t)
  BY <1>a, <1>7 DEF XError, UserErrorHandler, NextEvent, ReadLoop, WaitForEvent, GotEvent
<1>8. CASE EventsQueued(t) \/ XLockDisplay(t) \/ XUnlockDisplay(t)
  BY <1>a, <1>8 DEF EventsQueued, XLockDisplay, XUnlockDisplay
<1> QED
  BY <1>1, <1>2, <1>3, <1>4, <1>5, <1>6, <1>7, <1>8 DEF Thread

LEMMA InitRInv == EventsThroughXlib /\ Init => RInv
<1> SUFFICES ASSUME EventsThroughXlib, Init PROVE RInv
  OBVIOUS
<1>1. IInv
  BY InitIInv
<1>2. EventCallsOfXlib
  BY DEF Init, EventsThroughXlib, EventCallsOfXlib, XlibOwnsEventQueue
<1>3. WaiterTrue
  BY DEF Init, WaiterTrue, Blocked
<1>4. NumbersRead
  BY DEF Init, NumbersRead, NoItem
<1>5. \A t \in Threads : /\ pc[t] = "Idle" /\ local[t].error = NoItem /\ local[t].response = NoItem
                         /\ local[t].polled = NoItem /\ local[t].event = NoItem
  BY DEF Init
<1>6. NoErrorSeen
  BY <1>5 DEF Init, NoErrorSeen, NoItem
<1>7. PollsGuarded
  BY <1>5 DEF PollsGuarded, Polling
<1>8. RepliesKept
  BY <1>5 DEF RepliesKept, InReply, Claiming, Place
<1> QED
  BY <1>1, <1>2, <1>3, <1>4, <1>6, <1>7, <1>8 DEF RInv, Init

LEMMA StepRInv == RInv /\ [Next]_vars => RInv'
<1> SUFFICES ASSUME RInv, [Next]_vars PROVE RInv'
  OBVIOUS
<1>i. IInv /\ IInv'
  BY StepIInv DEF RInv
<1>t. TypeOK /\ TypeOK' /\ fatal' # "sequence_assert"
  BY <1>i DEF IInv
<1>1. ASSUME NEW t \in Threads, Thread(t) PROVE RInv'
  <2>1. EventCallsOfXlib' /\ WaiterTrue' /\ NumbersRead'
    BY <1>1, EventCallsStep, WaiterStep, NumbersStep DEF RInv
  <2>2. ASSUME server'.errors = 0
        PROVE  NoErrorSeen' /\ PollsGuarded' /\ RepliesKept' /\ fatal' = "none"
    <3>1. server.errors = 0
      BY <1>1, <1>i, <2>2, SharedStep DEF SharedMoved
    <3>2. NoErrorSeen /\ PollsGuarded /\ RepliesKept
      BY <3>1 DEF RInv
    <3>3. NoErrorSeen'
      BY <1>1, <1>i, <3>2, NoErrorStep
    <3>4. PollsGuarded'
      BY <1>1, <1>i, <3>2, GuardStep DEF RInv
    <3>5. RepliesKept'
      BY <1>1, <1>i, <3>2, RepliesStep DEF RInv
    <3>6. fatal' = "none"
      BY <1>1, <1>t, <3>1, StaysAlive
    <3> QED BY <3>3, <3>4, <3>5, <3>6
  <2> QED BY <1>i, <2>1, <2>2 DEF RInv
<1>2. CASE Server
  <2>a. UNCHANGED <<displayVars, fatal, threadVars>>
    BY <1>2, ServerFrame
  <2>1. EventCallsOfXlib'
    BY <2>a DEF RInv, EventCallsOfXlib, threadVars, callVars, XlibOwnsEventQueue
  <2>2. WaiterTrue'
    BY <2>a DEF RInv, WaiterTrue, Blocked, displayVars, threadVars
  <2>3. NumbersRead'
    BY <1>2, <1>t, ServerNumbers DEF RInv
  <2>4. ASSUME server'.errors = 0
        PROVE  NoErrorSeen' /\ PollsGuarded' /\ RepliesKept' /\ fatal' = "none"
    <3>1. server.errors \in Nat
      BY <1>t DEF TypeOK, XcbTypeOK
    <3>2. server.errors = 0 /\ server'.errors = server.errors
      BY <1>2, <1>t, <2>4, <3>1, PacketFacts DEF RInv
    <3>3. NoErrorSeen'
      BY <1>2, <1>t, <3>2, ServerNoError DEF RInv
    <3>4. PollsGuarded'
      BY <2>a, <3>2 DEF RInv, PollsGuarded, Polling, displayVars, threadVars
    <3>5. RepliesKept'
      BY <1>2, <1>t, <3>2, ServerReplies DEF RInv
    <3>6. fatal' = "none"
      BY <2>a, <3>2 DEF RInv
    <3> QED BY <3>3, <3>4, <3>5, <3>6
  <2> QED BY <1>i, <2>1, <2>2, <2>3, <2>4 DEF RInv
<1>3. CASE UNCHANGED vars
  <2>a. /\ UNCHANGED <<displayVars, fatal, threadVars, xcbVars>>
        /\ pc' = pc /\ local' = local
    BY <1>3 DEF vars, threadVars
  <2>1. EventCallsOfXlib' /\ WaiterTrue'
    BY <2>a DEF RInv, EventCallsOfXlib, threadVars, callVars, XlibOwnsEventQueue, WaiterTrue,
       Blocked, displayVars
  <2>2. NumbersRead' /\ (NoErrorSeen => NoErrorSeen')
    BY <2>a DEF RInv, NumbersRead, NoErrorSeen, displayVars, xcbVars
  <2>3. PollsGuarded => PollsGuarded'
    BY <2>a DEF PollsGuarded, Polling, displayVars
  <2>4. RepliesKept => RepliesKept'
    BY <2>a DEF RepliesKept, ReplyKept, InReply, HasAnswer, Claiming, Place, Unanswered,
       displayVars, xcbVars
  <2>5. server' = server /\ fatal' = fatal
    BY <2>a DEF xcbVars
  <2> QED BY <1>i, <2>1, <2>2, <2>3, <2>4, <2>5 DEF RInv
<1> QED
  BY <1>1, <1>2, <1>3 DEF Next, Stopped

\* The invariant, when only clients that read their events with Xlib call
\* XNextEvent.
THEOREM ReadersInvariance == ASSUME EventsThroughXlib PROVE Spec => []RInv
<1>1. Init => RInv
  BY InitRInv
<1>2. RInv /\ [Next]_vars => RInv'
  BY StepRInv
<1> QED
  BY <1>1, <1>2, PTL DEF Spec

\* A set whose elements are all the same has at most one.
LEMMA AtMostOne ==
    ASSUME NEW S, \A x, y \in S : x = y
    PROVE  Cardinality(S) <= 1
<1>1. CASE S = {}
  BY <1>1, FS_EmptySet
<1>2. ASSUME NEW x \in S PROVE Cardinality(S) <= 1
  <2>1. S = {x}
    OBVIOUS
  <2> QED BY <2>1, FS_Singleton
<1> QED
  BY <1>1, <1>2

\* While the server sends no error, the process goes on: at most one thread
\* reads XCB's event queue (poll_for_event's assertion), XNextEvent finds an
\* event in the queue when _XReadEvents returns, and neither _XReply nor
\* _XReadEvents calls _XIOError, whatever the threads do.
THEOREM ReadersStayUndisturbed == ASSUME EventsThroughXlib PROVE Spec => []ReadersUndisturbed
<1>1. RInv => ReadersUndisturbed
  <2> SUFFICES ASSUME RInv, server.errors = 0
               PROVE  OneEventReader /\ ReadEventsDelivers /\ NoSpuriousIOError
    BY DEF ReadersUndisturbed
  <2>1. fatal = "none" /\ PollsGuarded /\ WaiterTrue /\ LockHeld
    BY DEF RInv, IInv
  <2>2. \A t \in Pollers : mutex = t /\ ~event_waiter
    BY <2>1 DEF Pollers, PollsGuarded, Polling, LockHeld, Inside
  <2>3. \A t \in BlockedReaders : event_waiter /\ t \in Threads /\ Blocked(t)
    BY <2>1 DEF BlockedReaders, WaiterTrue, Blocked
  <2>4. \A t, u \in BlockedReaders \cup Pollers : t = u
    BY <2>1, <2>2, <2>3 DEF WaiterTrue
  <2>5. OneEventReader
    BY <2>4, AtMostOne DEF OneEventReader
  <2> QED BY <2>1, <2>5 DEF ReadEventsDelivers, NoSpuriousIOError
<1> QED
  BY <1>1, ReadersInvariance, PTL

-----------------------------------------------------------------------------
(***************************************************************************)
(* No event is lost or counted twice.  This needs no assumption: it holds  *)
(* for every script, and whatever the server answers.                      *)
(***************************************************************************)
\* One event more, or none.
LEMMA OneFacts ==
    /\ \A item : One(item) \in {0, 1}
    /\ \A item : item.type = "event" => One(item) = 1
    /\ \A item : item.type # "event" => One(item) = 0
    /\ One(NoItem) = 0
BY DEF One, NoItem

\* The sums below.
LEMMA Sums ==
    /\ \A q, n, l, d, p, x \in Int : q + n = p + x => q + n + l + d = p + 0 + (l + x) + d
    /\ \A q, h, n, l, d \in Int : q + h + n + l + d = h + (q + n + l + d)
    /\ \A q, h, n, l, d, x \in Int : (q + h + n + l + d) + x = (q + x) + h + n + l + d
OBVIOUS

\* The events of a queue are finitely many.
LEMMA EventsFinite ==
    ASSUME NEW queue \in Seq(Items)
    PROVE  /\ IsFiniteSet(EventsIn(queue)) /\ EventsIn(queue) \subseteq 1..Len(queue)
           /\ Cardinality(EventsIn(queue)) \in Nat
<1>1. Len(queue) \in Nat /\ DOMAIN queue = 1..Len(queue)
  BY LenProperties
<1>2. IsFiniteSet(1..Len(queue)) /\ EventsIn(queue) \subseteq 1..Len(queue)
  BY <1>1, FS_Interval DEF EventsIn
<1>3. IsFiniteSet(EventsIn(queue))
  BY <1>2, FS_Subset
<1> QED
  BY <1>2, <1>3, FS_CardinalityType

\* A packet at the end of the queue adds one if it is an event.
LEMMA EventsAppended ==
    ASSUME NEW queue \in Seq(Items), NEW item \in Items
    PROVE  Cardinality(EventsIn(Append(queue, item))) = Cardinality(EventsIn(queue)) + One(item)
<1> DEFINE longer == Append(queue, item)
           last == Len(queue) + 1
<1>1. /\ Len(queue) \in Nat /\ DOMAIN queue = 1..Len(queue)
      /\ longer \in Seq(Items) /\ Len(longer) = last
      /\ longer[last] = item
      /\ \A i \in 1..Len(queue) : longer[i] = queue[i]
  BY LenProperties, AppendProperties
<1>2. DOMAIN longer = (1..Len(queue)) \cup {last} /\ last \notin 1..Len(queue)
  BY <1>1, LenProperties
<1>3. /\ IsFiniteSet(EventsIn(queue)) /\ last \notin EventsIn(queue)
      /\ Cardinality(EventsIn(queue)) \in Nat
  BY <1>2, EventsFinite
<1> HIDE DEF longer, last
<1>4. CASE item.type = "event"
  <2>1. EventsIn(longer) = EventsIn(queue) \cup {last}
    BY <1>1, <1>2, <1>4 DEF EventsIn
  <2>2. Cardinality(EventsIn(queue) \cup {last}) = Cardinality(EventsIn(queue)) + 1
    BY <1>3, FS_AddElement
  <2> QED BY <1>4, <2>1, <2>2, OneFacts DEF longer
<1>5. CASE item.type # "event"
  <2>1. EventsIn(longer) = EventsIn(queue)
    BY <1>1, <1>2, <1>5 DEF EventsIn
  <2> QED BY <1>3, <1>5, <2>1, OneFacts DEF longer
<1> QED
  BY <1>4, <1>5

\* Taking the head of the queue takes one if it is an event: the others move
\* up by one place.
LEMMA EventsBehind ==
    ASSUME NEW queue \in Seq(Items), queue # <<>>
    PROVE  Cardinality(EventsIn(queue)) = One(Head(queue)) + Cardinality(EventsIn(Tail(queue)))
<1> DEFINE rest == Tail(queue)
           from == EventsIn(queue) \ {1}
           to == EventsIn(rest)
           f == [i \in from |-> i - 1]
<1>1. /\ Len(queue) \in Nat \ {0} /\ DOMAIN queue = 1..Len(queue)
      /\ Head(queue) = queue[1] /\ rest \in Seq(Items)
      /\ Len(rest) = Len(queue) - 1 /\ DOMAIN rest = 1..Len(rest)
      /\ \A i \in 1..Len(rest) : rest[i] = queue[i + 1]
  BY HeadTailProperties, LenProperties
<1>2. \A i \in from : i \in Nat /\ i - 1 \in 1..Len(rest) /\ rest[i - 1] = queue[i]
  <2> SUFFICES ASSUME NEW i \in from
               PROVE  i \in Nat /\ i - 1 \in 1..Len(rest) /\ rest[i - 1] = queue[i]
    OBVIOUS
  <2>1. i \in 1..Len(queue) /\ i # 1
    BY <1>1 DEF EventsIn
  <2>2. i - 1 \in 1..Len(rest) /\ (i - 1) + 1 = i
    BY <1>1, <2>1
  <2> QED BY <1>1, <2>1, <2>2
<1>3. \A i \in from : f[i] \in to
  BY <1>1, <1>2 DEF EventsIn
<1>4. \A j \in to : \E i \in from : f[i] = j
  <2> SUFFICES ASSUME NEW j \in to PROVE \E i \in from : f[i] = j
    OBVIOUS
  <2>1. j \in 1..Len(rest) /\ rest[j].type = "event"
    BY <1>1 DEF EventsIn
  <2>2. j + 1 \in 1..Len(queue) /\ j + 1 # 1 /\ (j + 1) - 1 = j
    BY <1>1, <2>1
  <2>3. queue[j + 1].type = "event"
    BY <1>1, <2>1
  <2>4. j + 1 \in from
    BY <1>1, <2>2, <2>3 DEF EventsIn
  <2> QED BY <2>2, <2>4
<1>5. \A i, k \in from : f[i] = f[k] => i = k
  BY <1>2
<1>6. f \in Bijection(from, to)
  BY <1>3, <1>4, <1>5 DEF Bijection, Injection, Surjection, IsInjective
<1>7. /\ IsFiniteSet(EventsIn(queue)) /\ Cardinality(EventsIn(queue)) \in Nat
      /\ Cardinality(to) \in Nat
  BY <1>1, EventsFinite
<1>8. /\ IsFiniteSet(from)
      /\ Cardinality(from) = IF 1 \in EventsIn(queue) THEN Cardinality(EventsIn(queue)) - 1
                             ELSE Cardinality(EventsIn(queue))
  BY <1>7, FS_RemoveElement
<1>9. Cardinality(to) = Cardinality(from)
  BY <1>6, <1>8, FS_Bijection DEF ExistsBijection
<1>10. 1 \in EventsIn(queue) <=> Head(queue).type = "event"
  BY <1>1 DEF EventsIn
<1> HIDE DEF rest, from, to, f
<1>11. Cardinality(EventsIn(queue)) = One(Head(queue)) + Cardinality(to)
  <2>1. CASE Head(queue).type = "event"
    <3>1. One(Head(queue)) = 1 /\ Cardinality(to) = Cardinality(EventsIn(queue)) - 1
      BY <1>8, <1>9, <1>10, <2>1, OneFacts
    <3> QED BY <1>7, <3>1
  <2>2. CASE Head(queue).type # "event"
    <3>1. One(Head(queue)) = 0 /\ Cardinality(to) = Cardinality(EventsIn(queue))
      BY <1>8, <1>9, <1>10, <2>2, OneFacts
    <3> QED BY <1>7, <3>1
  <2> QED BY <2>1, <2>2
<1> QED
  BY <1>11 DEF to, rest

\* poll_for_event moves the head of XCB's queue to next_event, if at all.
LEMMA FetchCounts ==
    ASSUME TypeOK, FetchedFromXcb
    PROVE  Cardinality(EventsIn(xcb_events)) + One(next_event) =
              Cardinality(EventsIn(xcb_events')) + One(NextQueuedEvent)
<1>1. xcb_events \in Seq(Items) /\ Cardinality(EventsIn(xcb_events)) \in Nat
  BY EventsFinite DEF TypeOK, XcbTypeOK
<1>2. CASE next_event = NoItem /\ xcb_events # <<>>
  <2>1. /\ xcb_events' = Tail(xcb_events) /\ NextQueuedEvent = Head(xcb_events)
        /\ One(next_event) = 0
    BY <1>2, NextQueuedFacts, OneFacts DEF FetchedFromXcb
  <2>2. Tail(xcb_events) \in Seq(Items)
    BY <1>1, <1>2, HeadTailProperties
  <2>3. Cardinality(EventsIn(Tail(xcb_events))) \in Nat
    BY <2>2, EventsFinite
  <2>4. One(Head(xcb_events)) \in {0, 1}
    BY OneFacts
  <2>5. Cardinality(EventsIn(xcb_events)) =
           One(Head(xcb_events)) + Cardinality(EventsIn(Tail(xcb_events)))
    BY <1>1, <1>2, EventsBehind
  <2> QED BY <1>1, <2>1, <2>3, <2>4, <2>5
<1>3. CASE next_event # NoItem \/ xcb_events = <<>>
  BY <1>3, NextQueuedFacts DEF FetchedFromXcb
<1> QED
  BY <1>2, <1>3

\* If at most one thread holds an event, its event is what is held.
LEMMA HeldCounts ==
    ASSUME NEW f, NEW t \in Threads,
           \A u \in Threads : u # t => f[u].event.type # "event"
    PROVE  Cardinality({u \in Threads : f[u].event.type = "event"}) = One(f[t].event)
<1> DEFINE held == {u \in Threads : f[u].event.type = "event"}
<1>1. CASE f[t].event.type = "event"
  <2>1. held = {t}
    BY <1>1
  <2> QED BY <1>1, <2>1, FS_Singleton, OneFacts
<1>2. CASE f[t].event.type # "event"
  <2>1. held = {}
    BY <1>2
  <2> QED BY <1>2, <2>1, FS_EmptySet, OneFacts
<1> QED
  BY <1>1, <1>2

\* No more than one thread does, so what is held is a number.
LEMMA HeldFinite ==
    WaiterTrue /\ NextEventFree => Cardinality(HeldEvents) \in {0, 1}
<1> SUFFICES ASSUME WaiterTrue, NextEventFree PROVE Cardinality(HeldEvents) \in {0, 1}
  OBVIOUS
<1>1. CASE \A u \in Threads : local[u].event.type # "event"
  <2>1. HeldEvents = {}
    BY <1>1 DEF HeldEvents
  <2> QED BY <2>1, FS_EmptySet
<1>2. ASSUME NEW u \in Threads, local[u].event.type = "event"
      PROVE  Cardinality(HeldEvents) \in {0, 1}
  <2>1. pc[u] = "GotEvent" /\ Blocked(u)
    BY <1>2 DEF NextEventFree, Blocked, NoItem
  <2>2. \A v \in Threads : v # u => local[v].event.type # "event"
    BY <2>1 DEF NextEventFree, WaiterTrue, Blocked, NoItem
  <2>3. Cardinality(HeldEvents) = One(local[u].event)
    BY <2>2, HeldCounts DEF HeldEvents
  <2> QED BY <2>3, OneFacts
<1> QED
  BY <1>1, <1>2

\* Only _XReadEvents has an event of its own, from xcb_wait_for_event until
\* it has put it into next_event.
LEMMA HeldEventFrame ==
    \A t \in Threads : IInv /\ Thread(t) /\ ~WaitForEvent(t) /\ ~GotEvent(t)
       => local'[t].event = local[t].event
<1> SUFFICES ASSUME IInv, NEW t \in Threads, Thread(t), ~WaitForEvent(t), ~GotEvent(t)
             PROVE  local'[t].event = local[t].event
  OBVIOUS
<1>t. TypeOK
  BY DEF IInv
<1>a. /\ local \in [Threads -> Locals] /\ local[t] \in Locals
  BY DEF IInv, TypeOK, ThreadTypeOK
<1> DEFINE same == local'[t].event = local[t].event
<1>u. local' = local => same
  OBVIOUS
<1>h. \A item, label : HandleResponse(t, item, label) => same
  <2> SUFFICES ASSUME NEW item, NEW label, HandleResponse(t, item, label) PROVE same
    OBVIOUS
  <2>1. local'[t] = local[t] \/ local'[t] = [local[t] EXCEPT !.resume = label]
    BY <1>t, PlaceFacts
  <2> QED BY <1>a, <2>1 DEF Locals
<1>x. \A label : XFlush(t, label) => same
  <2> SUFFICES ASSUME NEW label, XFlush(t, label) PROVE same
    OBVIOUS
  <2>1. local'[t] = [local[t] EXCEPT !.caller = "Flush", !.done = label]
    BY <1>t, PlaceFacts
  <2> QED BY <1>a, <2>1 DEF Locals
<1>z. \A c, label : SleepAt(t, c, label) => same
  <2> SUFFICES ASSUME NEW c, NEW label, SleepAt(t, c, label) PROVE same
    OBVIOUS
  <2>1. local'[t] = [local[t] EXCEPT !.back = label]
    BY <1>t, PlaceFacts
  <2> QED BY <1>a, <2>1 DEF Locals
<1>1. CASE LockDisplay(t) \/ Resume(t) \/ XLockDisplay(t) \/ XUnlockDisplay(t) \/ TakeEvent(t)
           \/ UserErrorHandler(t)
  BY <1>1, <1>u DEF LockDisplay, Resume, XLockDisplay, XUnlockDisplay, TakeEvent,
     UserErrorHandler
<1>2. CASE UnlockDisplay(t) \/ GetRequest(t) \/ XReply(t)
  BY <1>2, <1>a, <1>u DEF UnlockDisplay, GetRequest, XReply, Locals
<1>3. CASE FlushFullBuffer(t) \/ EventsQueued(t)
  BY <1>3, <1>u, <1>x DEF FlushFullBuffer, EventsQueued
<1>4. CASE ReplyLoop(t) \/ XError(t) \/ NoResponse(t)
  BY <1>4, <1>a, <1>u, <1>z DEF ReplyLoop, XError, NoResponse, Locals
<1>5. CASE WaitForReply(t)
  <2> DEFINE x == IF FirstReply(local[t].req).type = "reply" THEN FirstReply(local[t].req)
                  ELSE NoItem
             y == IF FirstReply(local[t].req).type = "error" THEN FirstReply(local[t].req)
                  ELSE NoItem
  <2>1. local' = [local EXCEPT ![t] = [local[t] EXCEPT !.response = x, !.error = y]]
    BY <1>5, <1>a DEF WaitForReply
  <2> HIDE DEF x, y
  <2> QED BY <1>a, <2>1 DEF Locals
<1>6. CASE GotReply(t) \/ FinishReply(t) \/ ReplyDone(t)
  BY <1>6, <1>a, <1>u, <1>h DEF GotReply, FinishReply, ReplyDone, Locals
<1>7. CASE Poll(t) \/ PollAgain(t)
  BY <1>7, <1>u, <1>h DEF Poll, PollAgain, TakeNextEvent, Answer
<1>8. CASE PollReply(t)
  BY <1>8, <1>a, <1>u, <1>h DEF PollReply, TakeNextEvent, Locals
<1>9. CASE NextEvent(t) \/ ReadLoop(t)
  BY <1>9, <1>a, <1>u, <1>z DEF NextEvent, ReadLoop, Locals
<1> QED
  BY <1>1, <1>2, <1>3, <1>4, <1>5, <1>6, <1>7, <1>8, <1>9 DEF Thread

\* An event outside the lists is one that its thread has just got, and while
\* a thread is blocked for events nothing is put into next_event: whoever
\* polls then ends the process (the assertion in poll_for_event).
LEMMA NextFreeStep ==
    \A t \in Threads : IInv /\ WaiterTrue /\ NextEventFree /\ Thread(t) => NextEventFree'
<1> SUFFICES ASSUME IInv, WaiterTrue, NextEventFree, NEW t \in Threads, Thread(t)
             PROVE  NextEventFree'
  OBVIOUS
<1>a. pc \in [Threads -> Labels] /\ local \in [Threads -> Locals]
  BY DEF IInv, TypeOK, ThreadTypeOK
<1>1. \A u \in Threads : u # t => (local'[u].event # NoItem => pc'[u] = "GotEvent")
  BY OthersFrame DEF NextEventFree
<1>2. local'[t].event # NoItem => pc'[t] = "GotEvent"
  <2>1. CASE WaitForEvent(t)
    BY <1>a, <2>1 DEF WaitForEvent, Goto
  <2>2. CASE GotEvent(t)
    <3>1. local' = [local EXCEPT ![t] =
                      [local[t] EXCEPT !.caller = "ReadEvents", !.event = NoItem]]
      BY <1>a, <2>2 DEF GotEvent
    <3> QED BY <1>a, <3>1 DEF Locals
  <2>3. CASE ~WaitForEvent(t) /\ ~GotEvent(t)
    <3>1. local'[t].event = local[t].event
      BY <2>3, HeldEventFrame
    <3>2. pc[t] # "GotEvent"
      <4>1. CASE ReadLoop(t)
        BY <4>1 DEF ReadLoop, At
      <4>2. CASE ~ReadLoop(t)
        <5>1. ~Blocked(t)
          BY <2>3, <4>2, WaiterFrame
        <5> QED BY <5>1 DEF Blocked
      <4> QED BY <4>1, <4>2
    <3> QED BY <3>1, <3>2 DEF NextEventFree
  <2> QED BY <2>1, <2>2, <2>3
<1>f. fatal = "none"
  <2>1. CASE Poll(t) \/ PollReply(t) \/ PollAgain(t) \/ ReadLoop(t) \/ GotEvent(t) \/ ReplyDone(t)
    BY <2>1 DEF Poll, PollReply, PollAgain, ReadLoop, GotEvent, ReplyDone, At, Outside
  <2>2. CASE LockDisplay(t) \/ UnlockDisplay(t) \/ Resume(t) \/ GetRequest(t)
             \/ FlushFullBuffer(t) \/ XReply(t) \/ ReplyLoop(t) \/ WaitForReply(t)
             \/ GotReply(t) \/ FinishReply(t)
    BY <2>2 DEF LockDisplay, UnlockDisplay, Resume, GetRequest, FlushFullBuffer, XReply,
       ReplyLoop, WaitForReply, GotReply, FinishReply, At, Outside
  <2>3. CASE XError(t) \/ UserErrorHandler(t) \/ NextEvent(t) \/ WaitForEvent(t)
             \/ NoResponse(t) \/ TakeEvent(t) \/ EventsQueued(t) \/ XLockDisplay(t)
             \/ XUnlockDisplay(t)
    BY <2>3 DEF XError, UserErrorHandler, NextEvent, WaitForEvent, NoResponse, TakeEvent,
       EventsQueued, XLockDisplay, XUnlockDisplay, At, Outside
  <2> QED BY <2>1, <2>2, <2>3 DEF Thread
<1>3. ASSUME fatal' = "none", event_waiter' PROVE next_event' = NoItem
  <2>1. CASE Poll(t) \/ PollReply(t) \/ PollAgain(t)
    <3>1. event_waiter' = event_waiter
      BY <2>1 DEF Poll, PollReply, PollAgain
    <3>2. next_event = NoItem
      BY <1>3, <1>f, <3>1 DEF NextEventFree
    <3>3. EventWaiterAssert => fatal' = "event_waiter_assert"
      BY <1>3, <3>1 DEF EventWaiterAssert
    <3> QED BY <1>3, <2>1, <3>2, <3>3 DEF Poll, PollReply, PollAgain
  <2>2. CASE ReadLoop(t)
    BY <1>3, <1>f, <2>2 DEF ReadLoop, NextEventFree
  <2>3. CASE GotEvent(t)
    BY <1>3, <2>3 DEF GotEvent
  <2>4. CASE ReplyDone(t)
    BY <1>3, <1>f, <2>4 DEF ReplyDone, NextEventFree
  <2>5. CASE LockDisplay(t) \/ UnlockDisplay(t) \/ Resume(t) \/ GetRequest(t)
             \/ FlushFullBuffer(t) \/ XReply(t) \/ ReplyLoop(t) \/ WaitForReply(t)
             \/ GotReply(t) \/ FinishReply(t)
    BY <1>3, <1>f, <2>5 DEF LockDisplay, UnlockDisplay, Resume, GetRequest, FlushFullBuffer,
       XReply, ReplyLoop, WaitForReply, GotReply, FinishReply, displayVars, NextEventFree
  <2>6. CASE XError(t) \/ UserErrorHandler(t) \/ NextEvent(t) \/ WaitForEvent(t)
             \/ NoResponse(t) \/ TakeEvent(t) \/ EventsQueued(t) \/ XLockDisplay(t)
             \/ XUnlockDisplay(t)
    BY <1>3, <1>f, <2>6 DEF XError, UserErrorHandler, NextEvent, WaitForEvent, NoResponse,
       TakeEvent, EventsQueued, XLockDisplay, XUnlockDisplay, displayVars, NextEventFree
  <2> QED BY <2>1, <2>2, <2>3, <2>4, <2>5, <2>6 DEF Thread
<1> QED
  BY <1>1, <1>2, <1>3 DEF NextEventFree

\* The answers stay with the answers.
LEMMA AnswersOnlyStep ==
    \A t \in Threads : IInv /\ AnswersOnly /\ Thread(t) => AnswersOnly'
<1> SUFFICES ASSUME IInv, AnswersOnly, NEW t \in Threads, Thread(t) PROVE AnswersOnly'
  OBVIOUS
<1>a. SharedMoved(t) /\ HeldMoved(t)
  BY SharedStep, HeldStep
<1>n. NoItem.type # "event"
  BY DEF NoItem
<1>1. next_response'.type # "event"
  BY <1>a, <1>n DEF SharedMoved, AnswersOnly
<1>2. \A r \in xcb_replies' : r.type # "event"
  BY <1>a DEF SharedMoved, AnswersOnly
<1>3. /\ local'[t].response.type # "event"
      /\ local'[t].error.type # "event"
      /\ local'[t].polled.type # "event"
  BY <1>a, <1>n DEF HeldMoved, AnswersOnly
<1>4. \A u \in Threads : u # t => local'[u] = local[u]
  BY OthersFrame
<1> QED
  BY <1>1, <1>2, <1>3, <1>4 DEF AnswersOnly

\* handle_response puts an event into the queue, and nothing else.
LEMMA HandleCounts ==
    ASSUME TypeOK, NEW t, NEW item, NEW label, HandleResponse(t, item, label)
    PROVE  qlen' = qlen + One(item)
<1>1. qlen \in Nat
  BY DEF TypeOK, ResponseTypeOK
<1>2. CASE item.type = "event"
  BY <1>2, OneFacts DEF HandleResponse
<1>3. CASE item.type # "event"
  BY <1>1, <1>3, OneFacts DEF HandleResponse, queueVars
<1> QED
  BY <1>2, <1>3

\* An answer is not an event.
LEMMA AnswerCounts ==
    ASSUME TypeOK, NEW t \in Threads, NEW item, item.type # "event", Answer(t, item)
    PROVE  qlen' = qlen
<1>1. qlen \in Nat
  BY DEF TypeOK, ResponseTypeOK
<1>2. CASE item = NoItem
  BY <1>2 DEF Answer, queueVars
<1>3. CASE item # NoItem
  <2>1. HandleResponse(t, item, AfterResponse(t))
    BY <1>3 DEF Answer
  <2> QED BY <1>1, <2>1, HandleCounts, OneFacts
<1> QED
  BY <1>2, <1>3

\* What a step of t does to the events that are counted: they stay where
\* they are, move from XCB's queue to next_event or into Xlib's queue, to
\* a thread or from it, or to the caller.
EventsStayPut ==
    /\ xcb_events' = xcb_events /\ next_event' = next_event /\ qlen' = qlen
    /\ delivered' = delivered

EventTaken ==
    /\ InOrder(NextQueuedEvent) /\ FetchedFromXcb /\ next_event' = NoItem
    /\ qlen' = qlen + One(NextQueuedEvent) /\ delivered' = delivered

EventLeft ==
    /\ FetchedFromXcb /\ next_event' = NextQueuedEvent
    /\ qlen' = qlen /\ delivered' = delivered

ErrorReturned(t) ==
    /\ ReplyDone(t) /\ next_event.type = "error" /\ next_event.seq = last_request_read
    /\ next_event' = NoItem
    /\ xcb_events' = xcb_events /\ qlen' = qlen /\ delivered' = delivered

EventDelivered ==
    /\ qlen' = qlen - 1 /\ delivered' = delivered + 1
    /\ xcb_events' = xcb_events /\ next_event' = next_event

LEMMA EventEffect ==
    \A t \in Threads : IInv /\ AnswersOnly /\ Thread(t) /\ ~WaitForEvent(t) /\ ~GotEvent(t)
       => \/ EventsStayPut \/ EventTaken \/ EventLeft \/ ErrorReturned(t) \/ EventDelivered
<1> SUFFICES ASSUME IInv, AnswersOnly, NEW t \in Threads, Thread(t), ~WaitForEvent(t),
                    ~GotEvent(t)
             PROVE  \/ EventsStayPut \/ EventTaken \/ EventLeft \/ ErrorReturned(t)
                    \/ EventDelivered
  OBVIOUS
<1>t. TypeOK /\ qlen \in Nat
  BY DEF IInv, TypeOK, ResponseTypeOK
<1>h. \A item, label : HandleResponse(t, item, label) => qlen' = qlen + One(item)
  BY <1>t, HandleCounts
<1>r. /\ next_response.type # "event" /\ local[t].polled.type # "event"
      /\ local[t].response.type # "event" /\ local[t].error.type # "event"
  BY DEF AnswersOnly
<1>n. \A label : TakeNextEvent(t, label) /\ delivered' = delivered => EventTaken
  BY <1>h DEF TakeNextEvent, EventTaken
<1>m. LeaveNextEvent /\ qlen' = qlen /\ delivered' = delivered => EventLeft
  BY DEF LeaveNextEvent, EventLeft
<1>1. CASE LockDisplay(t) \/ UnlockDisplay(t) \/ Resume(t) \/ GetRequest(t)
           \/ FlushFullBuffer(t) \/ XReply(t) \/ ReplyLoop(t) \/ WaitForReply(t)
           \/ GotReply(t)
  BY <1>1 DEF LockDisplay, UnlockDisplay, Resume, GetRequest, FlushFullBuffer, XReply,
     ReplyLoop, WaitForReply, GotReply, displayVars, queueVars, xcbVars, EventsStayPut
<1>2. CASE XError(t) \/ UserErrorHandler(t) \/ NextEvent(t) \/ ReadLoop(t)
           \/ NoResponse(t) \/ EventsQueued(t) \/ XLockDisplay(t) \/ XUnlockDisplay(t)
  BY <1>2 DEF XError, UserErrorHandler, NextEvent, ReadLoop, NoResponse, EventsQueued,
     XLockDisplay, XUnlockDisplay, displayVars, queueVars, xcbVars, EventsStayPut
<1>3. CASE TakeEvent(t)
  BY <1>3 DEF TakeEvent, xcbVars, EventsStayPut, EventDelivered
<1>4. CASE FinishReply(t)
  <2>1. /\ xcb_events' = xcb_events /\ next_event' = next_event /\ delivered' = delivered
    BY <1>4 DEF FinishReply, xcbVars
  <2>2. \/ UNCHANGED queueVars
        \/ HandleResponse(t, local[t].error, "ReplyLoop")
        \/ HandleResponse(t, local[t].response, "ReplyLoop")
    BY <1>4 DEF FinishReply
  <2>3. qlen' = qlen
    BY <1>t, <1>h, <1>r, <2>2, OneFacts DEF queueVars
  <2> QED BY <2>1, <2>3 DEF EventsStayPut
<1>5. CASE ReplyDone(t)
  <2> DEFINE mine == next_event.type = "error" /\ next_event.seq = last_request_read
             error == IF mine THEN next_event ELSE local[t].error
  <2>1. /\ xcb_events' = xcb_events /\ delivered' = delivered
        /\ next_event' = IF mine THEN NoItem ELSE next_event
        /\ UNCHANGED queueVars \/ HandleResponse(t, error, "Unlock")
    BY <1>5 DEF ReplyDone, xcbVars
  <2>2. error.type # "event"
    BY <1>r
  <2>3. qlen' = qlen
    BY <1>t, <1>h, <2>1, <2>2, OneFacts DEF queueVars
  <2> QED BY <1>5, <2>1, <2>3 DEF EventsStayPut, ErrorReturned
<1>6. CASE Poll(t)
  <2>1. delivered' = delivered
    BY <1>6 DEF Poll
  <2>2. CASE TakeNextEvent(t, AfterResponse(t))
    BY <1>n, <2>1, <2>2
  <2>3. CASE LeaveNextEvent /\ UNCHANGED queueVars
    BY <1>m, <2>1, <2>3 DEF queueVars
  <2>4. CASE LeaveNextEvent /\ Answer(t, next_response)
    BY <1>m, <1>r, <1>t, <2>1, <2>4, AnswerCounts
  <2> QED BY <1>6, <2>2, <2>3, <2>4 DEF Poll
<1>7. CASE PollReply(t)
  <2>1. delivered' = delivered
    BY <1>7 DEF PollReply
  <2>2. CASE TakeNextEvent(t, AfterResponse(t))
    BY <1>n, <2>1, <2>2
  <2>3. CASE LeaveNextEvent /\ UNCHANGED queueVars
    BY <1>m, <2>1, <2>3 DEF queueVars
  <2>4. CASE UNCHANGED <<xcb_events, next_event, queueVars>>
    BY <2>1, <2>4 DEF EventsStayPut, queueVars
  <2> QED BY <1>7, <2>2, <2>3, <2>4 DEF PollReply
<1>8. CASE PollAgain(t)
  <2>1. delivered' = delivered
    BY <1>8 DEF PollAgain
  <2>2. CASE TakeNextEvent(t, AfterResponse(t))
    BY <1>n, <2>1, <2>2
  <2>3. CASE LeaveNextEvent /\ Answer(t, local[t].polled)
    BY <1>m, <1>r, <1>t, <2>1, <2>3, AnswerCounts
  <2> QED BY <1>8, <2>2, <2>3 DEF PollAgain
<1> QED
  BY <1>1, <1>2, <1>3, <1>4, <1>5, <1>6, <1>7, <1>8 DEF Thread

\* Wherever a step moves an event, it is counted there.
LEMMA ConservedStep ==
    \A t \in Threads : EInv /\ Thread(t) /\ TypeOK' => EventsConserved'
<1> SUFFICES ASSUME EInv, NEW t \in Threads, Thread(t), TypeOK' PROVE EventsConserved'
  OBVIOUS
<1>i. IInv /\ WaiterTrue /\ NextEventFree /\ AnswersOnly /\ EventsConserved /\ TypeOK
  BY DEF EInv, IInv
<1> DEFINE q == Cardinality(EventsIn(xcb_events))
           h == Cardinality(HeldEvents)
           n == One(next_event)
<1>a. /\ pc \in [Threads -> Labels] /\ local \in [Threads -> Locals]
      /\ xcb_events \in Seq(Items) /\ qlen \in Nat /\ delivered \in Nat
  BY <1>i DEF TypeOK, ThreadTypeOK, ResponseTypeOK, XcbTypeOK
<1>b. /\ q \in Nat /\ q' \in Nat /\ n \in {0, 1} /\ n' \in {0, 1} /\ qlen' \in Nat
      /\ delivered' \in Nat /\ One(NextQueuedEvent) \in {0, 1}
  BY <1>a, EventsFinite, OneFacts DEF TypeOK, XcbTypeOK, ResponseTypeOK, ThreadTypeOK
<1>c. server.events = q + h + n + qlen + delivered /\ server' = server
  BY <1>i, SharedStep DEF EventsConserved, SharedMoved
<1>d. NoItem.type # "event" /\ One(NoItem) = 0
  BY OneFacts DEF NoItem
<1>o. \A u \in Threads : u # t => local'[u] = local[u]
  BY <1>i, OthersFrame
<1>h. h \in Nat
  BY <1>i, HeldFinite
<1>1. CASE WaitForEvent(t)
  <2>1. \A u \in Threads : u # t => local[u].event.type # "event"
    BY <1>1, <1>d, <1>i DEF WaitForEvent, Outside, NextEventFree, WaiterTrue, Blocked
  <2>2. local[t].event = NoItem
    BY <1>1, <1>i DEF WaitForEvent, Outside, NextEventFree
  <2>3. local'[t].event = Head(xcb_events)
    BY <1>1, <1>a DEF WaitForEvent, Locals
  <2>4. h = 0 /\ h' = One(Head(xcb_events))
    <3>1. h = One(local[t].event)
      BY <2>1, HeldCounts DEF HeldEvents
    <3>2. h' = One(local'[t].event)
      BY <1>o, <2>1, HeldCounts DEF HeldEvents
    <3> QED BY <1>d, <2>2, <2>3, <3>1, <3>2
  <2>5. q = One(Head(xcb_events)) + q'
    BY <1>1, <1>a, EventsBehind DEF WaitForEvent
  <2>6. n' = n /\ qlen' = qlen /\ delivered' = delivered
    BY <1>1 DEF WaitForEvent, displayVars
  <2>7. One(Head(xcb_events)) \in {0, 1}
    BY OneFacts
  <2> HIDE DEF q, h, n
  <2>8. server'.events = q' + h' + n' + qlen' + delivered'
    BY <1>a, <1>b, <1>c, <1>h, <2>4, <2>5, <2>6, <2>7
  <2> QED BY <2>8 DEF EventsConserved, q, h, n
<1>2. CASE GotEvent(t)
  <2>1. \A u \in Threads : u # t => local[u].event.type # "event"
    BY <1>2, <1>d, <1>i DEF GotEvent, Outside, NextEventFree, WaiterTrue, Blocked
  <2>2. local'[t].event = NoItem
    <3>1. local' = [local EXCEPT ![t] =
                      [local[t] EXCEPT !.caller = "ReadEvents", !.event = NoItem]]
      BY <1>a, <1>2 DEF GotEvent
    <3> QED BY <1>a, <3>1 DEF Locals
  <2>3. h' = 0 /\ h = One(local[t].event)
    <3>1. h = One(local[t].event)
      BY <2>1, HeldCounts DEF HeldEvents
    <3>2. h' = One(local'[t].event)
      BY <1>o, <2>1, HeldCounts DEF HeldEvents
    <3> QED BY <1>d, <2>2, <3>1, <3>2
  <2>4. n = 0
    <3>1. fatal = "none" /\ event_waiter
      BY <1>2, <1>i DEF GotEvent, Outside, WaiterTrue, Blocked
    <3> QED BY <1>d, <1>i, <3>1 DEF NextEventFree
  <2>5. n' = One(local[t].event) /\ xcb_events' = xcb_events /\ qlen' = qlen
        /\ delivered' = delivered
    BY <1>2 DEF GotEvent, queueVars, xcbVars
  <2>6. q' = q
    BY <2>5
  <2> HIDE DEF q, h, n
  <2>8. server'.events = q' + h' + n' + qlen' + delivered'
    BY <1>a, <1>b, <1>c, <1>h, <2>3, <2>4, <2>5, <2>6
  <2> QED BY <2>8 DEF EventsConserved, q, h, n
<1>3. CASE ~WaitForEvent(t) /\ ~GotEvent(t)
  <2>1. h' = h
    <3>1. \A u \in Threads : local'[u].event = local[u].event
      BY <1>3, <1>i, <1>o, HeldEventFrame
    <3> QED BY <3>1 DEF HeldEvents
  <2>2. EventsStayPut \/ EventTaken \/ EventLeft \/ ErrorReturned(t) \/ EventDelivered
    BY <1>3, <1>i, EventEffect
  <2>3. q + n + qlen + delivered = q' + n' + qlen' + delivered'
    <3>1. CASE EventsStayPut
      BY <3>1 DEF EventsStayPut
    <3>2. CASE EventTaken
      <4>1. /\ q + n = q' + One(NextQueuedEvent)
            /\ n' = 0 /\ qlen' = qlen + One(NextQueuedEvent) /\ delivered' = delivered
        BY <1>d, <1>i, <3>2, FetchCounts DEF EventTaken
      <4> DEFINE x == One(NextQueuedEvent)
      <4>2. q \in Int /\ q' \in Int /\ n \in Int /\ qlen \in Int /\ delivered \in Int /\ x \in Int
        BY <1>a, <1>b
      <4> HIDE DEF q, n, x
      <4>3. q + n + qlen + delivered = q' + 0 + (qlen + x) + delivered
        BY <4>1, <4>2, Sums DEF x
      <4> QED BY <4>1, <4>3 DEF x
    <3>3. CASE EventLeft
      <4>1. /\ q + n = q' + One(NextQueuedEvent)
            /\ n' = One(NextQueuedEvent) /\ qlen' = qlen /\ delivered' = delivered
        BY <1>d, <1>i, <3>3, FetchCounts DEF EventLeft
      <4> QED BY <4>1
    <3>4. CASE ErrorReturned(t)
      <4>1. q' = q /\ n = 0 /\ n' = 0 /\ qlen' = qlen /\ delivered' = delivered
        BY <1>d, <3>4, OneFacts DEF ErrorReturned
      <4> HIDE DEF q, n
      <4> QED BY <1>a, <1>b, <4>1
    <3>5. CASE EventDelivered
      <4>1. q' = q /\ n' = n /\ qlen' = qlen - 1 /\ delivered' = delivered + 1
        BY <3>5 DEF EventDelivered
      <4> HIDE DEF q, n
      <4> QED BY <1>a, <1>b, <4>1
    <3> QED BY <2>2, <3>1, <3>2, <3>3, <3>4, <3>5
  <2> HIDE DEF q, h, n
  <2>4. /\ q \in Int /\ n \in Int /\ qlen \in Int /\ delivered \in Int /\ h \in Int
        /\ q' \in Int /\ n' \in Int /\ qlen' \in Int /\ delivered' \in Int
    BY <1>a, <1>b, <1>h
  <2>5. /\ q + h + n + qlen + delivered = h + (q + n + qlen + delivered)
        /\ q' + h + n' + qlen' + delivered' = h + (q' + n' + qlen' + delivered')
    BY <2>4, Sums
  <2> QED BY <1>c, <2>1, <2>3, <2>5 DEF EventsConserved, q, h, n
<1> QED
  BY <1>1, <1>2, <1>3

\* An event from the server is one more for XCB's queue; nothing else is.
LEMMA ServerEvents == EInv /\ Server => EInv'
<1> SUFFICES ASSUME EInv, Server PROVE EInv'
  OBVIOUS
<1>i. IInv /\ WaiterTrue /\ NextEventFree /\ AnswersOnly /\ EventsConserved /\ TypeOK
  BY DEF EInv, IInv
<1>f. UNCHANGED <<displayVars, fatal, threadVars>>
  BY ServerFrame
<1>a. /\ xcb_events \in Seq(Items) /\ qlen \in Nat /\ delivered \in Nat
      /\ last_flushed \in Nat /\ request_read \in Nat
      /\ server \in [events : Nat, errors : Nat]
  BY <1>i DEF TypeOK, RequestTypeOK, ThreadTypeOK, ResponseTypeOK, XcbTypeOK
<1>1. IInv'
  BY <1>i, StepIInv DEF Next
<1>2. WaiterTrue' /\ NextEventFree'
  BY <1>f, <1>i DEF WaiterTrue, NextEventFree, Blocked, displayVars, threadVars
<1>3. /\ \/ xcb_events' = xcb_events /\ server'.events = server.events
         \/ \E item \in Items : /\ xcb_events' = Append(xcb_events, item)
                                /\ server'.events = server.events + One(item)
      /\ \A r \in xcb_replies' : r \in xcb_replies \/ r.type # "event"
  <2>1. CASE ServerEvent
    <3> PICK s \in request_read..last_flushed :
          /\ server' = [server EXCEPT !.events = @ + 1]
          /\ Packet([type |-> "event", seq |-> s], FALSE)
      BY <2>1 DEF ServerEvent
    <3> DEFINE item == [type |-> "event", seq |-> s]
    <3>1. item \in Items /\ item.type = "event"
      BY <1>a DEF Items
    <3>2. xcb_events' = Append(xcb_events, item) /\ xcb_replies' = xcb_replies
      BY <3>1 DEF Packet
    <3>3. server'.events = server.events + 1 /\ One(item) = 1
      BY <1>a, <3>1, OneFacts
    <3> HIDE DEF item
    <3> QED BY <3>1, <3>2, <3>3
  <2>2. CASE ServerReply
    <3> PICK s \in request_read..last_flushed :
          /\ UNCHANGED server
          /\ Packet([type |-> "reply", seq |-> s], TRUE)
      BY <2>2 DEF ServerReply
    <3> DEFINE item == [type |-> "reply", seq |-> s]
    <3>1. item.type = "reply"
      OBVIOUS
    <3>2. xcb_events' = xcb_events /\ xcb_replies' = xcb_replies \cup {item}
      BY <3>1 DEF Packet, SetAside
    <3> HIDE DEF item
    <3> QED BY <3>1, <3>2
  <2>3. CASE ServerError
    <3> PICK s \in request_read..last_flushed :
          /\ server' = [server EXCEPT !.errors = @ + 1]
          /\ Packet([type |-> "error", seq |-> s], TRUE)
      BY <2>3 DEF ServerError
    <3> DEFINE item == [type |-> "error", seq |-> s]
    <3>1. item \in Items /\ item.type = "error"
      BY <1>a DEF Items
    <3>2. \/ xcb_events' = Append(xcb_events, item) /\ xcb_replies' = xcb_replies
          \/ xcb_events' = xcb_events /\ xcb_replies' = xcb_replies \cup {item}
      BY <3>1 DEF Packet
    <3>3. server'.events = server.events /\ server.events + 0 = server.events /\ One(item) = 0
      BY <1>a, <3>1, OneFacts
    <3> HIDE DEF item
    <3> QED BY <3>1, <3>2, <3>3
  <2> QED BY <2>1, <2>2, <2>3 DEF Server
<1>4. AnswersOnly'
  <2>1. \A r \in xcb_replies' : r.type # "event"
    BY <1>3, <1>i DEF AnswersOnly
  <2> QED BY <1>f, <1>i, <2>1 DEF AnswersOnly, displayVars, threadVars
<1>5. EventsConserved'
  <2> DEFINE q == Cardinality(EventsIn(xcb_events))
             others == Cardinality(HeldEvents) + One(next_event) + qlen + delivered
  <2>1. others' = others
    BY <1>f DEF HeldEvents, displayVars, queueVars, threadVars
  <2>2. server.events = q + Cardinality(HeldEvents) + One(next_event) + qlen + delivered
    BY <1>i DEF EventsConserved
  <2>3. CASE xcb_events' = xcb_events /\ server'.events = server.events
    BY <1>f, <2>2, <2>3 DEF EventsConserved, HeldEvents, displayVars, queueVars, threadVars
  <2>4. ASSUME NEW item \in Items, xcb_events' = Append(xcb_events, item),
               server'.events = server.events + One(item)
        PROVE  EventsConserved'
    <3>1. q' = q + One(item) /\ q \in Nat /\ One(item) \in {0, 1}
      BY <1>a, <2>4, EventsAppended, EventsFinite, OneFacts
    <3>2. Cardinality(HeldEvents) \in Nat /\ One(next_event) \in {0, 1}
      BY <1>i, HeldFinite, OneFacts
    <3>3. /\ Cardinality(HeldEvents)' = Cardinality(HeldEvents)
          /\ One(next_event)' = One(next_event) /\ qlen' = qlen /\ delivered' = delivered
      BY <1>f DEF HeldEvents, displayVars, queueVars, threadVars
    <3> DEFINE h == Cardinality(HeldEvents)
               n == One(next_event)
               x == One(item)
    <3>4. /\ q \in Int /\ h \in Int /\ n \in Int /\ qlen \in Int /\ delivered \in Int /\ x \in Int
      BY <1>a, <3>1, <3>2
    <3>5. /\ server'.events = (q + h + n + qlen + delivered) + x
          /\ q' = q + x /\ h' = h /\ n' = n /\ qlen' = qlen /\ delivered' = delivered
      BY <2>2, <2>4, <3>1, <3>3
    <3> HIDE DEF q, h, n, x
    <3>6. (q + h + n + qlen + delivered) + x = (q + x) + h + n + qlen + delivered
      BY <3>4, Sums
    <3> QED BY <3>5, <3>6 DEF EventsConserved, q, h, n
  <2> QED BY <1>3, <2>3, <2>4
<1> QED
  BY <1>1, <1>2, <1>4, <1>5 DEF EInv

LEMMA InitEInv == Init => EInv
<1> SUFFICES ASSUME Init PROVE EInv
  OBVIOUS
<1>1. IInv
  BY InitIInv
<1>2. /\ pc = [t \in Threads |-> "Idle"] /\ NoItem.type # "event"
      /\ \A t \in Threads : /\ pc[t] = "Idle" /\ local[t].event = NoItem
                            /\ local[t].response = NoItem /\ local[t].error = NoItem
                            /\ local[t].polled = NoItem
  BY DEF Init, NoItem
<1>3. WaiterTrue
  BY <1>2 DEF Init, WaiterTrue, Blocked
<1>4. NextEventFree /\ AnswersOnly
  BY <1>2 DEF Init, NextEventFree, AnswersOnly
<1>5. EventsConserved
  <2>1. EventsIn(xcb_events) = {} /\ HeldEvents = {}
    BY <1>2 DEF Init, EventsIn, HeldEvents
  <2>2. Cardinality(EventsIn(xcb_events)) = 0 /\ Cardinality(HeldEvents) = 0
    BY <2>1, FS_EmptySet
  <2>3. One(next_event) = 0 /\ qlen = 0 /\ delivered = 0 /\ server.events = 0
    BY OneFacts DEF Init
  <2> QED BY <2>2, <2>3 DEF EventsConserved
<1> QED
  BY <1>1, <1>3, <1>4, <1>5 DEF EInv

LEMMA StepEInv == EInv /\ [Next]_vars => EInv'
<1> SUFFICES ASSUME EInv, [Next]_vars PROVE EInv'
  OBVIOUS
<1>i. /\ IInv /\ WaiterTrue /\ NextEventFree /\ AnswersOnly /\ EventsConserved
      /\ IInv' /\ TypeOK'
  BY StepIInv DEF EInv, IInv
<1>1. ASSUME NEW t \in Threads, Thread(t) PROVE EInv'
  <2>1. WaiterTrue' /\ NextEventFree' /\ AnswersOnly'
    BY <1>1, <1>i, WaiterStep, NextFreeStep, AnswersOnlyStep
  <2>2. EventsConserved'
    BY <1>1, <1>i, ConservedStep
  <2> QED BY <1>i, <2>1, <2>2 DEF EInv
<1>2. CASE Server
  BY <1>2, ServerEvents
<1>3. CASE UNCHANGED vars
  <2>1. UNCHANGED <<displayVars, fatal, threadVars, xcbVars>>
    BY <1>3 DEF vars
  <2>2. WaiterTrue' /\ NextEventFree' /\ AnswersOnly'
    BY <1>i, <2>1 DEF WaiterTrue, NextEventFree, AnswersOnly, Blocked, displayVars,
       threadVars, xcbVars
  <2>3. EventsConserved'
    BY <1>i, <2>1 DEF EventsConserved, EventsIn, HeldEvents, One, displayVars, queueVars,
       threadVars, xcbVars
  <2> QED BY <1>i, <2>2, <2>3 DEF EInv
<1> QED
  BY <1>1, <1>2, <1>3 DEF Next, Stopped

\* Whatever the threads do and the server answers, errors included, every
\* event the server has sent is in one place: XCB's queue, the hands of the
\* thread back from xcb_wait_for_event, next_event, Xlib's queue, or the
\* caller's.  _XReadEvents never overwrites a next_event it has not handled.
THEOREM EventsStayConserved == Spec => []EventsConserved
<1>1. Init => EInv
  BY InitEInv
<1>2. EInv /\ [Next]_vars => EInv'
  BY StepEInv
<1>3. EInv => EventsConserved
  BY DEF EInv
<1> QED
  BY <1>1, <1>2, <1>3, PTL DEF Spec

-----------------------------------------------------------------------------
(***************************************************************************)
(* In a client that never calls XNextEvent every answer stays with the     *)
(* thread in _XReply that needs it, errors included, and so neither        *)
(* _XIOError nor a failed assertion ends the process.                      *)
(***************************************************************************)
\* What a step does to the events and errors that XCB has queued.
LEMMA QueueMoved ==
    ASSUME EInv, NobodyReads, NEW t \in Threads, Thread(t)
    PROVE  \/ xcb_events' = xcb_events /\ next_event' = next_event
           \/ /\ xcb_events' = xcb_events /\ next_event' = NoItem
              /\ \/ InOrder(next_event)
                 \/ ReplyDone(t) /\ next_event.seq = last_request_read
           \/ /\ next_event = NoItem
              /\ xcb_events # <<>> /\ xcb_events' = Tail(xcb_events)
              /\ \/ next_event' = Head(xcb_events)
                 \/ next_event' = NoItem /\ InOrder(Head(xcb_events))
<1>1. IInv /\ AnswersOnly /\ ~WaitForEvent(t) /\ ~GotEvent(t)
  BY DEF EInv, NobodyReads, ReaderPlaces, WaitForEvent, GotEvent, Outside
<1>2. EventsStayPut \/ EventTaken \/ EventLeft \/ ErrorReturned(t) \/ EventDelivered
  BY <1>1, EventEffect
<1>3. CASE EventsStayPut \/ EventDelivered
  BY <1>3 DEF EventsStayPut, EventDelivered
<1>4. CASE ErrorReturned(t)
  BY <1>4 DEF ErrorReturned
<1>5. CASE EventTaken
  <2>1. InOrder(NextQueuedEvent) /\ NextQueuedEvent # NoItem
    BY <1>5 DEF EventTaken, InOrder
  <2> QED BY <1>5, <2>1, NextQueuedFacts DEF EventTaken, FetchedFromXcb
<1>6. CASE EventLeft
  BY <1>6, NextQueuedFacts DEF EventLeft, FetchedFromXcb
<1> QED
  BY <1>2, <1>3, <1>4, <1>5, <1>6

\* They stay in the order of their numbers.
LEMMA OrderStep ==
    ASSUME EInv, NobodyReads, EventsOrdered, NEW t \in Threads, Thread(t)
    PROVE  EventsOrdered'
<1>a. xcb_events \in Seq(Items)
  BY DEF EInv, IInv, TypeOK, XcbTypeOK
<1>1. CASE xcb_events' = xcb_events /\ next_event' \in {next_event, NoItem}
  BY <1>1 DEF EventsOrdered
<1>2. CASE /\ xcb_events # <<>> /\ xcb_events' = Tail(xcb_events)
           /\ next_event' \in {Head(xcb_events), NoItem}
  <2> DEFINE n == Len(xcb_events)
  <2>1. /\ 1 \in 1..n /\ Head(xcb_events) = xcb_events[1]
        /\ Len(xcb_events') = n - 1 /\ n \in Nat
        /\ \A i \in 1..(n - 1) : xcb_events'[i] = xcb_events[i + 1]
    BY <1>a, <1>2, QueueTail
  <2>2. \A i \in 1..(n - 1) : i + 1 \in 1..n /\ 1 < i + 1
    BY <2>1
  <2>3. \A i, j \in 1..(n - 1) : i < j => i + 1 < j + 1
    BY <2>1
  <2>4. /\ \A i \in 1..n : xcb_events[i] # NoItem
        /\ \A i, j \in 1..n : i < j => xcb_events[i].seq <= xcb_events[j].seq
    BY DEF EventsOrdered
  <2> HIDE DEF n
  <2>5. \A i \in 1..(n - 1) : xcb_events'[i] # NoItem
    BY <2>1, <2>2, <2>4
  <2>6. \A i, j \in 1..(n - 1) : i < j => xcb_events'[i].seq <= xcb_events'[j].seq
    BY <2>1, <2>2, <2>3, <2>4
  <2>7. \A i \in 1..(n - 1) : xcb_events[1].seq <= xcb_events'[i].seq
    BY <2>1, <2>2, <2>4
  <2> QED BY <1>2, <2>1, <2>5, <2>6, <2>7 DEF EventsOrdered
<1> QED
  BY <1>1, <1>2, QueueMoved

\* No error comes among them that Xlib has asked to be set aside.
LEMMA SetAsideStep ==
    ASSUME EInv, NobodyReads, ErrorsSetAside, NEW t \in Threads, Thread(t)
    PROVE  ErrorsSetAside'
<1>1. errored' = errored /\ answered' = answered
  BY SharedStep DEF EInv, SharedMoved
<1>2. XlibOwnsEventQueue' <=> XlibOwnsEventQueue
  BY OwnerStays DEF XlibOwnsEventQueue
<1>3. local[t].event = NoItem /\ NoItem.type # "error"
  BY DEF EInv, NextEventFree, NobodyReads, ReaderPlaces, NoItem
<1>4. /\ \A i \in 1..Len(xcb_events') :
            \E j \in 1..Len(xcb_events) : xcb_events'[i] = xcb_events[j]
      /\ \/ next_event' \in {next_event, NoItem}
         \/ \E j \in 1..Len(xcb_events) : next_event' = xcb_events[j]
  BY <1>3, EventsStay DEF EInv
<1> QED
  BY <1>1, <1>2, <1>3, <1>4 DEF ErrorsSetAside

\* poll_for_event does not return the error that answers a request as long as
\* the thread that made it is in _XReply: the request, or one before it, is
\* the first pending one.
LEMMA ErrorNotTaken ==
    ASSUME IInv, NEW u \in Threads, InReply(u), NEW item, ErrorFor(local[u].current, item)
    PROVE  ~InOrder(item)
<1> DEFINE s == local[u].current
<1>a. pending_requests \in Seq(PendingRequest) /\ Len(pending_requests) \in Nat
  BY LenProperties DEF IInv, TypeOK, RequestTypeOK
<1>1. PICK i \in 1..Len(pending_requests) : pending_requests[i].sequence = s
  BY DEF IInv, CurrentListed, Listed
<1>2. pending_requests # <<>>
  BY <1>a, <1>1
<1>3. Head(pending_requests) = pending_requests[1] /\ 1 \in 1..Len(pending_requests)
  BY <1>a, <1>2, PendingHead
<1>4. pending_requests[1] \in PendingRequest /\ pending_requests[i] \in PendingRequest
  BY <1>a, <1>3
<1>5. pending_requests[1].sequence \in Nat /\ s \in Nat
  BY <1>1, <1>4 DEF PendingRequest
<1>6. i = 1 \/ 1 < i
  BY <1>a
<1>7. pending_requests[1].sequence = s \/ pending_requests[1].sequence < s
  BY <1>1, <1>3, <1>6 DEF IInv, PendingSorted
<1>8. item.type = "error" /\ item.seq = s
  BY DEF ErrorFor
<1> HIDE DEF s
<1> QED
  BY <1>2, <1>3, <1>5, <1>7, <1>8 DEF InOrder

\* So it waits until _XReply looks for it.
LEMMA ErrorWaitsStep ==
    ASSUME EInv, NobodyReads, NEW t \in Threads, Thread(t),
           NEW u \in Threads, InReply(u), ErrorWaits(local[u].current),
           ReplyDone(t) => last_request_read # local[u].current
    PROVE  \A s : s = local[u].current => ErrorWaits(s)'
<1> SUFFICES ASSUME NEW s, s = local[u].current PROVE ErrorWaits(s)'
  OBVIOUS
<1>i. IInv /\ xcb_events \in Seq(Items)
  BY DEF EInv, IInv, TypeOK, XcbTypeOK
<1>n. ~ErrorFor(s, NoItem)
  BY DEF ErrorFor, NoItem
<1>1. CASE ErrorFor(s, next_event)
  <2>1. ~InOrder(next_event)
    BY <1>1, <1>i, ErrorNotTaken
  <2>2. next_event # NoItem /\ next_event.seq = s
    BY <1>1, <1>n DEF ErrorFor
  <2>3. next_event' = next_event
    BY <2>1, <2>2, QueueMoved
  <2> QED BY <1>1, <2>3 DEF ErrorWaits, ErrorFor
<1>2. ASSUME NEW i \in 1..Len(xcb_events), ErrorFor(s, xcb_events[i]) PROVE ErrorWaits(s)'
  <2>1. CASE xcb_events' = xcb_events
    BY <1>2, <2>1 DEF ErrorWaits, ErrorFor
  <2>2. CASE /\ xcb_events # <<>> /\ xcb_events' = Tail(xcb_events)
             /\ \/ next_event' = Head(xcb_events)
                \/ InOrder(Head(xcb_events))
    <3>1. /\ 1 \in 1..Len(xcb_events) /\ Head(xcb_events) = xcb_events[1]
          /\ Len(xcb_events') = Len(xcb_events) - 1 /\ Len(xcb_events) \in Nat
          /\ \A j \in 1..(Len(xcb_events) - 1) : xcb_events'[j] = xcb_events[j + 1]
      BY <1>i, <2>2, QueueTail
    <3>2. CASE i = 1
      <4>1. ~InOrder(Head(xcb_events))
        BY <1>2, <1>i, <3>1, <3>2, ErrorNotTaken
      <4> QED BY <1>2, <2>2, <3>1, <3>2, <4>1 DEF ErrorWaits, ErrorFor
    <3>3. CASE i # 1
      <4>1. i - 1 \in 1..(Len(xcb_events) - 1) /\ (i - 1) + 1 = i
        BY <3>1, <3>3
      <4>2. i - 1 \in 1..Len(xcb_events') /\ xcb_events'[i - 1] = xcb_events[i]
        BY <3>1, <4>1
      <4> QED BY <1>2, <4>2 DEF ErrorWaits, ErrorFor
    <3> QED BY <3>2, <3>3
  <2> QED BY <2>1, <2>2, QueueMoved
<1> QED
  BY <1>1, <1>2 DEF ErrorWaits

\* Where a step takes its thread when no call reads events.
LEMMA NobodyReadsStep ==
    ASSUME IInv, NobodyReads, NEW t \in Threads, Thread(t)
    PROVE  NobodyReads'
<1>t. TypeOK
  BY DEF IInv
<1>a. /\ pc \in [Threads -> Labels] /\ local \in [Threads -> Locals] /\ local[t] \in Locals
      /\ script[t] # <<>> => Head(script[t]) \in Calls \ {"NextEvent"}
  BY <1>t, HeadTailProperties DEF TypeOK, ThreadTypeOK, NobodyReads
<1>b. /\ pc[t] \notin ReaderPlaces /\ local[t].caller \in {"Flush", "Reply"}
      /\ local[t].resume # "ReadLoop" /\ local[t].back # "ReadLoop" /\ ~event_waiter
      /\ local[t].back \in BackLabels /\ local[t].resume \in ResumeLabels
      /\ local[t].done \in DoneLabels
  BY <1>a, LocalTypes DEF NobodyReads
<1>p. /\ (Calls \ {"NextEvent"}) \cap ReaderPlaces = {} /\ DoneLabels \cap ReaderPlaces = {}
      /\ "ReadLoop" \in ReaderPlaces /\ "XError" \notin ReaderPlaces
  BY DEF Calls, DoneLabels, ReaderPlaces
<1> DEFINE same == /\ local'[t].caller = local[t].caller
                   /\ local'[t].resume = local[t].resume
                   /\ local'[t].back = local[t].back
           goal == /\ pc'[t] \notin ReaderPlaces
                   /\ local'[t].caller \in {"Flush", "Reply"}
                   /\ local'[t].resume # "ReadLoop" /\ local'[t].back # "ReadLoop"
<1>1. ~NextEvent(t) /\ ~ReadLoop(t) /\ ~WaitForEvent(t) /\ ~GotEvent(t) /\ ~NoResponse(t)
      /\ ~TakeEvent(t)
  BY <1>b DEF ReaderPlaces, NextEvent, ReadLoop, WaitForEvent, GotEvent, NoResponse, TakeEvent,
     At, Outside
<1> SUFFICES goal
  <2>1. event_waiter' = event_waiter
    BY <1>1, WaiterFrame
  <2>2. script' \in [Threads -> Seq(Calls \ {"NextEvent"})]
    BY CallsStep DEF NobodyReads
  <2>3. \A u \in Threads : u # t => pc'[u] = pc[u] /\ local'[u] = local[u]
    BY OthersFrame
  <2> HIDE DEF same
  <2> QED BY <2>1, <2>2, <2>3 DEF NobodyReads
<1>s. same /\ pc'[t] \notin ReaderPlaces => goal
  BY <1>b
<1>u. local' = local => same
  OBVIOUS
<1>g. \A label : Goto(t, label) => pc'[t] = label
  BY <1>a DEF Goto
<1>h. ASSUME NEW item, NEW label, label \notin ReaderPlaces, HandleResponse(t, item, label)
      PROVE  goal
  <2>0. \/ pc'[t] = label /\ local'[t] = local[t]
        \/ pc'[t] = "XError" /\ local'[t] = [local[t] EXCEPT !.resume = label]
    BY <1>h, <1>t, PlaceFacts
  <2>1. CASE pc'[t] = label /\ local'[t] = local[t]
    BY <1>b, <1>h, <2>1
  <2>2. CASE pc'[t] = "XError" /\ local'[t] = [local[t] EXCEPT !.resume = label]
    <3>1. /\ local'[t].caller = local[t].caller /\ local'[t].resume = label
          /\ local'[t].back = local[t].back
      BY <1>a, <2>2 DEF Locals
    <3>2. label # "ReadLoop"
      BY <1>h, <1>p
    <3>3. pc'[t] \notin ReaderPlaces
      BY <1>p, <2>2
    <3> QED BY <1>b, <3>1, <3>2, <3>3
  <2> QED BY <2>0, <2>1, <2>2
<1>z. ASSUME NEW c, NEW label, label # "ReadLoop", SleepAt(t, c, label)
      PROVE  goal
  <2>1. pc'[t] = "Asleep" /\ local'[t] = [local[t] EXCEPT !.back = label]
    BY <1>t, <1>z, PlaceFacts
  <2>2. /\ local'[t].caller = local[t].caller /\ local'[t].resume = local[t].resume
        /\ local'[t].back = label
    BY <1>a, <2>1 DEF Locals
  <2> QED BY <1>b, <1>z, <2>1, <2>2 DEF ReaderPlaces
<1>x. ASSUME NEW label, label \notin ReaderPlaces, XFlush(t, label) PROVE goal
  <2>1. /\ pc'[t] \in {"Poll", label}
        /\ local'[t] = [local[t] EXCEPT !.caller = "Flush", !.done = label]
    BY <1>t, <1>x, PlaceFacts
  <2>2. /\ local'[t].caller = "Flush" /\ local'[t].resume = local[t].resume
        /\ local'[t].back = local[t].back
    BY <1>a, <2>1 DEF Locals
  <2> QED BY <1>b, <1>x, <2>1, <2>2 DEF ReaderPlaces
<1>l. /\ AfterResponse(t) = "Poll"
      /\ AfterNoResponse(t) \in {"FinishReply"} \cup DoneLabels
      /\ {"Poll", "FinishReply", "PollReply", "PollAgain"} \cap ReaderPlaces = {}
  BY <1>b, <1>t, LoopFacts DEF ReaderPlaces
<1>2. CASE LockDisplay(t)
  <2>1. local' = local /\ (pc' = pc \/ (script[t] # <<>> /\ Goto(t, Head(script[t]))))
    BY <1>2 DEF LockDisplay
  <2> QED BY <1>a, <1>b, <1>g, <1>p, <1>s, <2>1
<1>3. CASE UnlockDisplay(t)
  <2>1. same /\ pc'[t] = "Idle"
    BY <1>3, <1>a DEF UnlockDisplay, Goto, Locals
  <2> QED BY <1>s, <2>1 DEF ReaderPlaces
<1>4. CASE Resume(t)
  <2>1. same /\ pc'[t] = local[t].back
    BY <1>4, <1>a DEF Resume, Goto
  <2> QED BY <1>b, <1>s, <2>1 DEF ReaderPlaces, BackLabels
<1>5. CASE GetRequest(t)
  <2>1. same
    BY <1>5, <1>a, <1>u DEF GetRequest, Locals
  <2>2. pc'[t] \in {"Unlock", "XReply", "RoundTrip"}
    BY <1>5, <1>a DEF GetRequest, Goto, RequestCalls
  <2> QED BY <1>s, <2>1, <2>2 DEF ReaderPlaces
<1>6. CASE FlushFullBuffer(t)
  BY <1>6, <1>b, <1>x DEF FlushFullBuffer
<1>7. CASE XReply(t)
  <2>1. same /\ pc'[t] = "ReplyLoop"
    BY <1>7, <1>a DEF XReply, Goto, Locals
  <2> QED BY <1>s, <2>1 DEF ReaderPlaces
<1>8. CASE ReplyLoop(t)
  <2>1. CASE SleepAt(t, "reply_notify", "ReplyLoop")
    BY <1>z, <2>1
  <2>2. CASE local' = [local EXCEPT ![t].req = FirstPending.sequence] /\ Goto(t, "WaitForReply")
    <3>1. same /\ pc'[t] = "WaitForReply"
      BY <1>a, <2>2 DEF Goto, Locals
    <3> QED BY <1>s, <3>1 DEF ReaderPlaces
  <2> QED BY <1>8, <2>1, <2>2 DEF ReplyLoop
<1>9. CASE WaitForReply(t)
  <2> DEFINE x == IF FirstReply(local[t].req).type = "reply" THEN FirstReply(local[t].req)
                  ELSE NoItem
             y == IF FirstReply(local[t].req).type = "error" THEN FirstReply(local[t].req)
                  ELSE NoItem
  <2>1. local' = [local EXCEPT ![t] = [local[t] EXCEPT !.response = x, !.error = y]]
        /\ pc'[t] = "GotReply"
    BY <1>9, <1>a DEF WaitForReply, Goto
  <2> HIDE DEF x, y
  <2>2. same
    BY <1>a, <2>1 DEF Locals
  <2> QED BY <1>s, <2>1, <2>2 DEF ReaderPlaces
<1>10. CASE GotReply(t)
  <2>1. CASE local' = [local EXCEPT ![t].caller = "Reply"] /\ Goto(t, "Poll")
    <3>1. local'[t].caller = "Reply" /\ local'[t].resume = local[t].resume
          /\ local'[t].back = local[t].back
      BY <1>a, <2>1 DEF Locals
    <3> QED BY <1>b, <1>g, <2>1, <3>1 DEF ReaderPlaces
  <2>2. CASE UNCHANGED local /\ Goto(t, "FinishReply")
    BY <1>g, <1>s, <2>2 DEF ReaderPlaces
  <2> QED BY <1>10, <2>1, <2>2 DEF GotReply
<1>11. CASE FinishReply(t)
  <2>1. CASE Goto(t, "ReplyDone") /\ UNCHANGED local
    BY <1>g, <1>s, <2>1 DEF ReaderPlaces
  <2>2. ASSUME NEW item, HandleResponse(t, item, "ReplyLoop") PROVE goal
    BY <1>h, <2>2 DEF ReaderPlaces
  <2> QED BY <1>11, <2>1, <2>2 DEF FinishReply
<1>12. CASE ReplyDone(t)
  <2>1. CASE Goto(t, "Unlock") /\ UNCHANGED local
    BY <1>g, <1>s, <2>1 DEF ReaderPlaces
  <2>2. ASSUME NEW item, HandleResponse(t, item, "Unlock") PROVE goal
    BY <1>h, <2>2 DEF ReaderPlaces
  <2> QED BY <1>12, <2>1, <2>2 DEF ReplyDone
<1>13. CASE Poll(t) \/ PollReply(t) \/ PollAgain(t)
  <2>1. TakeNextEvent(t, AfterResponse(t)) => goal
    BY <1>h, <1>l DEF TakeNextEvent
  <2>2. ASSUME NEW item, Answer(t, item) PROVE goal
    <3>1. CASE Goto(t, "Poll") /\ UNCHANGED local
      BY <1>g, <1>l, <1>s, <3>1
    <3>2. CASE HandleResponse(t, item, AfterResponse(t))
      BY <1>h, <1>l, <3>2
    <3> QED BY <2>2, <3>1, <3>2 DEF Answer
  <2>3. ASSUME NEW label \in {"FinishReply", "PollReply", "PollAgain"} \cup DoneLabels,
               Goto(t, label), same
        PROVE  goal
    BY <1>g, <1>l, <1>p, <1>s, <2>3
  <2>4. ASSUME NEW item, local' = [local EXCEPT ![t].polled = item] PROVE same
    BY <1>a, <2>4 DEF Locals
  <2>5. CASE Poll(t)
    BY <1>l, <1>u, <2>1, <2>2, <2>3, <2>5 DEF Poll
  <2>6. CASE PollReply(t)
    BY <1>l, <1>u, <2>1, <2>3, <2>4, <2>6 DEF PollReply
  <2>7. CASE PollAgain(t)
    BY <2>1, <2>2, <2>7 DEF PollAgain
  <2> QED BY <1>13, <2>5, <2>6, <2>7
<1>14. CASE XError(t)
  <2>1. CASE SleepAt(t, "cv", "XError")
    BY <1>z, <2>1
  <2>2. CASE Goto(t, "UserErrorHandler") /\ UNCHANGED local
    BY <1>g, <1>s, <2>2 DEF ReaderPlaces
  <2> QED BY <1>14, <2>1, <2>2 DEF XError
<1>15. CASE UserErrorHandler(t)
  <2>1. same /\ pc'[t] = local[t].resume
    BY <1>15, <1>a DEF UserErrorHandler, Goto
  <2> QED BY <1>b, <1>s, <2>1 DEF ReaderPlaces, ResumeLabels
<1>16. CASE EventsQueued(t)
  <2>1. CASE XFlush(t, "Unlock")
    BY <1>x, <2>1 DEF ReaderPlaces
  <2>2. CASE Goto(t, "Unlock") /\ UNCHANGED local
    BY <1>g, <1>s, <2>2 DEF ReaderPlaces
  <2> QED BY <1>16, <2>1, <2>2 DEF EventsQueued
<1>17. CASE XLockDisplay(t) \/ XUnlockDisplay(t)
  <2>1. local' = local /\ Goto(t, "Idle")
    BY <1>17 DEF XLockDisplay, XUnlockDisplay
  <2> QED BY <1>g, <1>s, <2>1 DEF ReaderPlaces
<1> QED
  BY <1>1, <1>2, <1>3, <1>4, <1>5, <1>6, <1>7, <1>8, <1>9, <1>10, <1>11, <1>12, <1>13, <1>14,
     <1>15, <1>16, <1>17 DEF Thread

\* None of the failures happens.
LEMMA NobodyDies ==
    ASSUME NobodyReads, AnswersKept, fatal = "none", NEW t \in Threads, Thread(t),
           TypeOK', fatal' # "sequence_assert"
    PROVE  fatal' = "none"
<1>a. ~event_waiter /\ pc[t] \notin ReaderPlaces
  BY DEF NobodyReads
<1>1. CASE Poll(t) \/ PollReply(t) \/ PollAgain(t)
  BY <1>1, <1>a DEF Poll, PollReply, PollAgain, EventWaiterAssert
<1>2. CASE ReplyDone(t)
  <2> DEFINE mine == next_event.type = "error" /\ next_event.seq = last_request_read
             error == IF mine THEN next_event ELSE local[t].error
  <2>1. AnswerAtEnd(t)
    BY <1>2 DEF ReplyDone, At, AnswersKept
  <2>2. local[t].response # NoItem \/ error # NoItem
    BY <2>1 DEF AnswerAtEnd, Replied, ErrorFor, NoItem
  <2> QED BY <1>2, <2>2 DEF ReplyDone
<1>3. ~NextEvent(t) /\ ~ReadLoop(t) /\ ~WaitForEvent(t) /\ ~GotEvent(t) /\ ~NoResponse(t)
      /\ ~TakeEvent(t)
  BY <1>a DEF ReaderPlaces, NextEvent, ReadLoop, WaitForEvent, GotEvent, NoResponse, TakeEvent,
     At, Outside
<1>4. CASE XReply(t) \/ FinishReply(t)
  BY <1>4 DEF XReply, FinishReply
<1>5. CASE LockDisplay(t) \/ UnlockDisplay(t) \/ Resume(t) \/ GetRequest(t)
           \/ FlushFullBuffer(t) \/ ReplyLoop(t) \/ WaitForReply(t) \/ GotReply(t)
  BY <1>5 DEF LockDisplay, UnlockDisplay, Resume, GetRequest, FlushFullBuffer,
     ReplyLoop, WaitForReply, GotReply
<1>6. CASE XError(t) \/ UserErrorHandler(t) \/ EventsQueued(t) \/ XLockDisplay(t)
           \/ XUnlockDisplay(t)
  BY <1>6 DEF XError, UserErrorHandler, EventsQueued, XLockDisplay, XUnlockDisplay
<1> QED
  BY <1>1, <1>2, <1>3, <1>4, <1>5, <1>6 DEF Thread

\* A thread that goes on in _XReply has its answer if it had it before,
\* apart from the steps that are about just that.
LEMMA AnswerPlace ==
    ASSUME IInv, NEW t \in Threads, Thread(t), InReply(t)',
           ~XReply(t), ~ReplyLoop(t), ~WaitForReply(t), ~FinishReply(t)
    PROVE  /\ InReply(t) /\ (HasAnswer(t)' <=> HasAnswer(t))
           /\ local'[t].current = local[t].current
           /\ local'[t].response = local[t].response
           /\ local'[t].error = local[t].error
<1>t. TypeOK
  BY DEF IInv
<1>a. /\ pc \in [Threads -> Labels] /\ local \in [Threads -> Locals] /\ local[t] \in Locals
      /\ local[t].back \in BackLabels /\ local[t].resume \in ResumeLabels
  BY <1>t, LocalTypes DEF TypeOK, ThreadTypeOK
<1>k. KeepsPlace(t)
  BY PlaceStep
<1>1. InReply(t) /\ local'[t].current = local[t].current
  BY <1>k DEF KeepsPlace
<1>2. local'[t].response = local[t].response /\ local'[t].error = local[t].error
  BY HeldStep DEF HeldMoved
\* Only a thread at xcb_wait_for_reply64 is at that place.
<1>3. Place(t) # "WaitForReply"
  <2>1. pc[t] # "WaitForReply"
    <3>1. /\ ~LockDisplay(t) \/ pc[t] = "Idle"
          /\ ~UnlockDisplay(t) \/ pc[t] = "Unlock"
          /\ ~Resume(t) \/ pc[t] = "Asleep"
          /\ ~GetRequest(t) \/ pc[t] \in RequestCalls
          /\ ~FlushFullBuffer(t) \/ pc[t] \in RequestCalls
          /\ ~GotReply(t) \/ pc[t] = "GotReply"
          /\ ~ReplyDone(t) \/ pc[t] = "ReplyDone"
          /\ ~Poll(t) \/ pc[t] = "Poll"
          /\ ~PollReply(t) \/ pc[t] = "PollReply"
          /\ ~PollAgain(t) \/ pc[t] = "PollAgain"
      BY DEF LockDisplay, UnlockDisplay, Resume, GetRequest, FlushFullBuffer, GotReply,
         ReplyDone, Poll, PollReply, PollAgain, At, Outside
    <3>2. /\ ~XError(t) \/ pc[t] = "XError"
          /\ ~UserErrorHandler(t) \/ pc[t] = "UserErrorHandler"
          /\ ~NextEvent(t) \/ pc[t] = "NextEvent"
          /\ ~ReadLoop(t) \/ pc[t] = "ReadLoop"
          /\ ~WaitForEvent(t) \/ pc[t] = "WaitForEvent"
          /\ ~GotEvent(t) \/ pc[t] = "GotEvent"
          /\ ~NoResponse(t) \/ pc[t] = "NoResponse"
          /\ ~TakeEvent(t) \/ pc[t] = "TakeEvent"
          /\ ~EventsQueued(t) \/ pc[t] \in {"Flush", "Pending"}
          /\ ~XLockDisplay(t) \/ pc[t] = "XLockDisplay"
          /\ ~XUnlockDisplay(t) \/ pc[t] = "XUnlockDisplay"
      BY DEF XError, UserErrorHandler, NextEvent, ReadLoop, WaitForEvent, GotEvent, NoResponse,
         TakeEvent, EventsQueued, XLockDisplay, XUnlockDisplay, At, Outside
    <3> QED BY <3>1, <3>2 DEF Thread, RequestCalls
  <2> QED BY <1>a, <2>1 DEF Place, ResumeLabels, BackLabels
<1>4. HasAnswer(t)' => HasAnswer(t)
  BY <1>1, <1>3, <1>k DEF HasAnswer, KeepsPlace
\* And only _XReply's own loop sends a thread there.
<1>5. ASSUME Claiming(t) PROVE Claiming(t)' /\ Place(t)' # "WaitForReply"
  <2>c. /\ Place(t) \in {"GotReply", "FinishReply", "Poll", "PollReply", "PollAgain"}
        /\ Place(t) \in {"Poll", "PollReply", "PollAgain"} => local[t].caller = "Reply"
    BY <1>3, <1>5 DEF Claiming
  <2>p. \/ pc[t] = Place(t)
        \/ pc[t] \in {"XError", "UserErrorHandler"} /\ Place(t) = local[t].resume
        \/ pc[t] = "Asleep" /\ local[t].back = "XError" /\ Place(t) = local[t].resume
    BY <1>a, <2>c DEF Place, BackLabels
  <2>r. Place(t) = local[t].resume => Place(t) = "Poll"
    BY <1>a, <2>c DEF ResumeLabels
  <2>s. ASSUME local'[t].caller = local[t].caller, Place(t)' = Place(t)
        PROVE  Claiming(t)' /\ Place(t)' # "WaitForReply"
    BY <1>3, <1>5, <2>s DEF Claiming
  <2>g. ASSUME pc'[t] \in {"Poll", "PollReply", "PollAgain"}, local'[t].caller = "Reply"
        PROVE  Claiming(t)' /\ Place(t)' # "WaitForReply"
    BY <2>g DEF Claiming, Place
  <2>f. pc'[t] = "FinishReply" => Claiming(t)' /\ Place(t)' # "WaitForReply"
    BY DEF Claiming, Place
  <2>1. CASE GotReply(t)
    <3>1. CASE local' = [local EXCEPT ![t].caller = "Reply"] /\ Goto(t, "Poll")
      <4>1. local'[t].caller = "Reply" /\ pc'[t] = "Poll"
        BY <1>a, <3>1 DEF Goto, Locals
      <4> QED BY <2>g, <4>1
    <3>2. CASE Goto(t, "FinishReply")
      BY <1>a, <2>f, <3>2 DEF Goto
    <3> QED BY <2>1, <3>1, <3>2 DEF GotReply
  <2>2. CASE Poll(t) \/ PollReply(t) \/ PollAgain(t)
    <3>0. pc[t] \in {"Poll", "PollReply", "PollAgain"}
      BY <2>2 DEF Poll, PollReply, PollAgain, At
    <3>1. local[t].caller = "Reply"
      BY <2>c, <2>p, <3>0
    <3>2. AfterResponse(t) = "Poll" /\ AfterNoResponse(t) = "FinishReply"
      BY <1>t, <3>1, LoopFacts
    <3>h. ASSUME NEW item, HandleResponse(t, item, "Poll")
          PROVE  Claiming(t)' /\ Place(t)' # "WaitForReply"
      <4>1. CASE pc'[t] = "Poll" /\ local'[t] = local[t]
        BY <2>g, <3>1, <4>1
      <4>2. CASE pc'[t] = "XError" /\ local'[t] = [local[t] EXCEPT !.resume = "Poll"]
        <5>1. local'[t].resume = "Poll" /\ local'[t].caller = "Reply"
          BY <1>a, <3>1, <4>2 DEF Locals
        <5> QED BY <4>2, <5>1 DEF Claiming, Place
      <4> QED BY <1>t, <3>h, <4>1, <4>2, PlaceFacts
    <3>3. ASSUME NEW item, Answer(t, item)
          PROVE  Claiming(t)' /\ Place(t)' # "WaitForReply"
      <4>1. CASE Goto(t, "Poll") /\ UNCHANGED local
        BY <1>a, <2>g, <3>1, <4>1 DEF Goto
      <4> QED BY <3>2, <3>3, <3>h, <4>1 DEF Answer
    <3>4. TakeNextEvent(t, AfterResponse(t)) => Claiming(t)' /\ Place(t)' # "WaitForReply"
      BY <3>2, <3>h DEF TakeNextEvent
    <3>5. ASSUME NEW label \in {"PollReply", "PollAgain", "FinishReply"}, Goto(t, label),
                 \/ UNCHANGED local
                 \/ local' = [local EXCEPT ![t].polled =
                                 FirstReply(Head(pending_requests).sequence)]
          PROVE  Claiming(t)' /\ Place(t)' # "WaitForReply"
      <4>1. local'[t].caller = "Reply"
        BY <1>a, <3>1, <3>5 DEF Locals
      <4>2. pc'[t] = label
        BY <1>a, <3>5 DEF Goto
      <4> QED BY <2>f, <2>g, <4>1, <4>2
    <3>6. CASE Poll(t)
      BY <3>2, <3>3, <3>4, <3>5, <3>6 DEF Poll
    <3>7. CASE PollReply(t)
      BY <3>2, <3>4, <3>5, <3>7 DEF PollReply
    <3>8. CASE PollAgain(t)
      BY <3>3, <3>4, <3>8 DEF PollAgain
    <3> QED BY <2>2, <3>6, <3>7, <3>8
  <2>3. CASE XError(t)
    <3>1. pc[t] = "XError" /\ Place(t) = local[t].resume
      BY <2>3, <2>p, <2>c DEF XError, At
    <3>2. CASE SleepAt(t, "cv", "XError")
      <4>1. pc'[t] = "Asleep" /\ local'[t] = [local[t] EXCEPT !.back = "XError"]
        BY <1>t, <3>2, PlaceFacts
      <4>2. /\ local'[t].back = "XError" /\ local'[t].resume = local[t].resume
            /\ local'[t].caller = local[t].caller
        BY <1>a, <4>1 DEF Locals
      <4>3. Place(t)' = Place(t)
        BY <3>1, <4>1, <4>2 DEF Place
      <4> QED BY <2>s, <4>2, <4>3
    <3>3. CASE Goto(t, "UserErrorHandler") /\ UNCHANGED local
      <4>1. Place(t)' = Place(t)
        BY <1>a, <3>1, <3>3 DEF Place, Goto
      <4> QED BY <2>s, <3>3, <4>1
    <3> QED BY <2>3, <3>2, <3>3 DEF XError
  <2>4. CASE UserErrorHandler(t) \/ Resume(t)
    <3>1. /\ local' = local
          /\ \/ pc[t] = "UserErrorHandler" /\ pc'[t] = local[t].resume
             \/ pc[t] = "Asleep" /\ pc'[t] = local[t].back
      BY <1>a, <2>4 DEF UserErrorHandler, Resume, Outside, Goto
    <3>2. Place(t)' = Place(t)
      BY <1>a, <2>c, <2>p, <2>r, <3>1 DEF Place
    <3> QED BY <2>s, <3>1, <3>2
  <2>5. GotReply(t) \/ Poll(t) \/ PollReply(t) \/ PollAgain(t) \/ XError(t)
        \/ UserErrorHandler(t) \/ Resume(t)
    <3>1. pc[t] \in {"GotReply", "FinishReply", "Poll", "PollReply", "PollAgain", "XError",
                     "UserErrorHandler", "Asleep"}
      BY <2>c, <2>p
    <3>2. /\ ~LockDisplay(t) /\ ~UnlockDisplay(t) /\ ~GetRequest(t) /\ ~FlushFullBuffer(t)
          /\ ~ReplyDone(t)
      BY <3>1 DEF LockDisplay, UnlockDisplay, GetRequest, FlushFullBuffer, ReplyDone, At,
         Outside, RequestCalls
    <3>3. /\ ~NextEvent(t) /\ ~ReadLoop(t) /\ ~WaitForEvent(t) /\ ~GotEvent(t) /\ ~NoResponse(t)
          /\ ~TakeEvent(t) /\ ~EventsQueued(t) /\ ~XLockDisplay(t) /\ ~XUnlockDisplay(t)
      BY <3>1 DEF NextEvent, ReadLoop, WaitForEvent, GotEvent, NoResponse, TakeEvent,
         EventsQueued, XLockDisplay, XUnlockDisplay, At, Outside
    <3> QED BY <3>2, <3>3 DEF Thread
  <2> QED BY <2>1, <2>2, <2>3, <2>4, <2>5
<1>6. HasAnswer(t) => HasAnswer(t)'
  BY <1>1, <1>5, <1>k DEF HasAnswer, KeepsPlace
<1> QED
  BY <1>1, <1>2, <1>4, <1>6

\* It comes to the end of the loop without having looked for events, because
\* XCB owns the event queue, or from a poll_for_event that found none to take.
LEMMA FinishReached ==
    ASSUME IInv, NobodyReads, NEW t \in Threads, Thread(t), pc'[t] = "FinishReply"
    PROVE  /\ Claiming(t) /\ Place(t) # "WaitForReply" /\ local'[t].req = local[t].req
           /\ ~XlibOwnsEventQueue \/ LeaveNextEvent
           /\ next_event' = next_event \/ LeaveNextEvent
<1>t. TypeOK
  BY DEF IInv
<1>a. /\ pc \in [Threads -> Labels] /\ local \in [Threads -> Locals]
      /\ local[t].back \in BackLabels /\ local[t].resume \in ResumeLabels
      /\ AfterNoResponse(t) \in {"FinishReply", "NoResponse", "TakeEvent"} \cup DoneLabels
      /\ AfterResponse(t) = "Poll"
      /\ script[t] # <<>> => Head(script[t]) \in Calls
      /\ ~ReaderBlocked /\ pc[t] \notin ReaderPlaces
  BY <1>t, LocalTypes, HelperTypes, HeadTailProperties, LoopFacts
     DEF TypeOK, ThreadTypeOK, NobodyReads, ReaderBlocked
<1>2. /\ ~LockDisplay(t) /\ ~UnlockDisplay(t) /\ ~Resume(t) /\ ~GetRequest(t)
      /\ ~FlushFullBuffer(t)
  BY <1>a DEF LockDisplay, UnlockDisplay, Resume, GetRequest, FlushFullBuffer, XFlush, Goto,
     Outside, Calls, BackLabels, RequestCalls
<1>3. ~XReply(t) /\ ~ReplyLoop(t) /\ ~WaitForReply(t) /\ ~FinishReply(t)
  BY <1>a DEF XReply, ReplyLoop, WaitForReply, FinishReply, HandleResponse, SleepAt, Goto
<1>4. ~ReplyDone(t) /\ ~PollAgain(t)
  BY <1>a DEF ReplyDone, PollAgain, TakeNextEvent, Answer, HandleResponse, Goto
<1>5. /\ ~XError(t) /\ ~UserErrorHandler(t) /\ ~NextEvent(t) /\ ~ReadLoop(t)
      /\ ~WaitForEvent(t) /\ ~GotEvent(t)
  BY <1>a DEF XError, UserErrorHandler, NextEvent, ReadLoop, WaitForEvent, GotEvent,
     SleepAt, Goto, ResumeLabels
<1>6. ~NoResponse(t) /\ ~TakeEvent(t) /\ ~EventsQueued(t) /\ ~XLockDisplay(t) /\ ~XUnlockDisplay(t)
  BY <1>a DEF NoResponse, At, TakeEvent, EventsQueued, XFlush, XLockDisplay, XUnlockDisplay,
     SleepAt, Goto, ReaderPlaces
<1>7. GotReply(t) \/ Poll(t) \/ PollReply(t)
  BY <1>2, <1>3, <1>4, <1>5, <1>6 DEF Thread
<1>8. Claiming(t) /\ local'[t].req = local[t].req
  <2>1. Claiming(t)'
    BY DEF Claiming, Place
  <2> QED BY <1>3, <2>1, PlaceStep DEF KeepsPlace
<1>9. Place(t) # "WaitForReply"
  BY <1>7 DEF GotReply, Poll, PollReply, At, Outside, Place
<1>10. CASE GotReply(t)
  BY <1>a, <1>8, <1>9, <1>10 DEF GotReply, Goto, displayVars
<1>11. CASE Poll(t) \/ PollReply(t)
  <2>1. LeaveNextEvent
    BY <1>a, <1>11 DEF Poll, PollReply, TakeNextEvent, HandleResponse, Goto
  <2> QED BY <1>8, <1>9, <2>1
<1> QED
  BY <1>7, <1>10, <1>11

\* It leaves the error that answers its request as the next event.
LEMMA HeadErrorLeft ==
    ASSUME IInv, EventsOrdered, LeaveNextEvent, NEW t \in Threads, Claiming(t),
           ErrorWaits(local[t].req)
    PROVE  ErrorFor(local[t].req, next_event')
<1> DEFINE s == local[t].req
<1>a. xcb_events \in Seq(Items) /\ next_event \in Items /\ Len(xcb_events) \in Nat
  BY LenProperties DEF IInv, TypeOK, XcbTypeOK, ResponseTypeOK
<1>1. pending_requests # <<>> /\ Head(pending_requests).sequence = s
  BY DEF IInv, ClaimIsHead
<1>2. next_event' = NextQueuedEvent /\ ~InOrder(NextQueuedEvent)
  BY DEF LeaveNextEvent
<1>3. CASE ErrorFor(s, next_event)
  <2>1. next_event # NoItem
    BY <1>3 DEF ErrorFor, NoItem
  <2> QED BY <1>2, <1>3, <2>1, NextQueuedFacts
<1>4. ASSUME NEW i \in 1..Len(xcb_events), ErrorFor(s, xcb_events[i])
      PROVE  ErrorFor(s, next_event')
  <2>1. xcb_events # <<>> /\ 1 \in 1..Len(xcb_events) /\ Head(xcb_events) = xcb_events[1]
    <3>1. xcb_events # <<>>
      BY <1>a, <1>4
    <3> QED BY <1>a, <3>1, QueueTail
  <2>2. xcb_events[i].seq = s /\ xcb_events[i].type = "error" /\ s \in Nat
    BY <1>a, <1>4, ItemFacts DEF ErrorFor
  <2>3. i = 1 \/ 1 < i
    BY <1>a
  <2>4. xcb_events[1].seq <= s
    BY <2>1, <2>2, <2>3 DEF EventsOrdered
  <2>5. next_event # NoItem => next_event.seq <= s
    BY <2>2 DEF EventsOrdered
  <2>6. /\ NextQueuedEvent # NoItem /\ NextQueuedEvent.seq <= s
        /\ NextQueuedEvent \in Items
    BY <1>a, <2>1, <2>4, <2>5, NextQueuedFacts DEF EventsOrdered
  <2>7. NextQueuedEvent.seq \in Nat
    BY <2>6, ItemFacts
  <2>8. NextQueuedEvent.type = "error" /\ NextQueuedEvent.seq = s
    BY <1>1, <1>2, <2>2, <2>6, <2>7 DEF InOrder
  <2> QED BY <1>2, <2>8 DEF ErrorFor
<1> QED
  BY <1>3, <1>4 DEF ErrorWaits

\* What AnswersKept says of a thread in _XReply, in three cases.
LEMMA AnswerKeptParts ==
    \A t \in Threads : LET s == local[t].current IN
       AnswerKept(t) <=>
          /\ s \in 1..last_flushed /\ issued[s] = "reply"
          /\ \/ ErrorWaits(s)
             \/ HasAnswer(t) /\ Replied(t, s)
             \/ ~HasAnswer(t) /\ Coming(s)
          /\ pc[t] = "FinishReply" /\ local[t].req = s =>
                Replied(t, s) \/ ErrorFor(s, next_event)
BY DEF AnswerKept, Coming

\* A step takes neither the reply to come, nor the error among the events,
\* away from a thread in _XReply, apart from its own wait for the reply.
LEMMA AnswerStays ==
    ASSUME EInv, NobodyReads, AnswersKept, NEW t \in Threads, Thread(t),
           NEW u \in Threads, InReply(u), NEW s, s = local[u].current
    PROVE  /\ s \in 1..last_flushed' /\ issued'[s] = "reply"
           /\ ErrorWaits(s) => ErrorWaits(s)'
           /\ Coming(s) /\ (WaitForReply(t) => local[t].req # s) => Coming(s)'
<1>i. IInv
  BY DEF EInv
<1>1. s \in 1..last_flushed' /\ issued'[s] = "reply"
  BY <1>i, RequestStays DEF AnswersKept, AnswerKept
<1>2. ASSUME ErrorWaits(s) PROVE ErrorWaits(s)'
  <2>1. ReplyDone(t) => last_request_read # s
    BY DEF ReplyDone, At, AnswersKept, AnswerAtEnd
  <2> QED BY <1>2, <2>1, ErrorWaitsStep
<1>3. ASSUME Coming(s), WaitForReply(t) => local[t].req # s PROVE Coming(s)'
  <2>1. PollReply(t) => Head(pending_requests).sequence # s
    <3> SUFFICES ASSUME PollReply(t) PROVE Head(pending_requests).sequence # s
      OBVIOUS
    <3>1. Unclaimed
      BY <1>i DEF PollReply, At, IInv, AtPlaces
    <3> QED BY <1>i, <3>1, NotPolled
  <2> QED BY <1>i, <1>3, <2>1, ComingStep
<1> QED
  BY <1>1, <1>2, <1>3

\* Another thread's answer stays where it is.
LEMMA OthersAnswers ==
    ASSUME EInv, NobodyReads, AnswersKept, NEW t \in Threads, Thread(t),
           NEW u \in Threads, u # t
    PROVE  /\ InReply(u)' => AnswerKept(u)'
           /\ pc'[u] = "ReplyDone" => AnswerAtEnd(u)'
           /\ pc'[u] = "XReply" => issued'[Len(issued')] = "reply"
<1>i. IInv
  BY DEF EInv
<1>g. \A v \in Threads : v # t =>
         /\ pc'[v] = pc[v] /\ local'[v] = local[v] /\ Place(v)' = Place(v)
         /\ (Claiming(v)' <=> Claiming(v)) /\ (InReply(v)' <=> InReply(v))
         /\ (HasAnswer(v)' <=> HasAnswer(v))
  BY <1>i, OthersFrame, OthersKeep DEF HasAnswer
<1> DEFINE s == local[u].current
<1>r. Replied(u, s) => Replied(u, s)'
  BY <1>g DEF Replied, ErrorFor
\* At these places it has the lock.
<1>l. ASSUME pc[u] \in {"FinishReply", "ReplyDone", "XReply"}
      PROVE  UNCHANGED displayVars /\ mutex = u
  <2>1. mutex = u /\ u # NoThread
    BY <1>i, <1>l, NoThreadAssumption DEF IInv, LockHeld, Inside
  <2> QED BY <1>i, <2>1, LockedOut
<1>1. ASSUME InReply(u)' PROVE AnswerKept(u)'
  <2>1. InReply(u) /\ local'[u] = local[u] /\ (HasAnswer(u)' <=> HasAnswer(u)) /\ pc'[u] = pc[u]
    BY <1>1, <1>g
  <2>2. /\ \/ ErrorWaits(s)
           \/ HasAnswer(u) /\ Replied(u, s)
           \/ ~HasAnswer(u) /\ Coming(s)
        /\ pc[u] = "FinishReply" /\ local[u].req = s => Replied(u, s) \/ ErrorFor(s, next_event)
    BY <2>1, AnswerKeptParts DEF AnswersKept
  <2>3. WaitForReply(t) => local[t].req # s
    <3> SUFFICES ASSUME WaitForReply(t) PROVE local[t].req # s
      OBVIOUS
    <3>1. Claiming(t) /\ InReply(t)
      BY DEF WaitForReply, Outside, Claiming, InReply, Place
    <3> QED BY <1>i, <2>1, <3>1 DEF IInv, CurrentDistinct
  <2>4. \A x : x = s =>
           /\ x \in 1..last_flushed' /\ issued'[x] = "reply"
           /\ ErrorWaits(x) => ErrorWaits(x)'
           /\ Coming(x) => Coming(x)'
    BY <2>1, <2>3, AnswerStays
  <2>5. pc[u] = "FinishReply" => next_event' = next_event
    BY <1>l DEF displayVars
  <2>6. local'[u].current = s /\ s \in 1..last_flushed' /\ issued'[s] = "reply"
    BY <2>1, <2>4
  <2>7. \A x : x = s => \/ ErrorWaits(x)'
                        \/ HasAnswer(u)' /\ Replied(u, x)'
                        \/ ~HasAnswer(u)' /\ Coming(x)'
    BY <1>r, <2>1, <2>2, <2>4 DEF Replied, ErrorFor
  <2>8. pc'[u] = "FinishReply" /\ local'[u].req = s => Replied(u, s)' \/ ErrorFor(s, next_event')
    BY <1>r, <2>1, <2>2, <2>5
  <2> QED
    BY <2>1, <2>6, <2>7, <2>8 DEF AnswerKept, Coming, Unanswered, ErrorWaits, Replied, ErrorFor
<1>2. ASSUME pc'[u] = "ReplyDone" PROVE AnswerAtEnd(u)'
  <2>1. pc[u] = "ReplyDone" /\ AnswerAtEnd(u) /\ local'[u] = local[u]
    BY <1>2, <1>g DEF AnswersKept
  <2>2. /\ next_event' = next_event /\ last_request_read' = last_request_read /\ mutex = u
    BY <1>l, <2>1 DEF displayVars
  <2>3. ~XReply(t) /\ ~ReplyLoop(t)
    BY <2>2 DEF XReply, ReplyLoop, At
  <2>4. \A v \in Threads : InReply(v)' => InReply(v) /\ local'[v].current = local[v].current
    BY <1>i, <1>g, <2>3, PlaceStep DEF KeepsPlace
  <2>5. \A v \in Threads : InReply(v)' => local'[v].current # s
    BY <2>1, <2>4 DEF AnswerAtEnd
  <2> QED BY <1>r, <2>1, <2>2, <2>5 DEF AnswerAtEnd, Replied, ErrorFor
<1>3. ASSUME pc'[u] = "XReply" PROVE issued'[Len(issued')] = "reply"
  <2>1. pc[u] = "XReply" /\ issued[Len(issued)] = "reply"
    BY <1>3, <1>g DEF AnswersKept
  <2>2. issued' = issued
    BY <1>l, <2>1 DEF displayVars
  <2> QED BY <2>1, <2>2
<1> QED
  BY <1>1, <1>2, <1>3

\* And so does a thread's own, until it returns from _XReply with it.
LEMMA OwnAnswer ==
    ASSUME EInv, NumbersRead, NobodyReads, EventsOrdered, ErrorsSetAside, AnswersKept,
           NEW t \in Threads, Thread(t)
    PROVE  /\ InReply(t)' => AnswerKept(t)'
           /\ pc'[t] = "ReplyDone" => AnswerAtEnd(t)'
           /\ pc'[t] = "XReply" => issued'[Len(issued')] = "reply"
<1>i. IInv /\ TypeOK
  BY DEF EInv, IInv
<1>a. /\ pc \in [Threads -> Labels] /\ local \in [Threads -> Locals] /\ local[t] \in Locals
      /\ issued \in Seq({"void", "reply"}) /\ Len(issued) \in Nat
      /\ request_read \in Nat /\ last_flushed \in 0..Len(issued)
      /\ xcb_replies \in SUBSET Items
  BY <1>i, LenProperties DEF TypeOK, ThreadTypeOK, RequestTypeOK, XcbTypeOK
<1> DEFINE s == local[t].current
<1>k. InReply(t) =>
         /\ s \in 1..last_flushed
         /\ \/ ErrorWaits(s)
            \/ HasAnswer(t) /\ Replied(t, s)
            \/ ~HasAnswer(t) /\ Coming(s)
         /\ pc[t] = "FinishReply" /\ local[t].req = s => Replied(t, s) \/ ErrorFor(s, next_event)
  BY AnswerKeptParts DEF AnswersKept
<1>e. InReply(t) =>
         \A x : x = s =>
            /\ x \in 1..last_flushed' /\ issued'[x] = "reply"
            /\ ErrorWaits(x) => ErrorWaits(x)'
            /\ Coming(x) /\ (WaitForReply(t) => local[t].req # x) => Coming(x)'
  BY AnswerStays
\* What is to be shown.
<1>q. ASSUME NEW x, x = local'[t].current, x \in 1..last_flushed', issued'[x] = "reply",
             \/ ErrorWaits(x)'
             \/ HasAnswer(t)' /\ Replied(t, x)'
             \/ ~HasAnswer(t)' /\ Coming(x)',
             pc'[t] = "FinishReply" /\ local'[t].req = x =>
                Replied(t, x)' \/ ErrorFor(x, next_event')
      PROVE  AnswerKept(t)'
  BY <1>q DEF AnswerKept, Coming, Unanswered, ErrorWaits, Replied, ErrorFor
<1>1. ASSUME InReply(t)' PROVE AnswerKept(t)'
  <2>1. CASE XReply(t)
    <3>0. pc[t] = "XReply" /\ last_flushed < Len(issued) /\ issued[Len(issued)] = "reply"
      BY <1>i, <2>1 DEF XReply, At, IInv, AtPlaces, AnswersKept
    <3>1. /\ ReplyList \in Seq(PendingRequest) /\ Len(ReplyList) \in 1..Len(ReplyList)
          /\ ReplyList[Len(ReplyList)].sequence = Len(issued)
      BY <1>i, <3>0, ReplyListType, ReplyListLast
    <3>2. /\ Len(pending_requests') = Len(ReplyList)
          /\ pending_requests'[Len(pending_requests')].sequence = Len(issued)
      BY <2>1, <3>1, ClaimedProperties DEF XReply
    <3>3. /\ pc'[t] = "ReplyLoop" /\ local'[t].current = Len(issued)
          /\ last_flushed' = Len(issued) /\ issued' = issued
      BY <1>a, <2>1, <3>2 DEF XReply, Goto, Locals
    <3>4. ~HasAnswer(t)'
      BY <3>3 DEF HasAnswer, Claiming, Place
    <3>5. request_read' = request_read /\ request_read < Len(issued)
      BY <1>i, <1>a, <3>0, SharedStep DEF SharedMoved, NumbersRead
    <3>6. \A x : x = Len(issued) => Coming(x)'
      BY <1>a, <3>5 DEF Coming, Unanswered
    <3>7. Len(issued) \in 1..Len(issued)
      BY <1>a, <3>0
    <3> QED BY <1>q, <3>0, <3>3, <3>4, <3>6, <3>7
  <2>2. CASE ReplyLoop(t)
    <3>1. pc[t] = "ReplyLoop" /\ InReply(t) /\ ~HasAnswer(t)
      BY <2>2 DEF ReplyLoop, At, InReply, HasAnswer, Claiming, Place
    <3>2. /\ local'[t].current = s /\ ~HasAnswer(t)' /\ pc'[t] # "FinishReply"
      <4>1. CASE SleepAt(t, "reply_notify", "ReplyLoop")
        <5>1. pc'[t] = "Asleep" /\ local'[t] = [local[t] EXCEPT !.back = "ReplyLoop"]
          BY <1>i, <4>1, PlaceFacts
        <5>2. local'[t].back = "ReplyLoop" /\ local'[t].current = s
          BY <1>a, <5>1 DEF Locals
        <5> QED BY <5>1, <5>2 DEF HasAnswer, Claiming, Place
      <4>2. CASE pc'[t] = "WaitForReply" /\ local' = [local EXCEPT ![t].req = FirstPending.sequence]
        BY <1>a, <4>2 DEF HasAnswer, Place, Locals
      <4> QED BY <1>a, <2>2, <4>1, <4>2 DEF ReplyLoop, Goto
    <3>3. ~WaitForReply(t)
      BY <3>1 DEF WaitForReply, Outside
    <3> QED BY <1>e, <1>k, <1>q, <3>1, <3>2, <3>3
  <2>3. CASE WaitForReply(t)
    <3> DEFINE r == FirstReply(local[t].req)
    <3>1. pc[t] = "WaitForReply" /\ InReply(t) /\ ~HasAnswer(t) /\ ReplyReady(local[t].req)
      BY <2>3 DEF WaitForReply, Outside, InReply, HasAnswer, Claiming, Place
    <3>2. local' = [local EXCEPT ![t] =
                      [local[t] EXCEPT !.response = IF r.type = "reply" THEN r ELSE NoItem,
                                       !.error = IF r.type = "error" THEN r ELSE NoItem]]
      BY <2>3, <1>a DEF WaitForReply
    <3>3. /\ local'[t].response = IF r.type = "reply" THEN r ELSE NoItem
          /\ local'[t].error = IF r.type = "error" THEN r ELSE NoItem
          /\ local'[t].current = s /\ local'[t].req = local[t].req
      BY <1>a, <3>2 DEF Locals
    <3>4. pc'[t] = "GotReply"
      BY <1>a, <2>3 DEF WaitForReply, Goto
    <3>5. CASE ErrorWaits(s)
      BY <1>e, <1>k, <1>q, <3>1, <3>3, <3>4, <3>5
    <3>6. CASE Coming(s) /\ local[t].req # s
      <4>1. ~HasAnswer(t)'
        BY <3>3, <3>6 DEF HasAnswer
      <4> QED BY <1>e, <1>k, <1>q, <3>1, <3>3, <3>4, <3>6, <4>1
    <3>7. CASE Coming(s) /\ local[t].req = s
      <4>1. \E q \in xcb_replies : q.seq = s
        <5>1. Completed(s) => ~Unanswered(s)
          BY <1>a, <1>k, <3>1 DEF Completed, Unanswered, ErrorsSetAside
        <5>2. FirstReply(s) # NoItem => \E q \in xcb_replies : q.seq = s
          BY DEF FirstReply
        <5> QED BY <3>1, <3>7, <5>1, <5>2 DEF ReplyReady, Coming
      <4>2. r \in xcb_replies /\ r.seq = s
        BY <3>7, <4>1 DEF FirstReply
      <4>3. r # NoItem
        BY <1>a, <1>k, <3>1, <4>2 DEF NoItem
      <4>4. r.type \in {"reply", "error"}
        BY <1>a, <4>2, <4>3, ItemFacts DEF EInv, AnswersOnly
      <4>5. Replied(t, s)'
        BY <3>3, <4>2, <4>4 DEF Replied, ErrorFor
      <4>6. HasAnswer(t)'
        BY <3>3, <3>4, <3>7 DEF HasAnswer, Claiming, Place
      <4> QED BY <1>e, <1>q, <3>1, <3>3, <3>4, <4>5, <4>6 DEF Replied, ErrorFor
    <3> QED BY <1>k, <3>1, <3>5, <3>6, <3>7
  <2>4. CASE FinishReply(t)
    <3>1. pc[t] = "FinishReply" /\ InReply(t) /\ ~WaitForReply(t)
      BY <2>4 DEF FinishReply, At, InReply, Claiming, Place, WaitForReply, Outside
    <3>2. local[t].req # s
      <4>1. local[t].req = s => pc'[t] = "ReplyDone"
        BY <1>a, <2>4 DEF FinishReply, Goto
      <4> QED BY <1>1, <4>1 DEF InReply, Claiming, Place
    <3>3. PICK item : HandleResponse(t, item, "ReplyLoop")
      BY <2>4, <3>2 DEF FinishReply
    <3>4. \/ pc'[t] = "ReplyLoop" /\ local'[t] = local[t]
          \/ pc'[t] = "XError" /\ local'[t] = [local[t] EXCEPT !.resume = "ReplyLoop"]
      BY <1>i, <3>3, PlaceFacts
    <3>5. /\ local'[t].current = s /\ local'[t].req = local[t].req
          /\ pc'[t] # "FinishReply"
      BY <1>a, <3>4 DEF Locals
    <3>6. ~HasAnswer(t) /\ ~HasAnswer(t)'
      BY <3>2, <3>5 DEF HasAnswer
    <3> QED BY <1>e, <1>k, <1>q, <3>1, <3>5, <3>6
  <2>5. CASE ~XReply(t) /\ ~ReplyLoop(t) /\ ~WaitForReply(t) /\ ~FinishReply(t)
    <3>1. /\ InReply(t) /\ (HasAnswer(t)' <=> HasAnswer(t))
          /\ local'[t].current = s
          /\ local'[t].response = local[t].response
          /\ local'[t].error = local[t].error
      BY <1>1, <1>i, <2>5, AnswerPlace
    <3>2. Replied(t, s) => Replied(t, s)'
      BY <3>1 DEF Replied, ErrorFor
    <3>3. \A x : x = s => \/ ErrorWaits(x)'
                          \/ HasAnswer(t)' /\ Replied(t, x)'
                          \/ ~HasAnswer(t)' /\ Coming(x)'
      BY <1>e, <1>k, <2>5, <3>1, <3>2 DEF Replied, ErrorFor
    <3>4. ASSUME pc'[t] = "FinishReply", local'[t].req = s
          PROVE  Replied(t, s)' \/ ErrorFor(s, next_event')
      <4>1. /\ Claiming(t) /\ Place(t) # "WaitForReply" /\ local[t].req = s
            /\ ~XlibOwnsEventQueue \/ LeaveNextEvent
        BY <1>i, <3>4, FinishReached
      <4>2. HasAnswer(t)
        BY <4>1 DEF HasAnswer
      <4>3. CASE Replied(t, s)
        BY <3>2, <4>3
      <4>4. CASE ErrorWaits(s)
        <5>1. XlibOwnsEventQueue
          BY <4>4 DEF ErrorsSetAside, ErrorWaits, ErrorFor
        <5>2. LeaveNextEvent
          BY <4>1, <5>1
        <5>3. ErrorWaits(local[t].req)
          BY <4>1, <4>4
        <5>4. ErrorFor(local[t].req, next_event')
          BY <1>i, <4>1, <5>2, <5>3, HeadErrorLeft
        <5> QED BY <4>1, <5>4
      <4> QED BY <1>k, <3>1, <4>2, <4>3, <4>4
    <3> QED BY <1>e, <1>q, <3>1, <3>3, <3>4 DEF Replied, ErrorFor
  <2> QED BY <2>1, <2>2, <2>3, <2>4, <2>5
<1>2. ASSUME pc'[t] = "ReplyDone" PROVE AnswerAtEnd(t)'
  <2>1. /\ FinishReply(t) /\ pc[t] = "FinishReply" /\ local[t].req = s /\ local' = local
    BY <1>2, <1>i, ReplyDoneReached
  <2>2. last_request_read' = s /\ next_event' = next_event
    BY <2>1 DEF FinishReply
  <2>3. InReply(t)
    BY <2>1 DEF InReply, Claiming, Place
  <2>4. Replied(t, s) \/ ErrorFor(s, next_event)
    BY <1>k, <2>1, <2>3
  <2>5. ASSUME NEW u \in Threads, InReply(u)' PROVE local'[u].current # s
    <3>1. u # t
      BY <1>2, <2>5 DEF InReply, Claiming, Place
    <3>2. InReply(u)
      BY <1>i, <2>5, <3>1, OthersKeep
    <3> QED BY <1>i, <2>1, <2>3, <3>1, <3>2 DEF IInv, CurrentDistinct
  <2> QED BY <2>1, <2>2, <2>4, <2>5 DEF AnswerAtEnd, Replied, ErrorFor
<1>3. pc'[t] = "XReply" => issued'[Len(issued')] = "reply"
  BY <1>i, XReplyReached
<1> QED
  BY <1>1, <1>2, <1>3

LEMMA AnswersStep ==
    ASSUME EInv, NumbersRead, NobodyReads, EventsOrdered, ErrorsSetAside, AnswersKept,
           NEW t \in Threads, Thread(t)
    PROVE  AnswersKept'
<1>1. \A u \in Threads :
         /\ InReply(u)' => AnswerKept(u)'
         /\ pc'[u] = "ReplyDone" => AnswerAtEnd(u)'
         /\ pc'[u] = "XReply" => issued'[Len(issued')] = "reply"
  <2> SUFFICES ASSUME NEW u \in Threads
               PROVE  /\ InReply(u)' => AnswerKept(u)'
                      /\ pc'[u] = "ReplyDone" => AnswerAtEnd(u)'
                      /\ pc'[u] = "XReply" => issued'[Len(issued')] = "reply"
    OBVIOUS
  <2>1. CASE u = t
    BY <2>1, OwnAnswer
  <2>2. CASE u # t
    BY <2>2, OthersAnswers
  <2> QED BY <2>1, <2>2
<1> QED
  BY <1>1 DEF AnswersKept

\* What the server sends goes behind the events that XCB has, and is no
\* error if errors are set aside.
LEMMA ServerOrder ==
    ASSUME TypeOK, NumbersRead, EventsOrdered, ErrorsSetAside, Server
    PROVE  /\ EventsOrdered' /\ ErrorsSetAside'
           /\ \A i \in 1..Len(xcb_events) :
                 i \in 1..Len(xcb_events') /\ xcb_events'[i] = xcb_events[i]
<1> DEFINE n == Len(xcb_events)
<1>a. /\ xcb_events \in Seq(Items) /\ n \in Nat /\ request_read \in Nat /\ last_flushed \in Nat
      /\ next_event.seq \in Nat /\ \A i \in 1..n : xcb_events[i].seq \in Nat
  BY ItemFacts, LenProperties DEF TypeOK, XcbTypeOK, ResponseTypeOK, RequestTypeOK
<1>f. next_event' = next_event /\ event_owner' = event_owner
  BY ServerFrame DEF displayVars, threadVars, callVars
<1>1. PICK item \in Items, isAnswer \in BOOLEAN :
         Packet(item, isAnswer) /\ item # NoItem /\ item.seq \in request_read..last_flushed
  <2>1. CASE ServerEvent
    <3> PICK s \in request_read..last_flushed : Packet([type |-> "event", seq |-> s], FALSE)
      BY <2>1 DEF ServerEvent
    <3> DEFINE item == [type |-> "event", seq |-> s]
    <3>1. s \in Nat
      BY <1>a
    <3>2. Packet(item, FALSE)
      OBVIOUS
    <3>3. item \in Items /\ item # NoItem /\ item.seq = s
      BY <3>1 DEF Items, NoItem
    <3> HIDE DEF item
    <3> QED BY <3>2, <3>3
  <2>2. CASE ServerReply
    <3> PICK s \in request_read..last_flushed : Packet([type |-> "reply", seq |-> s], TRUE)
      BY <2>2 DEF ServerReply
    <3> DEFINE item == [type |-> "reply", seq |-> s]
    <3>1. s \in Nat
      BY <1>a
    <3>2. Packet(item, TRUE)
      OBVIOUS
    <3>3. item \in Items /\ item # NoItem /\ item.seq = s
      BY <3>1 DEF Items, NoItem
    <3> HIDE DEF item
    <3> QED BY <3>2, <3>3
  <2>3. CASE ServerError
    <3> PICK s \in request_read..last_flushed : Packet([type |-> "error", seq |-> s], TRUE)
      BY <2>3 DEF ServerError
    <3> DEFINE item == [type |-> "error", seq |-> s]
    <3>1. s \in Nat
      BY <1>a
    <3>2. Packet(item, TRUE)
      OBVIOUS
    <3>3. item \in Items /\ item # NoItem /\ item.seq = s
      BY <3>1 DEF Items, NoItem
    <3> HIDE DEF item
    <3> QED BY <3>2, <3>3
  <2> QED BY <2>1, <2>2, <2>3 DEF Server
<1>2. errored' => answered'
  <2>1. CASE isAnswer
    BY <1>1, <2>1 DEF Packet
  <2>2. CASE ~isAnswer
    BY <1>1, <2>2 DEF Packet, ErrorsSetAside
  <2> QED BY <2>1, <2>2
<1>3. CASE xcb_events' = xcb_events
  BY <1>f, <1>2, <1>3 DEF EventsOrdered, ErrorsSetAside, XlibOwnsEventQueue
<1>4. CASE xcb_events' = Append(xcb_events, item)
  <2>1. /\ Len(xcb_events') = n + 1 /\ xcb_events'[n + 1] = item
        /\ \A i \in 1..n : xcb_events'[i] = xcb_events[i]
    BY <1>a, <1>4, AppendProperties
  <2>2. \A i \in 1..(n + 1) : i \in 1..n \/ i = n + 1
    BY <1>a
  <2>3. \A i, j \in 1..(n + 1) : i < j => i \in 1..n
    BY <1>a
  <2>4. \A i \in 1..n : xcb_events[i].seq <= item.seq
    BY <1>a, <1>1 DEF NumbersRead
  <2>5. next_event.seq <= item.seq
    BY <1>a, <1>1 DEF NumbersRead
  <2>6. /\ \A i \in 1..n : xcb_events[i] # NoItem
        /\ \A i, j \in 1..n : i < j => xcb_events[i].seq <= xcb_events[j].seq
        /\ next_event # NoItem => \A i \in 1..n : next_event.seq <= xcb_events[i].seq
    BY DEF EventsOrdered
  <2>7. \A i \in 1..n : i \in 1..Len(xcb_events')
    BY <1>a, <2>1
  <2>8. ~XlibOwnsEventQueue => item.type # "error"
    <3> SUFFICES ASSUME ~XlibOwnsEventQueue, item.type = "error" PROVE FALSE
      OBVIOUS
    <3>1. xcb_events' = xcb_events
      BY <1>1 DEF Packet, SetAside
    <3>2. Len(xcb_events') = n
      BY <3>1
    <3> QED BY <1>a, <2>1, <3>2
  <2> HIDE DEF n
  <2>9. /\ \A i \in 1..Len(xcb_events') : xcb_events'[i] # NoItem
        /\ next_event' # NoItem => \A i \in 1..Len(xcb_events') : next_event'.seq <= xcb_events'[i].seq
    BY <1>f, <1>1, <2>1, <2>2, <2>5, <2>6
  <2>10. \A i, j \in 1..Len(xcb_events') : i < j => xcb_events'[i].seq <= xcb_events'[j].seq
    BY <2>1, <2>2, <2>3, <2>4, <2>6
  <2>11. ~XlibOwnsEventQueue =>
            \A i \in 1..Len(xcb_events') : xcb_events'[i].type # "error"
    BY <2>1, <2>2, <2>8 DEF ErrorsSetAside, n
  <2>12. ErrorsSetAside'
    BY <1>f, <1>2, <2>11 DEF ErrorsSetAside, XlibOwnsEventQueue
  <2> QED BY <2>1, <2>7, <2>9, <2>10, <2>12 DEF EventsOrdered, n
<1> QED
  BY <1>1, <1>3, <1>4 DEF Packet

\* The server does not pass a request that has a reply without answering it.
LEMMA ServerKeepsComing ==
    ASSUME TypeOK, Server, NEW s \in 1..last_flushed, issued[s] = "reply", Coming(s)
    PROVE  Coming(s)' \/ ErrorWaits(s)'
<1>a. /\ request_read \in Nat /\ last_flushed \in Nat /\ server \in [events : Nat, errors : Nat]
      /\ xcb_events \in Seq(Items)
  BY DEF TypeOK, XcbTypeOK, RequestTypeOK
<1>1. CASE ServerEvent \/ ServerReply
  <2>1. server'.errors = server.errors
    <3>1. CASE ServerEvent
      <4>1. server' = [server EXCEPT !.events = @ + 1]
        BY <3>1 DEF ServerEvent
      <4> QED BY <1>a, <4>1
    <3>2. CASE ServerReply
      BY <3>2 DEF ServerReply
    <3> QED BY <1>1, <3>1, <3>2
  <2> QED BY <2>1, ServerComing
<1>2. CASE ServerError
  <2> PICK n \in request_read..last_flushed :
        CanReach(n) /\ Packet([type |-> "error", seq |-> n], TRUE)
    BY <1>2 DEF ServerError
  <2> DEFINE item == [type |-> "error", seq |-> n]
  <2>1. /\ request_read' = n /\ item.seq = n /\ item.type = "error" /\ item \in Items
        /\ \/ xcb_replies' = xcb_replies \cup {item}
           \/ xcb_replies' = xcb_replies /\ xcb_events' = Append(xcb_events, item)
    BY <1>a DEF Packet, Items
  <2>2. ~Unanswered(s) \/ n <= s
    <3> SUFFICES ASSUME Unanswered(s), n > s PROVE FALSE
      BY <1>a
    <3>1. s \in 1..(n - 1)
      BY <1>a
    <3> QED BY <3>1 DEF CanReach
  <2> HIDE DEF item
  <2>3. CASE n = s
    <3>1. CASE xcb_replies' = xcb_replies \cup {item}
      BY <2>1, <2>3, <3>1 DEF Coming
    <3>2. CASE xcb_events' = Append(xcb_events, item)
      <4>1. /\ Len(xcb_events) + 1 \in 1..Len(xcb_events')
            /\ xcb_events'[Len(xcb_events) + 1] = item
        BY <1>a, <2>1, <3>2, AppendProperties, LenProperties
      <4> QED BY <2>1, <2>3, <4>1 DEF ErrorWaits, ErrorFor
    <3> QED BY <2>1, <3>1, <3>2
  <2>4. CASE n # s
    <3>1. Unanswered(s) => Unanswered(s)'
      BY <1>a, <2>1, <2>2, <2>4 DEF Unanswered
    <3>2. xcb_replies \subseteq xcb_replies'
      BY <2>1
    <3> QED BY <3>1, <3>2 DEF Coming
  <2> QED BY <2>3, <2>4
<1> QED
  BY <1>1, <1>2 DEF Server

LEMMA ServerAnswers ==
    ASSUME TypeOK, NumbersRead, EventsOrdered, ErrorsSetAside, AnswersKept, Server
    PROVE  AnswersKept'
<1>f. UNCHANGED <<issued, last_flushed, last_request_read, next_event, pc, local>>
  BY ServerFrame DEF displayVars, threadVars
<1>g. ASSUME NEW u \in Threads
      PROVE  /\ InReply(u)' <=> InReply(u)
             /\ HasAnswer(u)' <=> HasAnswer(u)
  BY <1>f DEF InReply, HasAnswer, Claiming, Place
<1>e. \A s : ErrorWaits(s) => ErrorWaits(s)'
  BY <1>f, ServerOrder DEF ErrorWaits, ErrorFor
<1>1. ASSUME NEW u \in Threads, InReply(u)' PROVE AnswerKept(u)'
  <2> DEFINE s == local[u].current
  <2>1. /\ s \in 1..last_flushed /\ issued[s] = "reply"
        /\ \/ ErrorWaits(s)
           \/ HasAnswer(u) /\ Replied(u, s)
           \/ ~HasAnswer(u) /\ Coming(s)
        /\ pc[u] = "FinishReply" /\ local[u].req = s => Replied(u, s) \/ ErrorFor(s, next_event)
    BY <1>1, <1>g, AnswerKeptParts DEF AnswersKept
  <2>2. Coming(s) => \A x : x = s => Coming(x)' \/ ErrorWaits(x)'
    BY <2>1, ServerKeepsComing
  <2>3. \A x : x = s => \/ ErrorWaits(x)'
                        \/ HasAnswer(u)' /\ Replied(u, x)'
                        \/ ~HasAnswer(u)' /\ Coming(x)'
    BY <1>e, <1>f, <1>g, <2>1, <2>2 DEF Replied, ErrorFor
  <2> QED
    BY <1>f, <2>1, <2>3 DEF AnswerKept, Coming, Unanswered, ErrorWaits, Replied, ErrorFor
<1>2. \A u \in Threads : pc[u] = "ReplyDone" => AnswerAtEnd(u)'
  BY <1>f, <1>g DEF AnswersKept, AnswerAtEnd, Replied, ErrorFor
<1> QED
  BY <1>f, <1>1, <1>2 DEF AnswersKept

LEMMA InitDInv == NoReaders /\ Init => DInv
<1> SUFFICES ASSUME NoReaders, Init PROVE DInv
  OBVIOUS
<1>1. EInv
  BY InitEInv
<1>2. NumbersRead
  BY DEF Init, NumbersRead, NoItem
<1>3. \A t \in Threads : /\ pc[t] = "Idle" /\ local[t].caller = "Flush"
                         /\ local[t].resume = "Idle" /\ local[t].back = "Idle"
  BY DEF Init
<1>4. NobodyReads
  BY <1>3 DEF Init, NoReaders, NobodyReads, ReaderPlaces
<1>5. Len(xcb_events) = 0
  BY DEF Init
<1>6. EventsOrdered /\ ErrorsSetAside
  BY <1>5 DEF Init, EventsOrdered, ErrorsSetAside, NoItem
<1>7. AnswersKept
  BY <1>3 DEF AnswersKept, InReply, Claiming, Place
<1> QED
  BY <1>1, <1>2, <1>4, <1>6, <1>7 DEF DInv, Init

LEMMA StepDInv == DInv /\ [Next]_vars => DInv'
<1> SUFFICES ASSUME DInv, [Next]_vars PROVE DInv'
  OBVIOUS
<1>e. EInv' /\ EInv
  BY StepEInv DEF DInv
<1>i. IInv /\ TypeOK /\ TypeOK' /\ fatal' # "sequence_assert"
  BY <1>e DEF EInv, IInv
<1>d. /\ NumbersRead /\ NobodyReads /\ EventsOrdered /\ ErrorsSetAside /\ AnswersKept
      /\ fatal = "none"
  BY DEF DInv
<1>1. ASSUME NEW t \in Threads, Thread(t) PROVE DInv'
  <2>1. NumbersRead'
    BY <1>1, <1>d, <1>i, NumbersStep
  <2>2. NobodyReads'
    BY <1>1, <1>d, <1>i, NobodyReadsStep
  <2>3. EventsOrdered' /\ ErrorsSetAside'
    BY <1>1, <1>d, <1>e, OrderStep, SetAsideStep
  <2>4. AnswersKept'
    BY <1>1, <1>d, <1>e, AnswersStep
  <2>5. fatal' = "none"
    BY <1>1, <1>d, <1>i, NobodyDies
  <2> QED BY <1>e, <2>1, <2>2, <2>3, <2>4, <2>5 DEF DInv
<1>2. CASE Server
  <2>a. UNCHANGED <<displayVars, fatal, threadVars>>
    BY <1>2, ServerFrame
  <2>1. NumbersRead'
    BY <1>2, <1>d, <1>i, ServerNumbers
  <2>2. NobodyReads' /\ fatal' = "none"
    BY <1>d, <2>a DEF NobodyReads, displayVars, threadVars, callVars
  <2>3. EventsOrdered' /\ ErrorsSetAside'
    BY <1>2, <1>d, <1>i, ServerOrder
  <2>4. AnswersKept'
    BY <1>2, <1>d, <1>i, ServerAnswers
  <2> QED BY <1>e, <2>1, <2>2, <2>3, <2>4 DEF DInv
<1>3. CASE UNCHANGED vars
  <2>a. /\ UNCHANGED <<displayVars, fatal, threadVars, xcbVars>>
        /\ pc' = pc /\ local' = local
    BY <1>3 DEF vars, threadVars
  <2>1. NumbersRead' /\ NobodyReads' /\ fatal' = "none"
    BY <1>d, <2>a DEF NumbersRead, NobodyReads, displayVars, threadVars, callVars, xcbVars
  <2>2. EventsOrdered' /\ ErrorsSetAside'
    BY <1>d, <2>a DEF EventsOrdered, ErrorsSetAside, XlibOwnsEventQueue, displayVars, threadVars,
       callVars, xcbVars
  <2>3. AnswersKept'
    BY <1>d, <2>a DEF AnswersKept, AnswerKept, AnswerAtEnd, Replied, ErrorWaits, ErrorFor,
       InReply, HasAnswer, Claiming, Place, Unanswered, displayVars, xcbVars
  <2> QED BY <1>e, <2>1, <2>2, <2>3 DEF DInv
<1> QED
  BY <1>1, <1>2, <1>3 DEF Next, Stopped

\* The invariant, errors included, when no thread calls XNextEvent.
THEOREM AnswersInvariance == ASSUME NoReaders PROVE Spec => []DInv
<1>1. Init => DInv
  BY InitDInv
<1>2. DInv /\ [Next]_vars => DInv'
  BY StepDInv
<1> QED
  BY <1>1, <1>2, PTL DEF Spec

\* Whatever the server answers, _XReply never finds itself without a reply
\* and without an error: it does not report an I/O error that did not happen
\* (the call of _XIOError at the end of _XReply).
THEOREM AnswersReachCaller == ASSUME NoReaders PROVE Spec => []NoSpuriousIOError
<1>1. DInv => NoSpuriousIOError
  BY DEF DInv, NoSpuriousIOError
<1> QED
  BY <1>1, AnswersInvariance, PTL

\* The answer to the request of a thread in _XReply is to come, with XCB,
\* with the thread, or (an error) among the events where it is looked for:
\* no other thread's polling takes it away.
THEOREM AnswersStayWithCaller == ASSUME NoReaders PROVE Spec => []AnswerAwaitsCaller
<1>1. DInv => AnswerAwaitsCaller
  <2> SUFFICES ASSUME DInv, NEW t \in Threads, InReply(t)
               PROVE  LET s == local[t].current
                      IN \/ Unanswered(s)
                         \/ FirstReply(s) # NoItem
                         \/ local[t].response.seq = s
                         \/ \E e \in {next_event, local[t].error} : ErrorFor(s, e)
                         \/ \E i \in DOMAIN xcb_events : ErrorFor(s, xcb_events[i])
    BY DEF AnswerAwaitsCaller
  <2> DEFINE s == local[t].current
  <2>a. /\ xcb_events \in Seq(Items) /\ DOMAIN xcb_events = 1..Len(xcb_events)
        /\ last_flushed \in Nat
    BY DEF DInv, EInv, IInv, TypeOK, XcbTypeOK, RequestTypeOK
  <2>1. /\ s \in 1..last_flushed
        /\ \/ ErrorWaits(s)
           \/ HasAnswer(t) /\ Replied(t, s)
           \/ ~HasAnswer(t) /\ Coming(s)
    BY AnswerKeptParts DEF DInv, AnswersKept
  <2>2. CASE ErrorWaits(s)
    BY <2>a, <2>2 DEF ErrorWaits
  <2>3. CASE Replied(t, s)
    BY <2>3 DEF Replied
  <2>4. CASE Coming(s)
    <3>1. ASSUME NEW r \in xcb_replies, r.seq = s PROVE FirstReply(s) # NoItem
      <4>1. FirstReply(s).seq = s
        BY <3>1 DEF FirstReply
      <4> QED BY <2>a, <2>1, <4>1 DEF NoItem
    <3> QED BY <2>4, <3>1 DEF Coming
  <2> QED BY <2>1, <2>2, <2>3, <2>4
<1> QED
  BY <1>1, AnswersInvariance, PTL
=============================================================================
