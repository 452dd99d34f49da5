---------------------------- MODULE XcbIoProofs ----------------------------
(***************************************************************************)
(* Proofs about XcbIo, for every set of threads, every script and every    *)
(* bound on what the server sends.                                         *)
(***************************************************************************)
EXTENDS XcbIoInv, TLAPS, SequenceTheorems

-----------------------------------------------------------------------------
(***************************************************************************)
(* Type correctness.                                                       *)
(***************************************************************************)

\* The absence of an item is an item.
LEMMA NoItemIsItem == NoItem \in Items
BY DEF NoItem, Items

\* The initial state has the types.
LEMMA InitType == Init => TypeOK
<1> SUFFICES ASSUME Init PROVE TypeOK
  OBVIOUS
<1>1. LockTypeOK
  BY DEF Init, LockInit, LockTypeOK, CondVars
<1>2. local \in [Threads -> Locals]
  BY NoItemIsItem DEF Init, Locals, BackLabels, ResumeLabels, DoneLabels
<1>3. pc \in [Threads -> Labels]
  BY DEF Init, Labels
<1>4. script \in [Threads -> Seq(Calls)] /\ event_owner \in Owners
  BY SetupAssumption DEF Init
<1>5. issued \in Seq({"void", "reply"}) /\ xcb_events \in Seq(Items)
      /\ pending_requests \in Seq(PendingRequest)
  BY DEF Init
<1>6. last_flushed \in 0..Len(issued)
  BY EmptySeq DEF Init
<1> QED
  BY <1>1, <1>2, <1>3, <1>4, <1>5, <1>6, NoItemIsItem DEF Init, TypeOK, RequestTypeOK, ResponseTypeOK,
     ThreadTypeOK, XcbTypeOK, Fatalities

\* A function on 1..n is a sequence.
LEMMA FunctionIsSeq ==
    ASSUME NEW S, NEW n \in Nat, NEW f \in [1..n -> S]
    PROVE  f \in Seq(S) /\ Len(f) = n
OBVIOUS

\* append_pending_request, repeated: the old list, then the new numbers.
LEMMA AppendedProperties ==
    ASSUME NEW pending \in Seq(PendingRequest), NEW first \in Nat,
           NEW last \in Nat, first <= last + 1
    PROVE  /\ Appended(pending, first, last) \in Seq(PendingRequest)
           /\ Len(Appended(pending, first, last)) =
                 Len(pending) + (last + 1 - first)
           /\ \A i \in 1..Len(pending) :
                 Appended(pending, first, last)[i] = pending[i]
           /\ \A i \in (Len(pending) + 1)..(Len(pending) + (last + 1 - first)) :
                 Appended(pending, first, last)[i] =
                    [sequence |-> first + (i - Len(pending)) - 1,
                     reply_waiter |-> FALSE]
<1> DEFINE new == [i \in 1..(last + 1 - first) |->
                     [sequence |-> first + i - 1, reply_waiter |-> FALSE]]
<1>1. new \in Seq(PendingRequest) /\ Len(new) = last + 1 - first
  <2>1. \A i \in 1..(last + 1 - first) :
           [sequence |-> first + i - 1, reply_waiter |-> FALSE] \in PendingRequest
    BY DEF PendingRequest
  <2>2. last + 1 - first \in Nat
    OBVIOUS
  <2>3. new \in [1..(last + 1 - first) -> PendingRequest]
    BY <2>1
  <2> HIDE DEF new
  <2> QED BY <2>2, <2>3, FunctionIsSeq
<1>2. Appended(pending, first, last) = pending \o new
  BY DEF Appended
<1> HIDE DEF new
<1>3. /\ pending \o new \in Seq(PendingRequest)
      /\ Len(pending \o new) = Len(pending) + Len(new)
      /\ \A i \in 1..Len(pending) + Len(new) :
            (pending \o new)[i] = IF i <= Len(pending) THEN pending[i]
                                  ELSE new[i - Len(pending)]
  BY <1>1, ConcatProperties
<1>4. \A i \in 1..(last + 1 - first) :
         new[i] = [sequence |-> first + i - 1, reply_waiter |-> FALSE]
  BY DEF new
<1>5. \A i \in (Len(pending) + 1)..(Len(pending) + (last + 1 - first)) :
         /\ (pending \o new)[i] = new[i - Len(pending)]
         /\ i - Len(pending) \in 1..(last + 1 - first)
  BY <1>1, <1>3, LenProperties
<1>6. /\ Appended(pending, first, last) \in Seq(PendingRequest)
      /\ Len(Appended(pending, first, last)) = Len(pending) + (last + 1 - first)
  BY <1>1, <1>2, <1>3
<1>7. \A i \in 1..Len(pending) : Appended(pending, first, last)[i] = pending[i]
  BY <1>1, <1>2, <1>3, LenProperties
<1>8. \A i \in (Len(pending) + 1)..(Len(pending) + (last + 1 - first)) :
         Appended(pending, first, last)[i] =
            [sequence |-> first + (i - Len(pending)) - 1, reply_waiter |-> FALSE]
  BY <1>2, <1>4, <1>5
<1> QED BY <1>6, <1>7, <1>8

\* The values the helpers compute.
LEMMA HelperTypes ==
    ASSUME TypeOK
    PROVE  /\ NextQueuedEvent \in Items
           /\ AfterXSend \in Seq(PendingRequest)
           /\ \A s \in Nat : FirstReply(s) \in Items
           /\ \A t \in Threads : AfterResponse(t) \in {"ReadLoop", "Poll"}
           /\ \A t \in Threads : AfterNoResponse(t) \in
                 {"FinishReply", "NoResponse", "TakeEvent"} \cup DoneLabels
<1>1. NextQueuedEvent \in Items
  <2>1. CASE next_event # NoItem
    BY <2>1 DEF TypeOK, ResponseTypeOK, NextQueuedEvent
  <2>2. CASE next_event = NoItem /\ xcb_events # <<>>
    <3>1. Head(xcb_events) \in Items
      BY <2>2, HeadTailProperties DEF TypeOK, XcbTypeOK
    <3> QED BY <2>2, <3>1 DEF NextQueuedEvent
  <2>3. CASE next_event = NoItem /\ xcb_events = <<>>
    BY <2>3, NoItemIsItem DEF NextQueuedEvent
  <2> QED BY <2>1, <2>2, <2>3
<1>2. AfterXSend \in Seq(PendingRequest)
  <2>1. /\ pending_requests \in Seq(PendingRequest)
        /\ last_flushed + 1 \in Nat /\ Len(issued) \in Nat
        /\ last_flushed + 1 <= Len(issued) + 1
    BY LenProperties DEF TypeOK, RequestTypeOK
  <2> QED BY <2>1, AppendedProperties DEF AfterXSend
<1>3. \A s \in Nat : FirstReply(s) \in Items
  BY NoItemIsItem DEF TypeOK, XcbTypeOK, FirstReply
<1>4. \A t \in Threads : AfterResponse(t) \in {"ReadLoop", "Poll"}
  BY DEF AfterResponse
<1>5. \A t \in Threads : AfterNoResponse(t) \in
                 {"FinishReply", "NoResponse", "TakeEvent"} \cup DoneLabels
  BY DEF TypeOK, ThreadTypeOK, Locals, AfterNoResponse
<1> QED BY <1>1, <1>2, <1>3, <1>4, <1>5

\* Labels, kept as facts so that the steps below need not list them all.
LEMMA LabelFacts ==
    /\ BackLabels \subseteq Labels
    /\ ResumeLabels \subseteq Labels
    /\ DoneLabels \subseteq Labels
    /\ Calls \subseteq Labels
    /\ RequestCalls \subseteq DoneLabels
    /\ {"Asleep", "XError", "UserErrorHandler"} \subseteq Labels
    /\ {"Idle", "XReply", "ReplyLoop", "WaitForReply", "GotReply",
        "FinishReply", "ReplyDone", "ReadLoop", "WaitForEvent", "GotEvent",
        "NoResponse", "TakeEvent", "Poll", "PollReply", "PollAgain", "Unlock",
        "RoundTrip"} \subseteq Labels
    /\ {"ReadLoop", "Poll", "ReplyLoop", "Unlock"} \subseteq ResumeLabels
    /\ {"ReplyLoop", "ReadLoop", "XError"} \subseteq BackLabels
    /\ "Unlock" \in DoneLabels
BY DEF Labels, BackLabels, ResumeLabels, DoneLabels, Calls, RequestCalls

\* Reading and updating the variables of a thread.
LEMMA LocalTypes ==
    ASSUME local \in [Threads -> Locals], NEW t \in Threads
    PROVE  /\ local[t].back \in BackLabels
           /\ local[t].resume \in ResumeLabels
           /\ local[t].done \in DoneLabels
           /\ local[t].current \in Nat
           /\ local[t].req \in Nat
           /\ local[t].response \in Items
           /\ local[t].error \in Items
           /\ local[t].polled \in Items
           /\ local[t].event \in Items
BY DEF Locals

\* Updating one field of a thread's locals keeps their type.
LEMMA LocalUpdates ==
    ASSUME local \in [Threads -> Locals], NEW t \in Threads
    PROVE  /\ \A x \in BackLabels : [local EXCEPT ![t].back = x] \in [Threads -> Locals]
           /\ \A x \in ResumeLabels : [local EXCEPT ![t].resume = x] \in [Threads -> Locals]
           /\ \A x \in Nat : [local EXCEPT ![t].current = x] \in [Threads -> Locals]
           /\ \A x \in Nat : [local EXCEPT ![t].req = x] \in [Threads -> Locals]
           /\ \A x \in Nat : [local EXCEPT ![t].serial = x] \in [Threads -> Locals]
           /\ \A x \in Items : [local EXCEPT ![t].polled = x] \in [Threads -> Locals]
           /\ \A x \in Items : [local EXCEPT ![t].event = x] \in [Threads -> Locals]
           /\ \A x \in SUBSET Nat : [local EXCEPT ![t].handles = x] \in [Threads -> Locals]
           /\ [local EXCEPT ![t].caller = "Reply"] \in [Threads -> Locals]
           /\ [local EXCEPT ![t].caller = "Drain"] \in [Threads -> Locals]
           /\ [local EXCEPT ![t].caller = "ReadEvents"] \in [Threads -> Locals]
           /\ \A x \in DoneLabels :
                 [local EXCEPT ![t].caller = "Flush", ![t].done = x] \in [Threads -> Locals]
           /\ \A x \in Items :
                 [local EXCEPT ![t].caller = "ReadEvents", ![t].event = x] \in [Threads -> Locals]
           /\ \A x, y \in Items :
                 [local EXCEPT ![t].response = x, ![t].error = y] \in [Threads -> Locals]
<1> DEFINE L == Locals
<1>1. \A l \in L :
         /\ \A x \in BackLabels : [l EXCEPT !.back = x] \in L
         /\ \A x \in ResumeLabels : [l EXCEPT !.resume = x] \in L
         /\ \A x \in Nat : [l EXCEPT !.current = x] \in L
         /\ \A x \in Nat : [l EXCEPT !.req = x] \in L
         /\ \A x \in Nat : [l EXCEPT !.serial = x] \in L
         /\ \A x \in SUBSET Nat : [l EXCEPT !.handles = x] \in L
  BY DEF Locals
<1>2. \A l \in L :
         /\ \A x \in Items : [l EXCEPT !.polled = x] \in L
         /\ \A x \in Items : [l EXCEPT !.event = x] \in L
         /\ \A x, y \in Items : [l EXCEPT !.response = x, !.error = y] \in L
  BY DEF Locals
<1>3. \A l \in L :
         /\ [l EXCEPT !.caller = "Reply"] \in L
         /\ [l EXCEPT !.caller = "Drain"] \in L
         /\ [l EXCEPT !.caller = "ReadEvents"] \in L
         /\ \A x \in DoneLabels : [l EXCEPT !.caller = "Flush", !.done = x] \in L
         /\ \A x \in Items : [l EXCEPT !.caller = "ReadEvents", !.event = x] \in L
  BY DEF Locals
<1>4. local \in [Threads -> L] /\ local[t] \in L
  OBVIOUS
<1> HIDE DEF L
<1>5. \A f \in [Threads -> L] : \A y \in L : [f EXCEPT ![t] = y] \in [Threads -> L]
  OBVIOUS
<1> QED BY <1>1, <1>2, <1>3, <1>4, <1>5 DEF L

\* What handle_response does to its thread and to the queue.
LEMMA HandleResponseTypes ==
    ASSUME TypeOK, NEW t \in Threads, NEW item \in Items, NEW label \in ResumeLabels,
           HandleResponse(t, item, label)
    PROVE  /\ pc' \in [Threads -> Labels]
           /\ local' \in [Threads -> Locals]
           /\ qlen' \in Nat
           /\ next_event_serial_num' \in Nat
<1>1. /\ pc \in [Threads -> Labels]
      /\ local \in [Threads -> Locals]
      /\ qlen \in Nat
      /\ next_event_serial_num \in Nat
  BY DEF TypeOK, ThreadTypeOK, ResponseTypeOK
<1>2. "XError" \in Labels /\ label \in Labels
  BY LabelFacts
<1>3. [local EXCEPT ![t].resume = label] \in [Threads -> Locals]
  BY <1>1, LocalUpdates
<1>4. CASE item.type = "error" /\ item.seq \notin async_handlers
  BY <1>1, <1>2, <1>3, <1>4 DEF HandleResponse, Goto, queueVars
<1>5. CASE ~(item.type = "error" /\ item.seq \notin async_handlers)
  BY <1>1, <1>2, <1>5 DEF HandleResponse, Goto, queueVars
<1> QED
  BY <1>4, <1>5

\* What poll_for_event does, when it returns an event and when it does not.
LEMMA NextEventTypes ==
    ASSUME TypeOK, NEW t \in Threads
    PROVE  /\ TakeNextEvent(t, AfterResponse(t)) =>
                /\ xcb_events' \in Seq(Items)
                /\ next_event' \in Items
                /\ last_request_read' \in Nat
                /\ HandleResponse(t, NextQueuedEvent, AfterResponse(t))
           /\ LeaveNextEvent =>
                /\ xcb_events' \in Seq(Items)
                /\ next_event' \in Items
<1>1. FetchedFromXcb => xcb_events' \in Seq(Items)
  BY HeadTailProperties DEF TypeOK, XcbTypeOK, FetchedFromXcb
<1>2. NextQueuedEvent \in Items
  BY HelperTypes
<1>3. NextQueuedEvent.seq \in Nat
  BY <1>2 DEF Items, NoItem
<1> QED
  BY <1>1, <1>2, <1>3, NoItemIsItem DEF TakeNextEvent, LeaveNextEvent

\* What the answer to the first pending request does.
LEMMA AnswerTypes ==
    ASSUME TypeOK, NEW t \in Threads, NEW item \in Items, Answer(t, item),
           pending_requests # <<>>
    PROVE  /\ last_request_read' \in Nat
           /\ pending_requests' \in Seq(PendingRequest)
           /\ item # NoItem => HandleResponse(t, item, AfterResponse(t))
           /\ item = NoItem => Goto(t, "Poll") /\ UNCHANGED <<local, queueVars>>
<1>1. /\ pending_requests \in Seq(PendingRequest)
      /\ Head(pending_requests) \in PendingRequest
      /\ Tail(pending_requests) \in Seq(PendingRequest)
  BY HeadTailProperties DEF TypeOK, RequestTypeOK
<1>2. Head(pending_requests).sequence \in Nat
  BY <1>1 DEF PendingRequest
<1> QED
  BY <1>1, <1>2 DEF Answer

\* The head of the list of pending requests, and the list without it.
LEMMA PendingHead ==
    ASSUME NEW pending \in Seq(PendingRequest), pending # <<>>
    PROVE  /\ Len(pending) \in Nat \ {0}
           /\ Head(pending) = pending[1]
           /\ Head(pending) \in PendingRequest
           /\ Head(pending).sequence \in Nat
           /\ Head(pending).reply_waiter \in BOOLEAN
           /\ Tail(pending) \in Seq(PendingRequest)
           /\ Len(Tail(pending)) = Len(pending) - 1
           /\ \A i \in 1..Len(pending) - 1 : Tail(pending)[i] = pending[i + 1]
<1>1. /\ Len(pending) \in Nat \ {0}
      /\ Head(pending) = pending[1]
      /\ Head(pending) \in PendingRequest
      /\ Tail(pending) \in Seq(PendingRequest)
      /\ Len(Tail(pending)) = Len(pending) - 1
      /\ \A i \in 1..Len(pending) - 1 : Tail(pending)[i] = pending[i + 1]
  BY HeadTailProperties
<1>2. Head(pending).sequence \in Nat /\ Head(pending).reply_waiter \in BOOLEAN
  BY <1>1 DEF PendingRequest
<1> QED
  BY <1>1, <1>2

\* A thread that gets dibs on a reply changes nothing else.
LEMMA ClaimedProperties ==
    ASSUME NEW pending \in Seq(PendingRequest), NEW i \in 1..Len(pending)
    PROVE  /\ Claimed(pending, i) \in Seq(PendingRequest)
           /\ Len(Claimed(pending, i)) = Len(pending)
           /\ \A j \in 1..Len(pending) :
                 /\ Claimed(pending, i)[j].sequence = pending[j].sequence
                 /\ j # i => Claimed(pending, i)[j] = pending[j]
           /\ Claimed(pending, i)[i].reply_waiter
<1>1. \A j \in 1..Len(pending) : pending[j] \in PendingRequest
  OBVIOUS
<1>2. [pending[i] EXCEPT !.reply_waiter = TRUE] \in PendingRequest
  BY <1>1 DEF PendingRequest
<1>3. Claimed(pending, i) =
         [pending EXCEPT ![i] = [pending[i] EXCEPT !.reply_waiter = TRUE]]
  BY DEF Claimed
<1>4. /\ Claimed(pending, i) \in Seq(PendingRequest)
      /\ Len(Claimed(pending, i)) = Len(pending)
      /\ \A j \in 1..Len(pending) :
            Claimed(pending, i)[j] = IF j = i THEN [pending[i] EXCEPT !.reply_waiter = TRUE]
                                     ELSE pending[j]
  BY <1>2, <1>3, ExceptSeq
<1>5. /\ [pending[i] EXCEPT !.reply_waiter = TRUE].sequence = pending[i].sequence
      /\ [pending[i] EXCEPT !.reply_waiter = TRUE].reply_waiter
  BY <1>1 DEF PendingRequest
<1> QED
  BY <1>4, <1>5

\* The list in which _XReply finds or puts its request.
LEMMA ReplyListType ==
    ASSUME TypeOK
    PROVE  /\ ReplyList \in Seq(PendingRequest)
           /\ ReplyList # <<>>
           /\ Len(ReplyList) \in Nat \ {0}
<1>1. AfterXSend \in Seq(PendingRequest)
  BY HelperTypes
<1>2. CASE IsListed(AfterXSend)
  BY <1>1, <1>2, LenProperties DEF IsListed, ReplyList
<1>3. CASE ~IsListed(AfterXSend)
  <2>1. Len(issued) \in Nat /\ Len(issued) <= Len(issued) + 1
    BY DEF TypeOK, RequestTypeOK
  <2>2. /\ ReplyList \in Seq(PendingRequest)
        /\ Len(ReplyList) = Len(AfterXSend) + (Len(issued) + 1 - Len(issued))
    BY <1>1, <1>3, <2>1, AppendedProperties DEF ReplyList
  <2> QED BY <1>1, <2>1, <2>2, LenProperties
<1> QED
  BY <1>2, <1>3

\* The thread that has processed a reply gives up its dibs on the request.
LEMMA UnmarkedProperties ==
    ASSUME NEW pending \in Seq(PendingRequest), NEW req \in Nat
    PROVE  /\ Unmarked(pending, req) \in Seq(PendingRequest)
           /\ Len(Unmarked(pending, req)) = Len(pending)
           /\ \A i \in 1..Len(pending) :
                 /\ Unmarked(pending, req)[i].sequence = pending[i].sequence
                 /\ pending[i].sequence # req =>
                       Unmarked(pending, req)[i] = pending[i]
<1>1. DOMAIN pending = 1..Len(pending) /\ Len(pending) \in Nat
  OBVIOUS
<1>2. \A i \in 1..Len(pending) :
         /\ pending[i] \in PendingRequest
         /\ [pending[i] EXCEPT !.reply_waiter = FALSE] \in PendingRequest
         /\ [pending[i] EXCEPT !.reply_waiter = FALSE].sequence = pending[i].sequence
  <2>1. \A i \in 1..Len(pending) : pending[i] \in PendingRequest
    OBVIOUS
  <2> QED BY <2>1 DEF PendingRequest
<1>3. Unmarked(pending, req) \in [1..Len(pending) -> PendingRequest]
  BY <1>1, <1>2 DEF Unmarked
<1>4. /\ Unmarked(pending, req) \in Seq(PendingRequest)
      /\ Len(Unmarked(pending, req)) = Len(pending)
  BY <1>1, <1>3, FunctionIsSeq
<1>5. \A i \in 1..Len(pending) :
         /\ Unmarked(pending, req)[i].sequence = pending[i].sequence
         /\ pending[i].sequence # req => Unmarked(pending, req)[i] = pending[i]
  BY <1>1, <1>2 DEF Unmarked
<1> QED
  BY <1>4, <1>5

\* Every thread's step keeps the type of the locals.
LEMMA LocalStep ==
    \A t \in Threads : IInv /\ Thread(t) => local' \in [Threads -> Locals]
<1> SUFFICES ASSUME IInv, NEW t \in Threads, Thread(t)
             PROVE  local' \in [Threads -> Locals]
  OBVIOUS
<1>t. TypeOK
  BY DEF IInv
<1>a. /\ local \in [Threads -> Locals]
      /\ pending_requests \in Seq(PendingRequest) /\ issued \in Seq({"void", "reply"})
      /\ last_flushed \in 0..Len(issued) /\ next_event \in Items
      /\ xcb_events \in Seq(Items)
  BY <1>t DEF TypeOK, ThreadTypeOK, RequestTypeOK, ResponseTypeOK, XcbTypeOK
<1>1. CASE LockDisplay(t) \/ Resume(t) \/ UserErrorHandler(t) \/ TakeEvent(t)
           \/ XLockDisplay(t) \/ XUnlockDisplay(t)
  BY <1>1, <1>a DEF LockDisplay, Resume, UserErrorHandler, TakeEvent,
     XLockDisplay, XUnlockDisplay
<1>2. CASE UnlockDisplay(t)
  <2>1. [local EXCEPT ![t].handles = {}] \in [Threads -> Locals]
    BY <1>a, LocalUpdates
  <2> QED BY <1>2, <2>1 DEF UnlockDisplay
<1>3. CASE GetRequest(t)
  <2>1. {Len(issued) + 1} \in SUBSET Nat
    BY <1>a, LenProperties
  <2>2. [local EXCEPT ![t].handles = {Len(issued) + 1}] \in [Threads -> Locals]
    BY <1>a, <2>1, LocalUpdates
  <2> QED BY <1>3, <1>a, <2>2 DEF GetRequest
<1>4. CASE FlushFullBuffer(t) \/ EventsQueued(t)
  <2>1. RequestCalls \cup {"Unlock"} \subseteq DoneLabels
    BY LabelFacts
  <2>2. \A label \in DoneLabels : XFlush(t, label) => local' \in [Threads -> Locals]
    <3>1. \A x \in DoneLabels :
             [local EXCEPT ![t].caller = "Flush", ![t].done = x] \in [Threads -> Locals]
      BY <1>a, LocalUpdates
    <3> QED BY <3>1 DEF XFlush
  <2>3. CASE FlushFullBuffer(t)
    BY <2>1, <2>2, <2>3 DEF FlushFullBuffer
  <2>4. CASE EventsQueued(t)
    BY <2>1, <2>2, <2>4, <1>a DEF EventsQueued
  <2> QED BY <1>4, <2>3, <2>4
<1>5. CASE XReply(t)
  <2>1. ReplyList \in Seq(PendingRequest) /\ Len(ReplyList) \in Nat \ {0}
    BY <1>t, ReplyListType
  <2>2. pending_requests' = Claimed(ReplyList, Len(ReplyList))
    BY <1>5 DEF XReply
  <2>3. /\ pending_requests' \in Seq(PendingRequest)
        /\ Len(pending_requests') = Len(ReplyList)
    BY <2>1, <2>2, ClaimedProperties
  <2>5. pending_requests'[Len(pending_requests')].sequence \in Nat
    <3>1. pending_requests'[Len(pending_requests')] \in PendingRequest
      BY <2>1, <2>3
    <3> QED BY <3>1 DEF PendingRequest
  <2>6. local' = [local EXCEPT
           ![t].current = pending_requests'[Len(pending_requests')].sequence]
    BY <1>5 DEF XReply
  <2>7. \A x \in Nat : [local EXCEPT ![t].current = x] \in [Threads -> Locals]
    BY <1>a, LocalUpdates
  <2> QED BY <2>5, <2>6, <2>7
<1>6. CASE ReplyLoop(t) \/ XError(t) \/ ReadLoop(t) \/ NoResponse(t)
  <2>1. {"ReplyLoop", "XError", "ReadLoop"} \subseteq BackLabels
    BY LabelFacts
  <2>2. \A label \in BackLabels, c \in CondVars :
           SleepAt(t, c, label) => local' \in [Threads -> Locals]
    <3>1. \A x \in BackLabels : [local EXCEPT ![t].back = x] \in [Threads -> Locals]
      BY <1>a, LocalUpdates
    <3> QED BY <3>1 DEF SleepAt
  <2>c. {"cv", "reply_notify", "event_notify"} \subseteq CondVars
    BY DEF CondVars
  <2>3. CASE ReplyLoop(t)
    <3>1. CASE SleepAt(t, "reply_notify", "ReplyLoop")
      BY <3>1, <2>1, <2>2, <2>c
    <3>2. CASE ~SleepAt(t, "reply_notify", "ReplyLoop")
      <4>1. /\ local' = [local EXCEPT ![t].req = FirstPending.sequence]
            /\ InReply(t)
        BY <2>3, <3>2 DEF ReplyLoop, InReply, Place, At
      <4>2. pending_requests # <<>>
        BY <4>1, <1>a DEF IInv, CurrentListed, Listed
      <4>3. FirstPending.sequence \in Nat
        BY <4>2, <1>a, PendingHead DEF FirstPending
      <4> QED BY <4>1, <4>3, <1>a, LocalUpdates
    <3> QED BY <3>1, <3>2
  <2>4. CASE XError(t)
    BY <1>a, <2>1, <2>2, <2>c, <2>4 DEF XError
  <2>5. CASE ReadLoop(t)
    <3>1. /\ [local EXCEPT ![t].caller = "Drain"] \in [Threads -> Locals]
          /\ [local EXCEPT ![t].caller = "ReadEvents"] \in [Threads -> Locals]
      BY <1>a, LocalUpdates
    <3> QED BY <1>a, <2>1, <2>2, <2>c, <2>5, <3>1 DEF ReadLoop
  <2>6. CASE NoResponse(t)
    BY <1>a, <2>1, <2>2, <2>c, <2>6 DEF NoResponse
  <2> QED BY <1>6, <2>3, <2>4, <2>5, <2>6
<1>7. CASE WaitForReply(t)
  <2>1. FirstReply(local[t].req) \in Items
    BY <1>t, <1>a, HelperTypes, LocalTypes
  <2>2. \A x, y \in Items :
           [local EXCEPT ![t].response = x, ![t].error = y] \in [Threads -> Locals]
    BY <1>a, LocalUpdates
  <2> QED BY <1>7, <2>1, <2>2, NoItemIsItem DEF WaitForReply
<1>8. CASE GotReply(t)
  <2>1. [local EXCEPT ![t].caller = "Reply"] \in [Threads -> Locals]
    BY <1>a, LocalUpdates
  <2> QED BY <1>8, <1>a, <2>1 DEF GotReply
<1>9. CASE NextEvent(t)
  <2>1. [local EXCEPT ![t].serial = next_event_serial_num] \in [Threads -> Locals]
    BY <1>a, <1>t, LocalUpdates DEF TypeOK, ResponseTypeOK
  <2> QED BY <1>9, <1>a, <2>1 DEF NextEvent
<1>10. CASE WaitForEvent(t)
  <2>1. xcb_events # <<>> => Head(xcb_events) \in Items
    BY <1>a, HeadTailProperties
  <2> QED BY <1>10, <1>a, <2>1, LocalUpdates DEF WaitForEvent
<1>11. CASE GotEvent(t)
  <2>1. [local EXCEPT ![t].caller = "ReadEvents", ![t].event = NoItem]
           \in [Threads -> Locals]
    BY <1>a, NoItemIsItem, LocalUpdates
  <2> QED BY <1>11, <2>1 DEF GotEvent
<1>12. CASE FinishReply(t) \/ ReplyDone(t) \/ Poll(t) \/ PollReply(t) \/ PollAgain(t)
  <2>1. \A item, label : HandleResponse(t, item, label) =>
           local' = local \/ local' = [local EXCEPT ![t].resume = label]
    BY DEF HandleResponse
  <2>2. \A label \in ResumeLabels : [local EXCEPT ![t].resume = label] \in [Threads -> Locals]
    BY <1>a, LocalUpdates
  <2>3. {"ReplyLoop", "Unlock", "ReadLoop", "Poll"} \subseteq ResumeLabels
    BY LabelFacts
  <2>4. AfterResponse(t) \in {"ReadLoop", "Poll"}
    BY <1>t, HelperTypes
  <2>5. \A item : \A label \in ResumeLabels :
           HandleResponse(t, item, label) => local' \in [Threads -> Locals]
    BY <1>a, <2>1, <2>2
  <2>6. TakeNextEvent(t, AfterResponse(t)) => local' \in [Threads -> Locals]
    BY <2>3, <2>4, <2>5 DEF TakeNextEvent
  <2>7. \A item : Answer(t, item) => local' \in [Threads -> Locals]
    BY <1>a, <2>3, <2>4, <2>5 DEF Answer
  <2>8. CASE FinishReply(t)
    BY <1>a, <2>3, <2>5, <2>8 DEF FinishReply
  <2>9. CASE ReplyDone(t)
    BY <1>a, <2>3, <2>5, <2>9 DEF ReplyDone
  <2>10. CASE Poll(t)
    BY <1>a, <2>6, <2>7, <2>10 DEF Poll
  <2>11. CASE PollReply(t)
    <3>1. \A s \in Nat : [local EXCEPT ![t].polled = FirstReply(s)] \in [Threads -> Locals]
      BY <1>t, <1>a, HelperTypes, LocalUpdates
    <3>2. Head(pending_requests).sequence \in Nat
      <4>1. pending_requests # <<>>
        BY <2>11 DEF PollReply, At, IInv, AtPlaces, Unclaimed
      <4> QED BY <4>1, <1>a, PendingHead
    <3> QED BY <1>a, <2>6, <2>11, <3>1, <3>2 DEF PollReply
  <2>12. CASE PollAgain(t)
    BY <1>a, <2>6, <2>7, <2>12 DEF PollAgain
  <2> QED BY <1>12, <2>8, <2>9, <2>10, <2>11, <2>12
<1> QED
  BY <1>1, <1>2, <1>3, <1>4, <1>5, <1>6, <1>7, <1>8, <1>9, <1>10, <1>11, <1>12
  DEF Thread

\* Every thread's step keeps the scripts, the owner and the count of delivered events.
LEMMA ScriptStep ==
    \A t \in Threads : IInv /\ Thread(t) =>
       script' \in [Threads -> Seq(Calls)] /\ event_owner' \in Owners /\ delivered' \in Nat
<1> SUFFICES ASSUME IInv, NEW t \in Threads, Thread(t)
             PROVE  /\ script' \in [Threads -> Seq(Calls)]
                    /\ event_owner' \in Owners
                    /\ delivered' \in Nat
  OBVIOUS
<1>a. script \in [Threads -> Seq(Calls)] /\ event_owner \in Owners /\ delivered \in Nat
  BY DEF IInv, TypeOK, ThreadTypeOK
<1>1. CASE LockDisplay(t)
  <2>1. script[t] # <<>> => Tail(script[t]) \in Seq(Calls)
    BY <1>a, HeadTailProperties
  <2> QED BY <1>1, <1>a, <2>1 DEF LockDisplay
<1>2. CASE UnlockDisplay(t) \/ Resume(t) \/ GetRequest(t) \/
           FlushFullBuffer(t) \/ XReply(t) \/ ReplyLoop(t) \/
           WaitForReply(t) \/ GotReply(t) \/ FinishReply(t) \/
           ReplyDone(t) \/ Poll(t) \/ PollReply(t)
  BY <1>2, <1>a DEF callVars, UnlockDisplay, Resume, GetRequest, FlushFullBuffer, XReply,
     ReplyLoop, WaitForReply, GotReply, FinishReply, ReplyDone, Poll,
     PollReply
<1>3. CASE PollAgain(t) \/ XError(t) \/ UserErrorHandler(t) \/ NextEvent(t)
           \/ ReadLoop(t) \/ WaitForEvent(t) \/ GotEvent(t) \/
           NoResponse(t) \/ EventsQueued(t) \/ XLockDisplay(t) \/
           XUnlockDisplay(t)
  BY <1>3, <1>a DEF callVars, PollAgain, XError, UserErrorHandler, NextEvent, ReadLoop,
     WaitForEvent, GotEvent, NoResponse, EventsQueued, XLockDisplay,
     XUnlockDisplay
<1>4. CASE TakeEvent(t)
  BY <1>4, <1>a DEF callVars, TakeEvent
<1> QED
  BY <1>1, <1>2, <1>3, <1>4 DEF Thread

\* Every thread's step goes to a label.
LEMMA PcStep == \A t \in Threads : IInv /\ Thread(t) => pc' \in [Threads -> Labels]
<1> SUFFICES ASSUME IInv, NEW t \in Threads, Thread(t)
             PROVE  pc' \in [Threads -> Labels]
  OBVIOUS
<1>t. TypeOK
  BY DEF IInv
<1>h. AfterResponse(t) \in Labels /\ AfterNoResponse(t) \in Labels
  BY <1>t, HelperTypes, LabelFacts
<1>a. /\ pc \in [Threads -> Labels] /\ script \in [Threads -> Seq(Calls)]
      /\ local[t].back \in Labels /\ local[t].resume \in Labels
  BY <1>t, LocalTypes, LabelFacts DEF TypeOK, ThreadTypeOK
<1>1. CASE LockDisplay(t)
  <2>1. script[t] # <<>> => Head(script[t]) \in Labels
    BY <1>a, HeadTailProperties, LabelFacts
  <2> QED BY <1>1, <1>a, <2>1 DEF LockDisplay, Goto, MustWait
<1>2. CASE UnlockDisplay(t) \/ Resume(t) \/ XReply(t) \/ WaitForReply(t) \/
           WaitForEvent(t) \/ GotEvent(t) \/ TakeEvent(t) \/
           UserErrorHandler(t) \/ XLockDisplay(t) \/
           XUnlockDisplay(t)
  BY <1>2, <1>h, <1>a, LabelFacts DEF UnlockDisplay, Goto, Resume, XReply, WaitForReply, WaitForEvent,
     GotEvent, TakeEvent, UserErrorHandler, XLockDisplay, XUnlockDisplay
<1>3. CASE GetRequest(t) \/ FlushFullBuffer(t) \/ EventsQueued(t) \/
           NextEvent(t) \/ GotReply(t)
  BY <1>3, <1>h, <1>a, LabelFacts DEF GetRequest, At, Goto, RequestCalls, FlushFullBuffer, XFlush,
     EventsQueued, NextEvent, GotReply
<1>4. CASE ReplyLoop(t) \/ ReadLoop(t) \/ NoResponse(t) \/ XError(t)
  BY <1>4, <1>h, <1>a, LabelFacts DEF ReplyLoop, SleepAt, Goto, ReadLoop, NoResponse, XError
<1>5. CASE FinishReply(t) \/ ReplyDone(t)
  BY <1>5, <1>h, <1>a, LabelFacts DEF FinishReply, HandleResponse, Goto, ReplyDone
<1>6. CASE Poll(t)
  BY <1>6, <1>h, <1>a, LabelFacts DEF Poll, TakeNextEvent, LeaveNextEvent, HandleResponse, Answer, Goto
<1>7. CASE PollReply(t)
  BY <1>7, <1>h, <1>a, LabelFacts DEF PollReply, TakeNextEvent, LeaveNextEvent, HandleResponse, Goto
<1>8. CASE PollAgain(t)
  BY <1>8, <1>h, <1>a, LabelFacts DEF PollAgain, TakeNextEvent, LeaveNextEvent, HandleResponse, Answer,
     Goto
<1> QED
  BY <1>1, <1>2, <1>3, <1>4, <1>5, <1>6, <1>7, <1>8 DEF Thread

\* Every thread's step keeps the types of the display lock.
LEMMA LockStep == \A t \in Threads : IInv /\ Thread(t) => LockTypeOK'
<1> SUFFICES ASSUME IInv, NEW t \in Threads, Thread(t) PROVE LockTypeOK'
  OBVIOUS
<1>a. LockTypeOK
  BY DEF IInv, TypeOK
<1>s. \A c \in CondVars :
         /\ [sleeping EXCEPT ![c] = @ \cup {t}] \in [CondVars -> SUBSET Threads]
         /\ [sleeping EXCEPT ![c] = {}] \in [CondVars -> SUBSET Threads]
  BY <1>a DEF LockTypeOK
<1>v. {"cv", "event_notify", "reply_notify"} \subseteq CondVars
  BY DEF CondVars
<1>1. CASE UnlockDisplay(t) \/ Resume(t)
  BY <1>1, <1>a, <1>s, <1>v DEF UnlockDisplay, Released, userLockVars, ifeventVars, Resume, Wakeup,
     LockTypeOK
<1>2. CASE GetRequest(t) \/ FlushFullBuffer(t) \/ XReply(t) \/
           WaitForReply(t) \/ ReplyDone(t) \/ Poll(t) \/
           PollReply(t) \/ PollAgain(t) \/ NextEvent(t) \/
           WaitForEvent(t) \/ TakeEvent(t) \/ EventsQueued(t)
  BY <1>2, <1>a, <1>s, <1>v DEF GetRequest, lockVars, FlushFullBuffer, XReply, WaitForReply,
     ReplyDone, Poll, PollReply, PollAgain, NextEvent, WaitForEvent,
     TakeEvent, EventsQueued, LockTypeOK
<1>3. CASE LockDisplay(t)
  BY <1>3, <1>a, <1>s, <1>v DEF LockDisplay, Acquired, MustWait, ConditionWait, userLockVars,
     ifeventVars, LockTypeOK
<1>4. CASE GotReply(t) \/ GotEvent(t) \/ FinishReply(t)
  BY <1>4, <1>a, <1>s, <1>v DEF GotReply, Acquired, userLockVars, ifeventVars, GotEvent,
     ConditionBroadcast, FinishReply, WakeRepliers, LockTypeOK
<1>5. CASE ReplyLoop(t) \/ ReadLoop(t) \/ NoResponse(t)
  BY <1>5, <1>a, <1>s, <1>v DEF ReplyLoop, SleepAt, ConditionWait, Released, userLockVars,
     ifeventVars, ReadLoop, NoResponse, LockTypeOK
<1>6. CASE XError(t)
  BY <1>6, <1>a, <1>s, <1>v DEF XError, SleepAt, ConditionWait, UserLocked, Released, ifeventVars,
     LockTypeOK
<1>7. CASE UserErrorHandler(t)
  BY <1>7, <1>a, <1>s, <1>v DEF UserErrorHandler, Acquired, UserUnlocked, ConditionBroadcast,
     ifeventVars, LockTypeOK
<1>8. CASE XLockDisplay(t)
  BY <1>8, <1>a, <1>s, <1>v DEF XLockDisplay, UserLocked, Released, ifeventVars, LockTypeOK
<1>9. CASE XUnlockDisplay(t)
  BY <1>9, <1>a, <1>s, <1>v DEF XUnlockDisplay, UserUnlocked, ConditionBroadcast, Released,
     ifeventVars, LockTypeOK
<1> QED
  BY <1>1, <1>2, <1>3, <1>4, <1>5, <1>6, <1>7, <1>8, <1>9 DEF Thread

\* Every thread's step keeps the types of what XCB holds.
LEMMA XcbStep == \A t \in Threads : IInv /\ Thread(t) => XcbTypeOK'
<1> SUFFICES ASSUME IInv, NEW t \in Threads, Thread(t) PROVE XcbTypeOK'
  OBVIOUS
<1>a. TypeOK /\ XcbTypeOK
  BY DEF IInv, TypeOK
<1>b. /\ TakeNextEvent(t, AfterResponse(t)) => xcb_events' \in Seq(Items)
      /\ LeaveNextEvent => xcb_events' \in Seq(Items)
  BY <1>a, NextEventTypes
<1>c. xcb_events # <<>> => Tail(xcb_events) \in Seq(Items)
  BY <1>a, HeadTailProperties DEF XcbTypeOK
<1>1. CASE LockDisplay(t) \/ UnlockDisplay(t) \/ Resume(t) \/ GetRequest(t)
           \/ FlushFullBuffer(t) \/ XReply(t) \/ ReplyLoop(t) \/
           GotReply(t) \/ FinishReply(t) \/ ReplyDone(t)
  BY <1>1, <1>a, <1>b, <1>c DEF LockDisplay, xcbVars, UnlockDisplay, Resume, GetRequest,
     FlushFullBuffer, XReply, ReplyLoop, GotReply, FinishReply,
     ReplyDone, XcbTypeOK
<1>2. CASE XError(t) \/ UserErrorHandler(t) \/ NextEvent(t) \/ ReadLoop(t) \/
           GotEvent(t) \/ NoResponse(t) \/ TakeEvent(t) \/
           EventsQueued(t) \/ XLockDisplay(t) \/ XUnlockDisplay(t)
  BY <1>2, <1>a, <1>b, <1>c DEF XError, xcbVars, UserErrorHandler, NextEvent, ReadLoop, GotEvent,
     NoResponse, TakeEvent, EventsQueued, XLockDisplay, XUnlockDisplay,
     XcbTypeOK
<1>3. CASE WaitForReply(t) \/ WaitForEvent(t) \/ PollReply(t)
  BY <1>3, <1>a, <1>b, <1>c DEF WaitForReply, WithoutFirst, WaitForEvent, PollReply, XcbTypeOK
<1>4. CASE Poll(t) \/ PollAgain(t)
  BY <1>4, <1>a, <1>b, <1>c DEF Poll, PollAgain, XcbTypeOK
<1> QED
  BY <1>1, <1>2, <1>3, <1>4 DEF Thread

\* Every thread's step keeps the types of the response side: no step
\* reads a sequence number from an empty list.
LEMMA ResponseStep == \A t \in Threads : IInv /\ Thread(t) => ResponseTypeOK'
<1> SUFFICES ASSUME IInv, NEW t \in Threads, Thread(t) PROVE ResponseTypeOK'
  OBVIOUS
<1>t. TypeOK
  BY DEF IInv
<1>a. ResponseTypeOK /\ pending_requests \in Seq(PendingRequest)
  BY <1>t DEF TypeOK, RequestTypeOK
<1>b. /\ local[t].req \in Nat /\ local[t].event \in Items
      /\ local[t].polled \in Items /\ local[t].response \in Items
      /\ local[t].error \in Items /\ NextQueuedEvent \in Items /\ NoItem \in Items
  BY <1>t, LocalTypes, HelperTypes, NoItemIsItem DEF TypeOK, ThreadTypeOK
<1>c. \A item, label : HandleResponse(t, item, label) =>
         qlen' \in Nat /\ next_event_serial_num' \in Nat
  BY <1>a DEF HandleResponse, ResponseTypeOK, queueVars
<1>d. /\ EventWaiterAssert => fatal' \in Fatalities
      /\ TakeNextEvent(t, AfterResponse(t)) =>
            /\ next_event' \in Items /\ last_request_read' \in Nat
            /\ qlen' \in Nat /\ next_event_serial_num' \in Nat
      /\ LeaveNextEvent => next_event' \in Items
  BY <1>t, <1>a, <1>c, NextEventTypes DEF EventWaiterAssert, ResponseTypeOK, Fatalities
<1>e. \A item : pending_requests # <<>> /\ Answer(t, item) =>
         /\ last_request_read' \in Nat
         /\ qlen' \in Nat /\ next_event_serial_num' \in Nat
  BY <1>a, <1>c, PendingHead DEF Answer, ResponseTypeOK, queueVars
<1>1. CASE LockDisplay(t) \/ UnlockDisplay(t) \/ Resume(t) \/ GetRequest(t)
           \/ FlushFullBuffer(t) \/ ReplyLoop(t) \/
           WaitForReply(t) \/ GotReply(t)
  BY <1>1, <1>a, <1>b, <1>c DEF LockDisplay, displayVars, queueVars, UnlockDisplay, Resume,
     GetRequest, FlushFullBuffer, ReplyLoop, WaitForReply, GotReply,
     ResponseTypeOK
<1>2. CASE XError(t) \/ UserErrorHandler(t) \/ NextEvent(t) \/ ReadLoop(t) \/
           WaitForEvent(t) \/ EventsQueued(t) \/ XLockDisplay(t)
           \/ XUnlockDisplay(t)
  BY <1>2, <1>a, <1>b, <1>c DEF XError, displayVars, queueVars, UserErrorHandler, NextEvent,
     ReadLoop, WaitForEvent, EventsQueued, XLockDisplay, XUnlockDisplay,
     ResponseTypeOK
<1>3. CASE XReply(t) \/ NoResponse(t) \/ TakeEvent(t)
  BY <1>3, <1>a, <1>b, <1>c DEF XReply, queueVars, NoResponse, displayVars, TakeEvent,
     ResponseTypeOK, Fatalities
<1>4. CASE GotEvent(t)
  BY <1>4, <1>a, <1>b, <1>c DEF GotEvent, queueVars, ResponseTypeOK
<1>5. CASE FinishReply(t)
  BY <1>5, <1>a, <1>b, <1>c DEF FinishReply, queueVars, ResponseTypeOK, Fatalities
<1>6. CASE ReplyDone(t)
  BY <1>6, <1>a, <1>b, <1>c DEF ReplyDone, queueVars, ResponseTypeOK, Fatalities
<1>7. CASE Poll(t)
  BY <1>7, <1>a, <1>b, <1>d, <1>e DEF Poll, Unclaimed, queueVars, ResponseTypeOK
<1>8. CASE PollReply(t) \/ PollAgain(t)
  <2>1. pending_requests # <<>>
    BY <1>8 DEF PollReply, PollAgain, At, IInv, AtPlaces, Unclaimed
  <2>2. CASE PollReply(t)
    BY <1>a, <1>b, <1>d, <2>1, <2>2 DEF PollReply, queueVars, ResponseTypeOK
  <2>3. CASE PollAgain(t)
    BY <1>a, <1>b, <1>d, <1>e, <2>1, <2>3 DEF PollAgain, ResponseTypeOK
  <2> QED BY <1>8, <2>2, <2>3
<1> QED
  BY <1>1, <1>2, <1>3, <1>4, <1>5, <1>6, <1>7, <1>8 DEF Thread

\* Every thread's step keeps the types of the request side.
LEMMA RequestStep == \A t \in Threads : IInv /\ Thread(t) => RequestTypeOK'
<1> SUFFICES ASSUME IInv, NEW t \in Threads, Thread(t) PROVE RequestTypeOK'
  OBVIOUS
<1>t. TypeOK
  BY DEF IInv
<1>a. RequestTypeOK
  BY <1>t DEF TypeOK
<1>h. AfterXSend \in Seq(PendingRequest) /\ ReplyList \in Seq(PendingRequest)
      /\ Len(ReplyList) \in 1..Len(ReplyList)
  BY <1>t, HelperTypes, ReplyListType
<1>p. pending_requests # <<>> => Tail(pending_requests) \in Seq(PendingRequest)
  BY <1>a, PendingHead DEF RequestTypeOK
<1>x. XSend => /\ pending_requests' \in Seq(PendingRequest)
               /\ issued' = issued /\ last_flushed' \in 0..Len(issued)
  BY <1>a, <1>h DEF XSend, RequestTypeOK
<1>1. CASE LockDisplay(t) \/ Resume(t) \/ WaitForReply(t) \/ GotReply(t) \/
           ReplyDone(t) \/ PollReply(t) \/ XError(t) \/
           UserErrorHandler(t)
  BY <1>1, <1>a, <1>h, <1>x DEF LockDisplay, displayVars, sendVars, Resume, WaitForReply, GotReply,
     ReplyDone, PollReply, XError, UserErrorHandler, RequestTypeOK
<1>2. CASE ReadLoop(t) \/ WaitForEvent(t) \/ GotEvent(t) \/ NoResponse(t) \/
           TakeEvent(t) \/ XLockDisplay(t) \/ XUnlockDisplay(t)
  BY <1>2, <1>a, <1>h, <1>x DEF ReadLoop, sendVars, WaitForEvent, displayVars, GotEvent,
     NoResponse, TakeEvent, XLockDisplay, XUnlockDisplay, RequestTypeOK
<1>3. CASE UnlockDisplay(t)
  BY <1>3, <1>a, <1>h, <1>x DEF UnlockDisplay, sendVars, RequestTypeOK
<1>4. CASE GetRequest(t)
  BY <1>4, <1>a, <1>h, <1>x DEF GetRequest, RequestTypeOK
<1>5. CASE FlushFullBuffer(t) \/ NextEvent(t) \/ EventsQueued(t)
  BY <1>5, <1>a, <1>h, <1>x DEF FlushFullBuffer, XFlush, NextEvent, sendVars, EventsQueued,
     RequestTypeOK
<1>6. CASE XReply(t)
  <2>1. pending_requests' = Claimed(ReplyList, Len(ReplyList))
    BY <1>6 DEF XReply
  <2>2. pending_requests' \in Seq(PendingRequest)
    BY <1>h, <2>1, ClaimedProperties
  <2> QED BY <1>6, <1>a, <2>2 DEF XReply, RequestTypeOK
<1>7. CASE ReplyLoop(t)
  <2>1. InReply(t)
    BY <1>7 DEF ReplyLoop, InReply, Place, At
  <2>2. 1 \in 1..Len(pending_requests)
    BY <1>a, <2>1 DEF IInv, CurrentListed, Listed, RequestTypeOK
  <2>3. Claimed(pending_requests, 1) \in Seq(PendingRequest)
    BY <1>a, <2>2, ClaimedProperties DEF RequestTypeOK
  <2> QED BY <1>7, <1>a, <2>3 DEF ReplyLoop, sendVars, RequestTypeOK
<1>8. CASE FinishReply(t)
  <2>1. Claiming(t)
    BY <1>8 DEF FinishReply, Claiming, Place, At
  <2>2. pending_requests # <<>>
    BY <2>1 DEF IInv, ClaimIsHead
  <2>3. pending_requests' \in Seq(PendingRequest)
    <3>1. local[t].req \in Nat
      BY <1>t, LocalTypes DEF TypeOK, ThreadTypeOK
    <3>2. Unmarked(pending_requests, local[t].req) \in Seq(PendingRequest)
      BY <1>a, <3>1, UnmarkedProperties DEF RequestTypeOK
    <3> QED BY <1>8, <1>a, <1>p, <2>2, <3>2 DEF FinishReply, RequestTypeOK
  <2> QED BY <1>8, <1>a, <2>3 DEF FinishReply, sendVars, RequestTypeOK
<1>9. CASE Poll(t)
  BY <1>9, <1>a, <1>p DEF Poll, Answer, Unclaimed, sendVars, RequestTypeOK
<1>10. CASE PollAgain(t)
  <2>1. pending_requests # <<>>
    BY <1>10 DEF PollAgain, At, IInv, AtPlaces, Unclaimed
  <2> QED BY <1>10, <1>a, <1>p, <2>1 DEF PollAgain, Answer, sendVars, RequestTypeOK
<1> QED
  BY <1>1, <1>2, <1>3, <1>4, <1>5, <1>6, <1>7, <1>8, <1>9, <1>10 DEF Thread


\* The server's steps change only what XCB holds.
LEMMA ServerType == TypeOK /\ Server => XcbTypeOK'
<1> SUFFICES ASSUME TypeOK, Server PROVE XcbTypeOK'
  OBVIOUS
<1>a. XcbTypeOK /\ last_flushed \in Nat
  BY DEF TypeOK, RequestTypeOK
<1>1. ASSUME NEW item \in Items, NEW isAnswer \in BOOLEAN, item # NoItem,
             Packet(item, isAnswer),
             server' \in [events : Nat, errors : Nat]
      PROVE  XcbTypeOK'
  <2>1. Append(xcb_events, item) \in Seq(Items)
    BY <1>a DEF XcbTypeOK
  <2>2. item.seq \in Nat
    BY <1>1 DEF Items
  <2> QED BY <1>1, <1>a, <2>1, <2>2 DEF Packet, XcbTypeOK
<1>2. \A s \in request_read..last_flushed, type \in {"event", "reply", "error"} :
         /\ [type |-> type, seq |-> s] \in Items
         /\ [type |-> type, seq |-> s] # NoItem
  BY <1>a DEF Items, NoItem, XcbTypeOK
<1>3. /\ [server EXCEPT !.events = @ + 1] \in [events : Nat, errors : Nat]
      /\ [server EXCEPT !.errors = @ + 1] \in [events : Nat, errors : Nat]
      /\ server \in [events : Nat, errors : Nat]
  BY <1>a DEF XcbTypeOK
<1>4. CASE ServerEvent
  BY <1>1, <1>2, <1>3, <1>4 DEF ServerEvent
<1>5. CASE ServerReply
  BY <1>1, <1>2, <1>3, <1>5 DEF ServerReply
<1>6. CASE ServerError
  BY <1>1, <1>2, <1>3, <1>6 DEF ServerError
<1> QED
  BY <1>4, <1>5, <1>6 DEF Server

\* The steps of the server, and the steps after the end.
LEMMA ServerFrame ==
    Server => UNCHANGED <<lockVars, displayVars, fatal, threadVars>>
BY DEF Server, ServerEvent, ServerReply, ServerError, Packet

\* The type invariant is kept, with the help of the inductive invariant.
LEMMA TypeStep == IInv /\ [Next]_vars => TypeOK'
<1> SUFFICES ASSUME IInv, [Next]_vars PROVE TypeOK'
  OBVIOUS
<1>t. TypeOK
  BY DEF IInv
<1>1. ASSUME NEW t \in Threads, Thread(t) PROVE TypeOK'
  <2>1. LockTypeOK' /\ RequestTypeOK' /\ ResponseTypeOK' /\ XcbTypeOK'
    BY <1>1, LockStep, RequestStep, ResponseStep, XcbStep
  <2>2. ThreadTypeOK'
    BY <1>1, PcStep, ScriptStep, LocalStep DEF ThreadTypeOK
  <2> QED BY <2>1, <2>2 DEF TypeOK
<1>2. CASE Server
  BY <1>t, <1>2, ServerType, ServerFrame
  DEF TypeOK, LockTypeOK, RequestTypeOK, ResponseTypeOK, ThreadTypeOK,
      lockVars, displayVars, threadVars, callVars
<1>3. CASE UNCHANGED vars
  BY <1>t, <1>3
  DEF TypeOK, LockTypeOK, RequestTypeOK, ResponseTypeOK, ThreadTypeOK, XcbTypeOK,
      vars, lockVars, displayVars, threadVars, callVars, xcbVars
<1> QED
  BY <1>1, <1>2, <1>3 DEF Next, Stopped

-----------------------------------------------------------------------------
(***************************************************************************)
(* Which step moves which thread.                                          *)
(***************************************************************************)
\* A step of t moves no other thread.
LEMMA OthersFrame ==
    \A t \in Threads : IInv /\ Thread(t) =>
       \A u \in Threads : u # t => pc'[u] = pc[u] /\ local'[u] = local[u]
<1> SUFFICES ASSUME IInv, NEW t \in Threads, Thread(t), NEW u \in Threads, u # t
             PROVE  pc'[u] = pc[u] /\ local'[u] = local[u]
  OBVIOUS
<1>a. pc \in [Threads -> Labels] /\ local \in [Threads -> Locals]
  BY DEF IInv, TypeOK, ThreadTypeOK
<1>b. \A c, label : SleepAt(t, c, label) => pc'[u] = pc[u] /\ local'[u] = local[u]
  BY <1>a DEF SleepAt, Goto
<1>c. \A item, label : HandleResponse(t, item, label) =>
         pc'[u] = pc[u] /\ local'[u] = local[u]
  BY <1>a DEF HandleResponse, Goto
<1>d. \A label : XFlush(t, label) => pc'[u] = pc[u] /\ local'[u] = local[u]
  BY <1>a DEF XFlush, Goto
<1>e. /\ \A label : TakeNextEvent(t, label) => pc'[u] = pc[u] /\ local'[u] = local[u]
      /\ \A item : Answer(t, item) => pc'[u] = pc[u] /\ local'[u] = local[u]
  BY <1>a, <1>c DEF TakeNextEvent, Answer, Goto
<1>1. CASE LockDisplay(t) \/ UnlockDisplay(t) \/ Resume(t) \/ GetRequest(t)
  BY <1>1, <1>a, <1>b, <1>c, <1>d, <1>e DEF LockDisplay, MustWait, Goto, UnlockDisplay, Resume, GetRequest
<1>2. CASE FlushFullBuffer(t) \/ XReply(t) \/ ReplyLoop(t) \/ WaitForReply(t)
  BY <1>2, <1>a, <1>b, <1>c, <1>d, <1>e DEF FlushFullBuffer, Goto, XReply, ReplyLoop, WaitForReply
<1>3. CASE GotReply(t) \/ FinishReply(t) \/ ReplyDone(t) \/ NextEvent(t)
  BY <1>3, <1>a, <1>b, <1>c, <1>d, <1>e DEF GotReply, Goto, FinishReply, ReplyDone, NextEvent
<1>4. CASE Poll(t) \/ PollReply(t) \/ PollAgain(t)
  BY <1>4, <1>a, <1>b, <1>c, <1>d, <1>e DEF Poll, Goto, PollReply, PollAgain
<1>5. CASE XError(t) \/ UserErrorHandler(t) \/ ReadLoop(t) \/ WaitForEvent(t)
  BY <1>5, <1>a, <1>b, <1>c, <1>d, <1>e DEF XError, Goto, UserErrorHandler, ReadLoop, WaitForEvent
<1>6. CASE GotEvent(t) \/ NoResponse(t) \/ TakeEvent(t)
  BY <1>6, <1>a, <1>b, <1>c, <1>d, <1>e DEF GotEvent, Goto, NoResponse, TakeEvent
<1>7. CASE EventsQueued(t) \/ XLockDisplay(t) \/ XUnlockDisplay(t)
  BY <1>7, <1>a, <1>b, <1>c, <1>d, <1>e DEF EventsQueued, Goto, XLockDisplay, XUnlockDisplay
<1> QED
  BY <1>1, <1>2, <1>3, <1>4, <1>5, <1>6, <1>7 DEF Thread

\* The lock excludes: a step that needs the lock is not one of a thread that
\* is outside, and a thread takes the lock only when it is free.
LEMMA LockHeldStep == IInv /\ [Next]_vars => LockHeld'
<1> SUFFICES ASSUME IInv, [Next]_vars PROVE LockHeld'
  OBVIOUS
<1>a. LockHeld /\ TypeOK /\ NoThread \notin Threads
  BY NoThreadAssumption DEF IInv
<1>1. ASSUME NEW t \in Threads, Thread(t) PROVE LockHeld'
  <2>a. pc \in [Threads -> Labels] /\ local \in [Threads -> Locals]
    BY <1>a DEF TypeOK, ThreadTypeOK
  <2>b. ~InIfEvent(t)
    BY <1>a DEF LockHeld, InIfEvent
  <2>p. /\ AfterResponse(t) \in {"ReadLoop", "Poll"}
        /\ AfterNoResponse(t) \in
              {"FinishReply", "NoResponse", "TakeEvent"} \cup DoneLabels
    BY <1>a, HelperTypes
  <2>1. in_ifevent' = 0
    <3>1. in_ifevent' = in_ifevent
      <4>1. CASE LockDisplay(t) \/ UnlockDisplay(t) \/ Resume(t) \/ GetRequest(t)
                 \/ FlushFullBuffer(t)
        BY <4>1 DEF LockDisplay, userLockVars, ifeventVars, UnlockDisplay, Resume,
           GetRequest, lockVars, FlushFullBuffer
      <4>2. CASE XReply(t) \/ ReplyLoop(t) \/ WaitForReply(t) \/ GotReply(t) \/
                 FinishReply(t)
        BY <4>2 DEF XReply, lockVars, ReplyLoop, userLockVars, ifeventVars,
           WaitForReply, GotReply, FinishReply
      <4>3. CASE ReplyDone(t) \/ Poll(t) \/ PollReply(t) \/ PollAgain(t) \/
                 XError(t)
        BY <4>3 DEF ReplyDone, lockVars, Poll, PollReply, PollAgain, XError,
           ifeventVars
      <4>4. CASE UserErrorHandler(t) \/ NextEvent(t) \/ ReadLoop(t) \/
                 WaitForEvent(t) \/ GotEvent(t)
        BY <4>4 DEF UserErrorHandler, ifeventVars, NextEvent, lockVars, ReadLoop,
           userLockVars, WaitForEvent, GotEvent
      <4>5. CASE NoResponse(t) \/ TakeEvent(t) \/ EventsQueued(t) \/
                 XLockDisplay(t) \/ XUnlockDisplay(t)
        BY <4>5 DEF NoResponse, userLockVars, ifeventVars, TakeEvent, lockVars,
           EventsQueued, XLockDisplay, XUnlockDisplay
      <4> QED BY <1>1, <4>1, <4>2, <4>3, <4>4, <4>5 DEF Thread
    <3> QED BY <1>a, <3>1 DEF LockHeld
  <2>2. mutex' = mutex \/ mutex = t \/ mutex = NoThread
    <3>1. CASE LockDisplay(t) \/ UnlockDisplay(t) \/ Resume(t) \/ GetRequest(t)
               \/ FlushFullBuffer(t)
      BY <3>1, <2>b DEF LockDisplay, Acquired, MustWait, UnlockDisplay, At, Resume, Wakeup,
         GetRequest, lockVars, FlushFullBuffer
    <3>2. CASE XReply(t) \/ ReplyLoop(t) \/ WaitForReply(t) \/ GotReply(t) \/
               FinishReply(t)
      BY <3>2, <2>b DEF XReply, At, lockVars, ReplyLoop, WaitForReply, GotReply, Acquired,
         FinishReply
    <3>3. CASE ReplyDone(t) \/ Poll(t) \/ PollReply(t) \/ PollAgain(t) \/
               XError(t)
      BY <3>3, <2>b DEF ReplyDone, At, lockVars, Poll, PollReply, PollAgain, XError
    <3>4. CASE UserErrorHandler(t) \/ NextEvent(t) \/ ReadLoop(t) \/
               WaitForEvent(t) \/ GotEvent(t)
      BY <3>4, <2>b DEF UserErrorHandler, Acquired, NextEvent, At, lockVars, ReadLoop,
         WaitForEvent, GotEvent
    <3>5. CASE NoResponse(t) \/ TakeEvent(t) \/ EventsQueued(t) \/
               XLockDisplay(t) \/ XUnlockDisplay(t)
      BY <3>5, <2>b DEF NoResponse, At, TakeEvent, lockVars, EventsQueued, XLockDisplay,
         XUnlockDisplay
    <3> QED BY <1>1, <3>1, <3>2, <3>3, <3>4, <3>5 DEF Thread
  <2>3. Inside(t)' => mutex' = t
    <3>1. CASE LockDisplay(t) \/ UnlockDisplay(t)
      BY <3>1, <2>a, <2>b, <2>p, <1>a DEF LockDisplay, Outside, Acquired, MustWait, ConditionWait, Goto,
         UnlockDisplay, At, Released, Inside, LockHeld
    <3>2. CASE Resume(t)
      BY <3>2, <2>a, <2>b, <2>p, <1>a DEF Resume, Outside, Wakeup, Goto, Inside, LockHeld
    <3>3. CASE GetRequest(t) \/ FlushFullBuffer(t) \/ XReply(t)
      BY <3>3, <2>a, <2>b, <2>p, <1>a DEF GetRequest, At, Goto, lockVars, FlushFullBuffer, XFlush, XReply,
         Inside, LockHeld
    <3>4. CASE ReplyLoop(t) \/ WaitForReply(t)
      BY <3>4, <2>a, <2>b, <2>p, <1>a DEF ReplyLoop, At, SleepAt, ConditionWait, Released, Goto,
         WaitForReply, Outside, lockVars, Inside, LockHeld
    <3>5. CASE GotReply(t) \/ FinishReply(t) \/ ReplyDone(t)
      BY <3>5, <2>a, <2>b, <2>p, <1>a DEF GotReply, Outside, Acquired, Goto, FinishReply, At, HandleResponse,
         ReplyDone, lockVars, Inside, LockHeld
    <3>6. CASE NextEvent(t) \/ WaitForEvent(t) \/ GotEvent(t)
      BY <3>6, <2>a, <2>b, <2>p, <1>a DEF NextEvent, At, Goto, lockVars, WaitForEvent, Outside, GotEvent,
         Acquired, Inside, LockHeld
    <3>7. CASE Poll(t) \/ PollReply(t) \/ PollAgain(t)
      BY <3>7, <2>a, <2>b, <2>p, <1>a DEF Poll, At, TakeNextEvent, HandleResponse, Answer, Goto, lockVars,
         PollReply, PollAgain, Inside, LockHeld
    <3>8. CASE XError(t) \/ UserErrorHandler(t)
      BY <3>8, <2>a, <2>b, <2>p, <1>a DEF XError, At, SleepAt, ConditionWait, Released, Goto,
         UserErrorHandler, Outside, Acquired, Inside, LockHeld
    <3>9. CASE ReadLoop(t) \/ NoResponse(t)
      BY <3>9, <2>a, <2>b, <2>p, <1>a DEF ReadLoop, At, SleepAt, ConditionWait, Released, Goto, NoResponse,
         Inside, LockHeld
    <3>10. CASE TakeEvent(t) \/ EventsQueued(t) \/ XLockDisplay(t) \/
               XUnlockDisplay(t)
      BY <3>10, <2>a, <2>b, <2>p, <1>a DEF TakeEvent, At, Goto, lockVars, EventsQueued, XFlush, XLockDisplay,
         Released, XUnlockDisplay, Inside, LockHeld
    <3> QED BY <1>1, <3>1, <3>2, <3>3, <3>4, <3>5, <3>6, <3>7, <3>8, <3>9, <3>10 DEF Thread
  <2>4. ASSUME NEW u \in Threads, u # t, Inside(u)' PROVE mutex' = u
    <3>1. Inside(u)
      BY <1>1, <2>4, OthersFrame DEF Inside
    <3>2. mutex = u
      BY <1>a, <3>1 DEF LockHeld
    <3> QED BY <1>a, <2>2, <2>4, <3>2
  <2> QED BY <2>1, <2>3, <2>4 DEF LockHeld
<1>2. CASE Server
  BY <1>a, <1>2, ServerFrame DEF LockHeld, Inside, lockVars, threadVars, callVars
<1>3. CASE UNCHANGED vars
  BY <1>a, <1>3 DEF LockHeld, Inside, vars, lockVars, threadVars, callVars
<1> QED
  BY <1>1, <1>2, <1>3 DEF Next, Stopped

-----------------------------------------------------------------------------
(***************************************************************************)
(* Where a step takes its thread, seen from the list of pending requests.  *)
(***************************************************************************)
\* t goes on as it was: it has no dibs and is in no loop it was not in, and
\* still wants the same reply.
KeepsPlace(t) ==
    /\ Claiming(t)' => Claiming(t) /\ local'[t].req = local[t].req
    /\ InReply(t)' => InReply(t) /\ local'[t].current = local[t].current

\* The building blocks of the steps, and the fields they leave alone.
LEMMA PlaceFacts ==
    ASSUME TypeOK, NEW t \in Threads
    PROVE  /\ \A c, label : SleepAt(t, c, label) =>
                /\ pc'[t] = "Asleep"
                /\ local'[t] = [local[t] EXCEPT !.back = label]
           /\ \A item, label : HandleResponse(t, item, label) =>
                \/ pc'[t] = label /\ local'[t] = local[t]
                \/ /\ pc'[t] = "XError"
                   /\ local'[t] = [local[t] EXCEPT !.resume = label]
           /\ \A label : XFlush(t, label) =>
                /\ pc'[t] \in {"Poll", label}
                /\ local'[t] = [local[t] EXCEPT !.caller = "Flush", !.done = label]
           /\ \A label : Goto(t, label) => pc'[t] = label
<1>a. pc \in [Threads -> Labels] /\ local \in [Threads -> Locals]
  BY DEF TypeOK, ThreadTypeOK
<1> QED
  BY <1>a DEF SleepAt, HandleResponse, XFlush, Goto

\* Where a step leaves its thread, and how it gets there: the parts of
\* the invariant about single threads.
LEMMA PlaceStep ==
    \A t \in Threads : IInv /\ Thread(t) /\ ~XReply(t) /\ ~ReplyLoop(t) => KeepsPlace(t)
<1> SUFFICES ASSUME IInv, NEW t \in Threads, Thread(t), ~XReply(t), ~ReplyLoop(t)
             PROVE  KeepsPlace(t)
  OBVIOUS
<1>t. TypeOK
  BY DEF IInv
<1>a. /\ pc \in [Threads -> Labels] /\ local \in [Threads -> Locals]
      /\ local[t] \in Locals /\ script \in [Threads -> Seq(Calls)]
  BY <1>t DEF TypeOK, ThreadTypeOK
<1>b. /\ local[t].back \in BackLabels /\ local[t].resume \in ResumeLabels
      /\ local[t].done \in DoneLabels
  BY <1>a, LocalTypes
<1> DEFINE places == {"WaitForReply", "GotReply", "FinishReply", "ReplyLoop",
                      "Poll", "PollReply", "PollAgain"}
           same == /\ local'[t].caller = local[t].caller
                   /\ local'[t].req = local[t].req
                   /\ local'[t].current = local[t].current
<1>c. Place(t)' \notin places => KeepsPlace(t)
  BY DEF KeepsPlace, InReply, Claiming
<1>d. Place(t)' = Place(t) /\ same => KeepsPlace(t)
  BY DEF KeepsPlace, InReply, Claiming
<1>e. Place(t)' = "Poll" /\ local'[t].caller # "Reply" => KeepsPlace(t)
  BY DEF KeepsPlace, InReply, Claiming
<1>f. pc'[t] \notin {"XError", "UserErrorHandler", "Asleep"} => Place(t)' = pc'[t]
  BY DEF Place
<1>s. ASSUME NEW c, NEW label, SleepAt(t, c, label)
      PROVE  same /\ Place(t)' = IF label = "XError" THEN local[t].resume ELSE label
  <2>1. pc'[t] = "Asleep" /\ local'[t] = [local[t] EXCEPT !.back = label]
    BY <1>s, <1>t, PlaceFacts
  <2>2. same /\ local'[t].back = label /\ local'[t].resume = local[t].resume
    BY <1>a, <2>1 DEF Locals
  <2> QED BY <2>1, <2>2 DEF Place
<1>r. ASSUME NEW item, NEW label \in ResumeLabels, HandleResponse(t, item, label)
      PROVE  same /\ Place(t)' = label
  <2>1. CASE pc'[t] = label /\ local'[t] = local[t]
    BY <2>1 DEF Place, ResumeLabels
  <2>2. CASE pc'[t] = "XError" /\ local'[t] = [local[t] EXCEPT !.resume = label]
    <3>1. same /\ local'[t].resume = label
      BY <1>a, <2>2 DEF Locals
    <3> QED BY <2>2, <3>1 DEF Place
  <2> QED BY <1>r, <1>t, <2>1, <2>2, PlaceFacts
<1>x. \A label \in DoneLabels : XFlush(t, label) => KeepsPlace(t)
  <2> SUFFICES ASSUME NEW label \in DoneLabels, XFlush(t, label) PROVE KeepsPlace(t)
    OBVIOUS
  <2>0. /\ pc'[t] \in {"Poll", label}
        /\ local'[t] = [local[t] EXCEPT !.caller = "Flush", !.done = label]
    BY <1>t, PlaceFacts
  <2>1. pc'[t] \in {"Poll", label} /\ local'[t].caller = "Flush"
    BY <1>a, <2>0 DEF Locals
  <2>2. Place(t)' = "Poll" \/ Place(t)' \in DoneLabels
    BY <2>1, <1>f DEF DoneLabels
  <2> QED BY <2>1, <2>2, <1>c, <1>e DEF DoneLabels
<1>p. pc[t] \in {"Poll", "PollReply", "PollAgain"} =>
         /\ Place(t) = pc[t]
         /\ local[t].caller = "Reply" => Claiming(t) /\ InReply(t)
  BY DEF Place, Claiming, InReply
<1>h. \A item : pc[t] \in {"Poll", "PollReply", "PollAgain"} =>
         (HandleResponse(t, item, AfterResponse(t)) => KeepsPlace(t))
  <2> SUFFICES ASSUME NEW item, pc[t] \in {"Poll", "PollReply", "PollAgain"},
                      HandleResponse(t, item, AfterResponse(t))
               PROVE  KeepsPlace(t)
    OBVIOUS
  <2>1. AfterResponse(t) \in {"ReadLoop", "Poll"} /\ AfterResponse(t) \in ResumeLabels
    BY <1>t, HelperTypes, LabelFacts
  <2>2. same /\ Place(t)' = AfterResponse(t)
    BY <1>r, <2>1
  <2>3. CASE local[t].caller = "Reply"
    BY <1>p, <2>2, <2>3 DEF KeepsPlace
  <2>4. CASE local[t].caller # "Reply"
    BY <1>c, <1>e, <2>1, <2>2, <2>4
  <2> QED BY <2>3, <2>4
<1>i. pc[t] \in {"Poll", "PollReply", "PollAgain"} =>
         (Goto(t, AfterNoResponse(t)) /\ UNCHANGED local => KeepsPlace(t))
  <2> SUFFICES ASSUME pc[t] \in {"Poll", "PollReply", "PollAgain"},
                      Goto(t, AfterNoResponse(t)), UNCHANGED local
               PROVE  KeepsPlace(t)
    OBVIOUS
  <2>1. pc'[t] = AfterNoResponse(t) /\ same
    BY <1>t, PlaceFacts
  <2>2. CASE local[t].caller = "Reply"
    BY <1>p, <2>1, <2>2 DEF KeepsPlace
  <2>3. CASE local[t].caller # "Reply"
    <3>1. AfterNoResponse(t) \in {"NoResponse", "TakeEvent"} \cup DoneLabels
      BY <1>a, <1>b, <2>3 DEF AfterNoResponse, Locals
    <3> QED BY <1>c, <1>f, <2>1, <3>1 DEF DoneLabels
  <2> QED BY <2>2, <2>3
<1>1. CASE LockDisplay(t)
  <2>1. CASE MustWait(t) /\ UNCHANGED <<pc, script>>
    BY <1>1, <1>d, <2>1 DEF LockDisplay, Place
  <2>2. CASE ~(MustWait(t) /\ UNCHANGED <<pc, script>>)
    <3>1. pc'[t] = Head(script[t]) /\ script[t] # <<>>
      BY <1>1, <1>t, <2>2, PlaceFacts DEF LockDisplay
    <3>2. pc'[t] \in Calls
      BY <1>a, <3>1, HeadTailProperties
    <3> QED BY <1>c, <1>f, <3>2 DEF Calls
  <2> QED BY <2>1, <2>2
<1>2. CASE UnlockDisplay(t) \/ TakeEvent(t) \/ XLockDisplay(t) \/ XUnlockDisplay(t)
           \/ WaitForEvent(t)
  BY <1>2, <1>c, <1>f, <1>t, PlaceFacts
  DEF UnlockDisplay, TakeEvent, XLockDisplay, XUnlockDisplay, WaitForEvent
<1>3. CASE Resume(t)
  <2>1. pc[t] = "Asleep" /\ pc'[t] = local[t].back /\ UNCHANGED local
    BY <1>3, <1>t, PlaceFacts DEF Resume, Outside
  <2>2. Place(t)' = Place(t)
    BY <1>b, <2>1 DEF Place, BackLabels
  <2> QED BY <1>d, <2>1, <2>2
<1>4. CASE GetRequest(t)
  <2>1. pc'[t] \in {"Unlock", "XReply", "RoundTrip"}
    BY <1>4, <1>t, PlaceFacts DEF GetRequest, RequestCalls
  <2> QED BY <1>c, <1>f, <2>1
<1>5. CASE FlushFullBuffer(t) \/ EventsQueued(t)
  <2>1. CASE FlushFullBuffer(t)
    BY <1>x, <2>1, LabelFacts DEF FlushFullBuffer
  <2>2. CASE EventsQueued(t)
    <3>1. XFlush(t, "Unlock") \/ Goto(t, "Unlock")
      BY <2>2 DEF EventsQueued
    <3> QED BY <1>c, <1>f, <1>t, <1>x, <3>1, PlaceFacts DEF DoneLabels
  <2> QED BY <1>5, <2>1, <2>2
<1>6. CASE WaitForReply(t)
  <2>1. pc[t] = "WaitForReply" /\ pc'[t] = "GotReply"
    BY <1>6, <1>t, PlaceFacts DEF WaitForReply, Outside
  <2>2. \E x, y : local'[t] = [local[t] EXCEPT !.response = x, !.error = y]
    BY <1>6, <1>a DEF WaitForReply
  <2>3. same
    BY <1>a, <2>2 DEF Locals
  <2> QED BY <2>1, <2>3 DEF KeepsPlace, Claiming, InReply, Place
<1>7. CASE GotReply(t)
  <2>1. pc[t] = "GotReply" /\ pc'[t] \in {"Poll", "FinishReply"}
    BY <1>7, <1>t, PlaceFacts DEF GotReply, Outside
  <2>2. local'[t] = local[t] \/ local'[t] = [local[t] EXCEPT !.caller = "Reply"]
    BY <1>7, <1>a DEF GotReply
  <2>3. local'[t].req = local[t].req /\ local'[t].current = local[t].current
    BY <1>a, <2>2 DEF Locals
  <2> QED BY <2>1, <2>3 DEF KeepsPlace, Claiming, InReply, Place
<1>8. CASE FinishReply(t)
  <2>1. pc[t] = "FinishReply" /\ InReply(t)
    BY <1>8 DEF FinishReply, At, InReply, Claiming, Place
  <2>2. CASE Goto(t, "ReplyDone")
    BY <1>c, <1>f, <1>t, <2>2, PlaceFacts
  <2>3. CASE ~Goto(t, "ReplyDone")
    <3>1. \E item : HandleResponse(t, item, "ReplyLoop")
      BY <1>8, <2>3 DEF FinishReply
    <3>2. same /\ Place(t)' = "ReplyLoop"
      BY <1>r, <3>1, LabelFacts
    <3> QED BY <2>1, <3>2 DEF KeepsPlace, Claiming
  <2> QED BY <2>2, <2>3
<1>9. CASE ReplyDone(t)
  <2>1. Goto(t, "Unlock") \/ \E item : HandleResponse(t, item, "Unlock")
    BY <1>9 DEF ReplyDone
  <2>2. Place(t)' = "Unlock"
    BY <1>f, <1>r, <1>t, <2>1, PlaceFacts, LabelFacts
  <2> QED BY <1>c, <2>2
<1>10. CASE Poll(t)
  <2>1. pc[t] = "Poll"
    BY <1>10 DEF Poll, At
  <2>2. \/ \E item : HandleResponse(t, item, AfterResponse(t))
        \/ Goto(t, AfterNoResponse(t)) /\ UNCHANGED local
        \/ Goto(t, "Poll") /\ UNCHANGED local
        \/ Goto(t, "PollReply") /\ UNCHANGED local
    BY <1>10 DEF Poll, TakeNextEvent, Answer
  <2>3. CASE (Goto(t, "Poll") \/ Goto(t, "PollReply")) /\ UNCHANGED local
    <3>1. pc'[t] \in {"Poll", "PollReply"}
      BY <1>t, <2>3, PlaceFacts
    <3> QED BY <1>f, <1>p, <2>1, <2>3, <3>1 DEF KeepsPlace, Claiming, InReply
  <2> QED BY <1>h, <1>i, <2>1, <2>2, <2>3
<1>11. CASE PollReply(t)
  <2>1. pc[t] = "PollReply"
    BY <1>11 DEF PollReply, At
  <2>2. \/ \E item : HandleResponse(t, item, AfterResponse(t))
        \/ Goto(t, AfterNoResponse(t)) /\ UNCHANGED local
        \/ /\ Goto(t, "PollAgain")
           /\ \E x : local' = [local EXCEPT ![t].polled = x]
    BY <1>11 DEF PollReply, TakeNextEvent
  <2>3. CASE Goto(t, "PollAgain") /\ \E x : local' = [local EXCEPT ![t].polled = x]
    <3>1. pc'[t] = "PollAgain"
      BY <1>t, <2>3, PlaceFacts
    <3>2. \E x : local'[t] = [local[t] EXCEPT !.polled = x]
      BY <1>a, <2>3
    <3>3. same
      BY <1>a, <3>2 DEF Locals
    <3> QED BY <1>f, <1>p, <2>1, <3>1, <3>3 DEF KeepsPlace, Claiming, InReply
  <2> QED BY <1>h, <1>i, <2>1, <2>2, <2>3
<1>12. CASE PollAgain(t)
  <2>1. pc[t] = "PollAgain"
    BY <1>12 DEF PollAgain, At
  <2>2. \/ \E item : HandleResponse(t, item, AfterResponse(t))
        \/ Goto(t, "Poll") /\ UNCHANGED local
    BY <1>12 DEF PollAgain, TakeNextEvent, Answer
  <2>3. CASE Goto(t, "Poll") /\ UNCHANGED local
    <3>1. pc'[t] = "Poll"
      BY <1>t, <2>3, PlaceFacts
    <3> QED BY <1>f, <1>p, <2>1, <2>3, <3>1 DEF KeepsPlace, Claiming, InReply
  <2> QED BY <1>h, <2>1, <2>2, <2>3
<1>13. CASE XError(t)
  <2>1. pc[t] = "XError" /\ Place(t) = local[t].resume
    BY <1>13 DEF XError, At, Place
  <2>2. CASE SleepAt(t, "cv", "XError")
    BY <1>d, <1>s, <2>1, <2>2
  <2>3. CASE Goto(t, "UserErrorHandler") /\ UNCHANGED local
    <3>1. pc'[t] = "UserErrorHandler"
      BY <1>t, <2>3, PlaceFacts
    <3>2. Place(t)' = local[t].resume
      BY <2>3, <3>1 DEF Place
    <3> QED BY <1>d, <2>1, <2>3, <3>2
  <2> QED BY <1>13, <2>2, <2>3 DEF XError
<1>14. CASE UserErrorHandler(t)
  <2>1. pc[t] = "UserErrorHandler" /\ pc'[t] = local[t].resume /\ UNCHANGED local
    BY <1>14, <1>t, PlaceFacts DEF UserErrorHandler, Outside
  <2>2. Place(t)' = Place(t)
    BY <1>b, <2>1 DEF Place, ResumeLabels
  <2> QED BY <1>d, <2>1, <2>2
<1>15. CASE NextEvent(t)
  <2>1. pc'[t] \in {"TakeEvent", "ReadLoop"}
    BY <1>15, <1>t, PlaceFacts DEF NextEvent
  <2> QED BY <1>c, <1>f, <2>1
<1>16. CASE ReadLoop(t)
  <2>1. \/ Goto(t, "TakeEvent") \/ Goto(t, "WaitForEvent")
        \/ SleepAt(t, "event_notify", "ReadLoop")
        \/ Goto(t, "Poll") /\ local' = [local EXCEPT ![t].caller = "Drain"]
        \/ Goto(t, "Poll") /\ local' = [local EXCEPT ![t].caller = "ReadEvents"]
    BY <1>16 DEF ReadLoop
  <2>2. CASE Goto(t, "TakeEvent") \/ Goto(t, "WaitForEvent")
    BY <1>c, <1>f, <1>t, <2>2, PlaceFacts
  <2>3. CASE SleepAt(t, "event_notify", "ReadLoop")
    BY <1>c, <1>s, <2>3
  <2>4. ASSUME NEW x \in {"Drain", "ReadEvents"}, Goto(t, "Poll"),
               local' = [local EXCEPT ![t].caller = x]
        PROVE  KeepsPlace(t)
    <3>1. pc'[t] = "Poll"
      BY <1>t, <2>4, PlaceFacts
    <3>2. local'[t] = [local[t] EXCEPT !.caller = x]
      BY <1>a, <2>4
    <3>3. local'[t].caller # "Reply"
      BY <1>a, <3>2 DEF Locals
    <3> QED BY <1>e, <1>f, <3>1, <3>3
  <2> QED BY <2>1, <2>2, <2>3, <2>4
<1>17. CASE GotEvent(t)
  <2>1. pc'[t] = "Poll"
    BY <1>17, <1>t, PlaceFacts DEF GotEvent
  <2>2. local'[t] = [local[t] EXCEPT !.caller = "ReadEvents", !.event = NoItem]
    BY <1>17, <1>a DEF GotEvent
  <2>3. local'[t].caller # "Reply"
    BY <1>a, <2>2 DEF Locals
  <2> QED BY <1>e, <1>f, <2>1, <2>3
<1>18. CASE NoResponse(t)
  <2>1. pc[t] = "NoResponse" /\ (SleepAt(t, "reply_notify", "ReadLoop") \/ UNCHANGED <<pc, local>>)
    BY <1>18 DEF NoResponse, At
  <2> QED BY <1>c, <1>d, <1>s, <2>1 DEF Place
<1> QED
  BY <1>1, <1>2, <1>3, <1>4, <1>5, <1>6, <1>7, <1>8, <1>9, <1>10, <1>11, <1>12,
     <1>13, <1>14, <1>15, <1>16, <1>17, <1>18
  DEF Thread

-----------------------------------------------------------------------------
(***************************************************************************)
(* The list of pending requests and the threads that wait in it.           *)
(***************************************************************************)
QueueInv == PendingSorted /\ ClaimIsHead /\ CurrentListed /\ CurrentDistinct

\* list is pending_requests with requests first flushed now behind it.
Extends(list, flushed) ==
    /\ Len(pending_requests) <= Len(list)
    /\ \A i \in 1..Len(pending_requests) : list[i] = pending_requests[i]
    /\ \A i \in Len(pending_requests) + 1..Len(list) :
          list[i].sequence \in last_flushed + 1..flushed
    /\ \A i, j \in Len(pending_requests) + 1..Len(list) :
          i < j => list[i].sequence < list[j].sequence

\* Steps that only flush requests, and move threads without giving them or
\* taking from them anything they wait for.
LEMMA QueueFrame ==
    ASSUME IInv, TypeOK', Extends(pending_requests', last_flushed'),
           last_flushed <= last_flushed', \A u \in Threads : KeepsPlace(u)
    PROVE  QueueInv'
<1>a. /\ pending_requests \in Seq(PendingRequest) /\ Len(pending_requests) \in Nat
      /\ pending_requests' \in Seq(PendingRequest) /\ Len(pending_requests') \in Nat
      /\ last_flushed \in Nat /\ last_flushed' \in Nat
      /\ Len(pending_requests) <= Len(pending_requests')
  BY LenProperties DEF IInv, TypeOK, RequestTypeOK, Extends
<1>s. /\ \A i \in 1..Len(pending_requests) : pending_requests[i].sequence \in Nat
      /\ \A i \in 1..Len(pending_requests') : pending_requests'[i].sequence \in Nat
  <2>1. /\ \A i \in 1..Len(pending_requests) : pending_requests[i] \in PendingRequest
        /\ \A i \in 1..Len(pending_requests') : pending_requests'[i] \in PendingRequest
    BY <1>a
  <2> QED BY <2>1 DEF PendingRequest
<1>1. PendingSorted'
  <2>1. ASSUME NEW i \in 1..Len(pending_requests')
        PROVE  /\ pending_requests'[i].sequence \in 1..last_flushed'
               /\ i <= Len(pending_requests) => pending_requests'[i].sequence <= last_flushed
               /\ i > Len(pending_requests) => pending_requests'[i].sequence > last_flushed
    BY <1>a, <1>s DEF IInv, PendingSorted, Extends
  <2>2. ASSUME NEW i \in 1..Len(pending_requests'), NEW j \in 1..Len(pending_requests'), i < j
        PROVE  pending_requests'[i].sequence < pending_requests'[j].sequence
    <3>1. CASE j <= Len(pending_requests)
      <4>1. i \in 1..Len(pending_requests) /\ j \in 1..Len(pending_requests)
        BY <1>a, <2>2, <3>1
      <4>2. pending_requests[i].sequence < pending_requests[j].sequence
        BY <2>2, <4>1 DEF IInv, PendingSorted
      <4>3. pending_requests'[i] = pending_requests[i] /\ pending_requests'[j] = pending_requests[j]
        BY <4>1 DEF Extends
      <4> QED BY <4>2, <4>3
    <3>2. CASE i > Len(pending_requests)
      <4>1. /\ i \in Len(pending_requests) + 1..Len(pending_requests')
            /\ j \in Len(pending_requests) + 1..Len(pending_requests')
        BY <1>a, <2>2, <3>2
      <4> QED BY <2>2, <4>1 DEF Extends
    <3>3. CASE i <= Len(pending_requests) /\ j > Len(pending_requests)
      BY <1>a, <1>s, <2>1, <3>3
    <3> QED BY <1>a, <2>2, <3>1, <3>2, <3>3
  <2> QED BY <2>1, <2>2 DEF PendingSorted
<1>2. ClaimIsHead'
  <2> SUFFICES ASSUME NEW t \in Threads, Claiming(t)'
               PROVE  /\ pending_requests' # <<>>
                      /\ Head(pending_requests').sequence = local'[t].req
                      /\ Head(pending_requests').reply_waiter
                      /\ \A u \in Threads : Claiming(u)' => u = t
    BY DEF ClaimIsHead
  <2>1. Claiming(t) /\ local'[t].req = local[t].req
    BY DEF KeepsPlace
  <2>2. /\ pending_requests # <<>>
        /\ Head(pending_requests).sequence = local[t].req
        /\ Head(pending_requests).reply_waiter
        /\ \A u \in Threads : Claiming(u) => u = t
    BY <2>1 DEF IInv, ClaimIsHead
  <2>3. pending_requests' # <<>> /\ Head(pending_requests') = Head(pending_requests)
    <3>1. Len(pending_requests) \in Nat \ {0} /\ Head(pending_requests) = pending_requests[1]
      BY <1>a, <2>2, PendingHead
    <3>2. Len(pending_requests') # 0
      BY <1>a, <3>1
    <3>3. Head(pending_requests') = pending_requests'[1]
      BY <1>a, <3>2, PendingHead
    <3>4. pending_requests'[1] = pending_requests[1]
      BY <3>1 DEF Extends
    <3> QED BY <3>1, <3>2, <3>3, <3>4
  <2> QED BY <2>1, <2>2, <2>3 DEF KeepsPlace
<1>3. CurrentListed'
  <2> SUFFICES ASSUME NEW t \in Threads, InReply(t)' PROVE Listed(local[t].current)'
    BY DEF CurrentListed
  <2>1. InReply(t) /\ local'[t].current = local[t].current
    BY DEF KeepsPlace
  <2>2. PICK i \in 1..Len(pending_requests) :
           pending_requests[i].sequence = local[t].current /\ pending_requests[i].reply_waiter
    BY <2>1 DEF IInv, CurrentListed, Listed
  <2>3. i \in 1..Len(pending_requests') /\ pending_requests'[i] = pending_requests[i]
    BY <1>a DEF Extends
  <2> QED BY <2>1, <2>2, <2>3 DEF Listed
<1>4. CurrentDistinct'
  BY DEF IInv, CurrentDistinct, KeepsPlace
<1> QED
  BY <1>1, <1>2, <1>3, <1>4 DEF QueueInv

\* _XSend flushes requests in the order they were made.
LEMMA AfterXSendExtends ==
    ASSUME IInv
    PROVE  /\ Extends(AfterXSend, Len(issued))
           /\ AfterXSend = pending_requests \/
                /\ Len(AfterXSend) = Len(pending_requests) + (Len(issued) - last_flushed)
                /\ Len(issued) > last_flushed =>
                      AfterXSend[Len(AfterXSend)].sequence = Len(issued)
<1>a. /\ pending_requests \in Seq(PendingRequest) /\ Len(pending_requests) \in Nat
      /\ Len(issued) \in Nat /\ last_flushed \in 0..Len(issued)
      /\ last_flushed + 1 \in Nat /\ last_flushed + 1 <= Len(issued) + 1
  BY LenProperties DEF IInv, TypeOK, RequestTypeOK
<1>1. CASE AfterXSend = pending_requests
  BY <1>1, <1>a DEF Extends
<1>2. CASE AfterXSend = Appended(pending_requests, last_flushed + 1, Len(issued))
  <2> DEFINE list == Appended(pending_requests, last_flushed + 1, Len(issued))
  <2>1. /\ Len(list) = Len(pending_requests) + (Len(issued) + 1 - (last_flushed + 1))
        /\ \A i \in 1..Len(pending_requests) : list[i] = pending_requests[i]
        /\ \A i \in (Len(pending_requests) + 1)..(Len(pending_requests) + (Len(issued) + 1 - (last_flushed + 1))) :
              list[i] = [sequence |-> last_flushed + 1 + (i - Len(pending_requests)) - 1,
                         reply_waiter |-> FALSE]
    BY <1>a, AppendedProperties
  <2> HIDE DEF list
  <2>2. Len(list) = Len(pending_requests) + (Len(issued) - last_flushed)
    BY <1>a, <2>1
  <2>3. \A i \in Len(pending_requests) + 1..Len(list) :
           list[i].sequence = last_flushed + (i - Len(pending_requests))
    <3> SUFFICES ASSUME NEW i \in Len(pending_requests) + 1..Len(list)
                 PROVE  list[i].sequence = last_flushed + (i - Len(pending_requests))
      OBVIOUS
    <3>1. i \in (Len(pending_requests) + 1)..(Len(pending_requests) + (Len(issued) + 1 - (last_flushed + 1)))
      BY <1>a, <2>2
    <3>2. list[i] = [sequence |-> last_flushed + 1 + (i - Len(pending_requests)) - 1,
                     reply_waiter |-> FALSE]
      BY <2>1, <3>1
    <3>3. list[i].sequence = last_flushed + 1 + (i - Len(pending_requests)) - 1
      BY <3>2
    <3> QED BY <1>a, <3>1, <3>3
  <2>4. Extends(list, Len(issued))
    <3>1. Len(pending_requests) <= Len(list)
      BY <1>a, <2>2
    <3>2. \A i \in Len(pending_requests) + 1..Len(list) :
             /\ i - Len(pending_requests) \in 1..Len(issued) - last_flushed
             /\ list[i].sequence \in last_flushed + 1..Len(issued)
      BY <1>a, <2>2, <2>3
    <3>3. \A i, j \in Len(pending_requests) + 1..Len(list) :
             i < j => list[i].sequence < list[j].sequence
      BY <1>a, <2>3
    <3> QED BY <2>1, <3>1, <3>2, <3>3 DEF Extends
  <2>5. Len(issued) > last_flushed => list[Len(list)].sequence = Len(issued)
    BY <1>a, <2>2, <2>3
  <2> QED BY <1>2, <2>2, <2>4, <2>5 DEF list
<1> QED
  BY <1>1, <1>2 DEF AfterXSend


\* The place of a thread that a step leaves alone.
LEMMA OthersKeep ==
    \A t \in Threads : IInv /\ Thread(t) =>
       \A u \in Threads : u # t =>
          /\ Place(u)' = Place(u) /\ local'[u] = local[u]
          /\ (Claiming(u)' <=> Claiming(u)) /\ (InReply(u)' <=> InReply(u))
          /\ KeepsPlace(u)
BY OthersFrame DEF Place, Claiming, InReply, KeepsPlace

\* _XReply's request is at the end of the list, behind all the others.
LEMMA ReplyListLast ==
    ASSUME IInv, last_flushed < Len(issued)
    PROVE  /\ Len(ReplyList) > Len(pending_requests)
           /\ Extends(ReplyList, Len(issued))
           /\ ReplyList[Len(ReplyList)].sequence = Len(issued)
           /\ ~IsListed(AfterXSend) /\ AfterXSend # <<>> =>
                 AfterXSend[Len(AfterXSend)].sequence < Len(issued)
<1>a. /\ pending_requests \in Seq(PendingRequest) /\ Len(pending_requests) \in Nat
      /\ Len(issued) \in Nat /\ last_flushed \in Nat
      /\ AfterXSend \in Seq(PendingRequest) /\ Len(AfterXSend) \in Nat
  BY HelperTypes, LenProperties DEF IInv, TypeOK, RequestTypeOK
<1>b. \A i \in 1..Len(pending_requests) : pending_requests[i].sequence \in 1..last_flushed
  BY DEF IInv, PendingSorted
<1>1. CASE IsListed(AfterXSend)
  <2>1. ReplyList = AfterXSend /\ AfterXSend # <<>>
        /\ AfterXSend[Len(AfterXSend)].sequence = Len(issued)
    BY <1>1 DEF ReplyList, IsListed
  <2>2. Len(AfterXSend) > 0
    BY <1>a, <2>1
  <2>3. AfterXSend # pending_requests
    BY <1>a, <1>b, <2>1, <2>2
  <2> QED BY <1>1, <1>a, <2>1, <2>3, AfterXSendExtends
<1>2. CASE ~IsListed(AfterXSend)
  <2>1. AfterXSend = pending_requests
    <3> SUFFICES ASSUME AfterXSend # pending_requests PROVE FALSE
      OBVIOUS
    <3>1. /\ Len(AfterXSend) = Len(pending_requests) + (Len(issued) - last_flushed)
          /\ AfterXSend[Len(AfterXSend)].sequence = Len(issued)
      BY AfterXSendExtends
    <3>2. AfterXSend # <<>>
      BY <1>a, <3>1
    <3> QED BY <1>2, <3>1, <3>2 DEF IsListed
  <2>2. AfterXSend # <<>> => AfterXSend[Len(AfterXSend)].sequence < Len(issued)
    <3>1. pending_requests # <<>> => Len(pending_requests) \in 1..Len(pending_requests)
      BY <1>a
    <3> QED BY <1>a, <1>b, <2>1, <3>1
  <2>3. ReplyList = Appended(pending_requests, Len(issued), Len(issued))
    BY <1>2, <2>1 DEF ReplyList
  <2>4. /\ Len(ReplyList) = Len(pending_requests) + (Len(issued) + 1 - Len(issued))
        /\ \A i \in 1..Len(pending_requests) : ReplyList[i] = pending_requests[i]
        /\ \A i \in (Len(pending_requests) + 1)..(Len(pending_requests) + (Len(issued) + 1 - Len(issued))) :
              ReplyList[i] = [sequence |-> Len(issued) + (i - Len(pending_requests)) - 1,
                              reply_waiter |-> FALSE]
    <3>1. Len(issued) <= Len(issued) + 1
      BY <1>a
    <3> DEFINE list == Appended(pending_requests, Len(issued), Len(issued))
    <3>2. /\ Len(list) = Len(pending_requests) + (Len(issued) + 1 - Len(issued))
          /\ \A i \in 1..Len(pending_requests) : list[i] = pending_requests[i]
          /\ \A i \in (Len(pending_requests) + 1)..(Len(pending_requests) + (Len(issued) + 1 - Len(issued))) :
                list[i] = [sequence |-> Len(issued) + (i - Len(pending_requests)) - 1,
                           reply_waiter |-> FALSE]
      BY <1>a, <3>1, AppendedProperties
    <3>3. ReplyList = list
      BY <2>3
    <3> HIDE DEF list
    <3> QED BY <3>2, <3>3
  <2>5. Len(ReplyList) = Len(pending_requests) + 1
    BY <1>a, <2>4
  <2>6. ReplyList[Len(ReplyList)].sequence = Len(issued)
    <3>1. Len(ReplyList) \in (Len(pending_requests) + 1)..(Len(pending_requests) + (Len(issued) + 1 - Len(issued)))
      BY <1>a, <2>5
    <3>2. ReplyList[Len(ReplyList)] =
             [sequence |-> Len(issued) + (Len(ReplyList) - Len(pending_requests)) - 1,
              reply_waiter |-> FALSE]
      BY <2>4, <3>1
    <3>3. ReplyList[Len(ReplyList)].sequence =
             Len(issued) + (Len(ReplyList) - Len(pending_requests)) - 1
      BY <3>2
    <3> QED BY <1>a, <2>5, <3>3
  <2>7. Extends(ReplyList, Len(issued))
    <3>1. \A i \in Len(pending_requests) + 1..Len(ReplyList) : i = Len(ReplyList)
      BY <1>a, <2>5
    <3> QED BY <1>a, <2>4, <2>5, <2>6, <3>1 DEF Extends
  <2> QED BY <1>2, <1>a, <2>2, <2>5, <2>6, <2>7
<1> QED
  BY <1>1, <1>2


\* _XReply puts its request at the end of the list and claims it.
LEMMA QueueXReply ==
    \A t \in Threads : IInv /\ XReply(t) /\ TypeOK' =>
       QueueInv' /\ fatal' # "sequence_assert"
<1> SUFFICES ASSUME IInv, NEW t \in Threads, XReply(t), TypeOK'
             PROVE  QueueInv' /\ fatal' # "sequence_assert"
  OBVIOUS
<1> DEFINE last == Len(ReplyList)
<1>a. /\ pending_requests \in Seq(PendingRequest) /\ Len(pending_requests) \in Nat
      /\ Len(issued) \in Nat /\ last_flushed \in Nat
      /\ AfterXSend \in Seq(PendingRequest)
      /\ ReplyList \in Seq(PendingRequest) /\ last \in Nat \ {0}
      /\ pc \in [Threads -> Labels] /\ local \in [Threads -> Locals]
  BY HelperTypes, ReplyListType, LenProperties DEF IInv, TypeOK, RequestTypeOK, ThreadTypeOK
<1>b. last_flushed < Len(issued) /\ last_flushed' = Len(issued)
  BY DEF XReply, At, IInv, AtPlaces
<1>c. /\ last > Len(pending_requests)
      /\ Extends(ReplyList, Len(issued))
      /\ ReplyList[last].sequence = Len(issued)
      /\ ~IsListed(AfterXSend) /\ AfterXSend # <<>> =>
            AfterXSend[Len(AfterXSend)].sequence < Len(issued)
  BY <1>b, ReplyListLast
<1>d. \A i \in 1..last : ReplyList[i].sequence \in Nat
  <2>1. \A i \in 1..last : ReplyList[i] \in PendingRequest
    BY <1>a
  <2> QED BY <2>1 DEF PendingRequest
<1>e. /\ pending_requests' = Claimed(ReplyList, last)
      /\ local' = [local EXCEPT ![t].current = pending_requests'[Len(pending_requests')].sequence]
      /\ pc' = [pc EXCEPT ![t] = "ReplyLoop"]
  BY DEF XReply, Goto
<1>f. /\ Len(pending_requests') = last
      /\ \A i \in 1..last : pending_requests'[i].sequence = ReplyList[i].sequence
      /\ \A i \in 1..last : i # last => pending_requests'[i] = ReplyList[i]
      /\ pending_requests'[last].reply_waiter
  <2>1. last \in 1..Len(ReplyList)
    BY <1>a
  <2>2. /\ Len(Claimed(ReplyList, last)) = Len(ReplyList)
        /\ \A i \in 1..Len(ReplyList) :
              /\ Claimed(ReplyList, last)[i].sequence = ReplyList[i].sequence
              /\ i # last => Claimed(ReplyList, last)[i] = ReplyList[i]
        /\ Claimed(ReplyList, last)[last].reply_waiter
    BY <1>a, <2>1, ClaimedProperties
  <2> QED BY <1>e, <2>2
<1>l. last = Len(ReplyList)
  OBVIOUS
<1> HIDE DEF last
<1>g. /\ local'[t].current = Len(issued)
      /\ Place(t)' = "ReplyLoop" /\ ~Claiming(t)' /\ InReply(t)'
  <2>1. local'[t].current = pending_requests'[last].sequence
    BY <1>a, <1>e, <1>f DEF Locals
  <2>2. pc'[t] = "ReplyLoop"
    BY <1>a, <1>e
  <2> QED BY <1>a, <1>c, <1>f, <2>1, <2>2 DEF Place, Claiming, InReply
<1>h. \A i \in 1..Len(pending_requests) :
         /\ i \in 1..last /\ i # last
         /\ pending_requests'[i] = pending_requests[i]
         /\ pending_requests[i].sequence \in 1..last_flushed
  BY <1>a, <1>c, <1>f DEF Extends, IInv, PendingSorted
<1>i. \A u \in Threads : u # t =>
         /\ local'[u] = local[u]
         /\ (Claiming(u)' <=> Claiming(u)) /\ (InReply(u)' <=> InReply(u))
  BY OthersKeep DEF Thread
<1>1. PendingSorted'
  <2>1. \A i \in 1..last :
           /\ pending_requests'[i].sequence \in 1..Len(issued)
           /\ i <= Len(pending_requests) => pending_requests'[i].sequence <= last_flushed
           /\ i > Len(pending_requests) => pending_requests'[i].sequence > last_flushed
    <3> SUFFICES ASSUME NEW i \in 1..last
                 PROVE  /\ pending_requests'[i].sequence \in 1..Len(issued)
                        /\ i <= Len(pending_requests) =>
                              pending_requests'[i].sequence <= last_flushed
                        /\ i > Len(pending_requests) =>
                              pending_requests'[i].sequence > last_flushed
      OBVIOUS
    <3>1. CASE i <= Len(pending_requests)
      <4>1. i \in 1..Len(pending_requests)
        BY <1>a, <3>1
      <4>2. pending_requests'[i].sequence \in 1..last_flushed
        BY <1>h, <4>1
      <4> QED BY <1>a, <1>b, <3>1, <4>2
    <3>2. CASE i > Len(pending_requests)
      <4>1. i \in Len(pending_requests) + 1..Len(ReplyList)
        BY <1>a, <1>l, <3>2
      <4>2. pending_requests'[i].sequence \in last_flushed + 1..Len(issued)
        BY <1>c, <1>f, <4>1 DEF Extends
      <4> QED BY <1>a, <3>2, <4>2
    <3> QED BY <1>a, <3>1, <3>2
  <2>2. ASSUME NEW i \in 1..last, NEW j \in 1..last, i < j
        PROVE  pending_requests'[i].sequence < pending_requests'[j].sequence
    <3>1. CASE j <= Len(pending_requests)
      <4>1. i \in 1..Len(pending_requests) /\ j \in 1..Len(pending_requests)
        BY <1>a, <2>2, <3>1
      <4>2. pending_requests[i].sequence < pending_requests[j].sequence
        BY <2>2, <4>1 DEF IInv, PendingSorted
      <4> QED BY <1>h, <4>1, <4>2
    <3>2. CASE i > Len(pending_requests)
      <4>1. /\ i \in Len(pending_requests) + 1..Len(ReplyList)
            /\ j \in Len(pending_requests) + 1..Len(ReplyList)
        BY <1>a, <1>l, <2>2, <3>2
      <4>2. ReplyList[i].sequence < ReplyList[j].sequence
        BY <1>c, <2>2, <4>1 DEF Extends
      <4> QED BY <1>f, <4>2
    <3>3. CASE i <= Len(pending_requests) /\ j > Len(pending_requests)
      BY <1>a, <1>d, <1>f, <2>1, <3>3
    <3> QED BY <1>a, <2>2, <3>1, <3>2, <3>3
  <2> QED BY <1>b, <1>f, <2>1, <2>2 DEF PendingSorted
<1>2. ClaimIsHead'
  <2> SUFFICES ASSUME NEW u \in Threads, Claiming(u)'
               PROVE  /\ pending_requests' # <<>>
                      /\ Head(pending_requests').sequence = local'[u].req
                      /\ Head(pending_requests').reply_waiter
                      /\ \A v \in Threads : Claiming(v)' => v = u
    BY DEF ClaimIsHead
  <2>1. u # t /\ Claiming(u) /\ local'[u] = local[u]
    BY <1>g, <1>i
  <2>2. /\ pending_requests # <<>>
        /\ Head(pending_requests).sequence = local[u].req
        /\ Head(pending_requests).reply_waiter
        /\ \A v \in Threads : Claiming(v) => v = u
    BY <2>1 DEF IInv, ClaimIsHead
  <2>3. /\ Head(pending_requests) = pending_requests[1]
        /\ 1 \in 1..Len(pending_requests)
    BY <1>a, <2>2, PendingHead
  <2>4. pending_requests' # <<>> /\ Head(pending_requests') = pending_requests'[1]
    <3>1. pending_requests' \in Seq(PendingRequest) /\ pending_requests' # <<>>
      BY <1>a, <1>f DEF TypeOK, RequestTypeOK
    <3> QED BY <3>1, PendingHead
  <2> QED BY <1>g, <1>h, <1>i, <2>1, <2>2, <2>3, <2>4
<1>3. CurrentListed'
  <2> SUFFICES ASSUME NEW u \in Threads, InReply(u)' PROVE Listed(local[u].current)'
    BY DEF CurrentListed
  <2>1. CASE u = t
    <3>1. last \in 1..Len(pending_requests')
      BY <1>a, <1>f
    <3> QED BY <1>c, <1>f, <1>g, <2>1, <3>1 DEF Listed
  <2>2. CASE u # t
    <3>1. PICK i \in 1..Len(pending_requests) :
             pending_requests[i].sequence = local[u].current /\ pending_requests[i].reply_waiter
      BY <1>i, <2>2 DEF IInv, CurrentListed, Listed
    <3> QED BY <1>f, <1>h, <1>i, <2>2, <3>1 DEF Listed
  <2> QED BY <2>1, <2>2
<1>4. CurrentDistinct'
  <2>1. ASSUME NEW u \in Threads, u # t, InReply(u)'
        PROVE  /\ local'[u].current # local'[t].current
               /\ Claiming(u)' => local'[u].req # local'[t].current
    <3>1. local[u].current \in 1..last_flushed
      BY <1>h, <1>i, <2>1 DEF IInv, CurrentListed, Listed
    <3>2. Claiming(u) => local[u].req \in 1..last_flushed
      <4> SUFFICES ASSUME Claiming(u) PROVE local[u].req \in 1..last_flushed
        OBVIOUS
      <4>1. pending_requests # <<>> /\ Head(pending_requests).sequence = local[u].req
        BY DEF IInv, ClaimIsHead
      <4>2. Head(pending_requests) = pending_requests[1] /\ 1 \in 1..Len(pending_requests)
        BY <1>a, <4>1, PendingHead
      <4> QED BY <1>h, <4>1, <4>2
    <3> QED BY <1>a, <1>b, <1>g, <1>i, <2>1, <3>1, <3>2
  <2> SUFFICES ASSUME NEW v \in Threads, NEW u \in Threads, v # u, InReply(v)', InReply(u)'
               PROVE  /\ local'[v].current # local'[u].current
                      /\ Claiming(u)' => local'[u].req # local'[v].current
    BY DEF CurrentDistinct
  <2>2. CASE v = t
    BY <2>1, <2>2
  <2>3. CASE u = t
    BY <1>g, <2>1, <2>3
  <2>4. CASE v # t /\ u # t
    BY <1>i, <2>4 DEF IInv, CurrentDistinct
  <2> QED BY <2>2, <2>3, <2>4
<1>5. fatal' # "sequence_assert"
  <2>1. fatal # "sequence_assert"
    BY DEF IInv
  <2>2. AfterXSend # <<>> => AfterXSend[Len(AfterXSend)].sequence \in Nat
    <3>1. AfterXSend # <<>> => AfterXSend[Len(AfterXSend)] \in PendingRequest
      BY <1>a
    <3> QED BY <3>1 DEF PendingRequest
  <2> QED BY <1>a, <1>c, <2>1, <2>2 DEF XReply
<1> QED
  BY <1>1, <1>2, <1>3, <1>4, <1>5 DEF QueueInv


\* The top of _XReply's loop: a thread claims the head of the list only
\* when no other thread has it or wants it.
LEMMA QueueReplyLoop ==
    \A t \in Threads : IInv /\ ReplyLoop(t) /\ TypeOK' => QueueInv'
<1> SUFFICES ASSUME IInv, NEW t \in Threads, ReplyLoop(t), TypeOK' PROVE QueueInv'
  OBVIOUS
<1>a. /\ pending_requests \in Seq(PendingRequest) /\ Len(pending_requests) \in Nat
      /\ last_flushed' = last_flushed /\ last_flushed \in Nat
      /\ pc \in [Threads -> Labels] /\ local \in [Threads -> Locals]
  BY LenProperties DEF IInv, TypeOK, RequestTypeOK, ThreadTypeOK, ReplyLoop, sendVars
<1>b. pc[t] = "ReplyLoop" /\ Place(t) = "ReplyLoop" /\ InReply(t)
  BY DEF ReplyLoop, At, Place, InReply
<1>c. PICK k \in 1..Len(pending_requests) :
         pending_requests[k].sequence = local[t].current /\ pending_requests[k].reply_waiter
  BY <1>b DEF IInv, CurrentListed, Listed
<1>h. /\ pending_requests # <<>> /\ 1 \in 1..Len(pending_requests)
      /\ FirstPending = pending_requests[1] /\ FirstPending = Head(pending_requests)
      /\ FirstPending.sequence \in Nat
  BY <1>a, <1>c, PendingHead DEF FirstPending
<1>i. \A u \in Threads : u # t =>
         /\ local'[u] = local[u] /\ KeepsPlace(u)
         /\ (Claiming(u)' <=> Claiming(u)) /\ (InReply(u)' <=> InReply(u))
  BY OthersKeep DEF Thread
<1>1. CASE SleepAt(t, "reply_notify", "ReplyLoop") /\ UNCHANGED pending_requests
  <2>1. /\ pc'[t] = "Asleep" /\ local'[t] = [local[t] EXCEPT !.back = "ReplyLoop"]
    BY <1>1, PlaceFacts DEF IInv
  <2>2. local'[t].back = "ReplyLoop" /\ local'[t].current = local[t].current
    BY <1>a, <2>1 DEF Locals
  <2>3. KeepsPlace(t)
    BY <1>b, <2>1, <2>2 DEF KeepsPlace, Claiming, InReply, Place
  <2>4. Extends(pending_requests', last_flushed')
    BY <1>1, <1>a DEF Extends
  <2> QED BY <1>a, <1>i, <2>3, <2>4, QueueFrame
<1>2. CASE /\ FirstPending.sequence = local[t].current \/ ~FirstPending.reply_waiter
           /\ pending_requests' = Claimed(pending_requests, 1)
           /\ local' = [local EXCEPT ![t].req = FirstPending.sequence]
           /\ Goto(t, "WaitForReply")
  <2>a. /\ Len(pending_requests') = Len(pending_requests)
        /\ \A i \in 1..Len(pending_requests) :
              /\ pending_requests'[i].sequence = pending_requests[i].sequence
              /\ i # 1 => pending_requests'[i] = pending_requests[i]
        /\ pending_requests'[1].reply_waiter
    BY <1>2, <1>a, <1>h, ClaimedProperties
  <2>b. pending_requests' # <<>> /\ Head(pending_requests') = pending_requests'[1]
    <3>1. pending_requests' \in Seq(PendingRequest) /\ pending_requests' # <<>>
      BY <1>a, <1>h, <2>a DEF TypeOK, RequestTypeOK
    <3> QED BY <3>1, PendingHead
  <2>c. /\ local'[t].req = FirstPending.sequence /\ local'[t].current = local[t].current
        /\ Claiming(t)' /\ InReply(t)'
    <3>1. local'[t].req = FirstPending.sequence /\ local'[t].current = local[t].current
      BY <1>2, <1>a DEF Locals
    <3>2. pc'[t] = "WaitForReply"
      BY <1>2, <1>a DEF Goto
    <3> QED BY <3>1, <3>2 DEF Claiming, InReply, Place
  <2>d. \A i \in 1..Len(pending_requests) :
           pending_requests[i].sequence = FirstPending.sequence => i = 1
    <3> SUFFICES ASSUME NEW i \in 1..Len(pending_requests), i # 1
                 PROVE  pending_requests[i].sequence # FirstPending.sequence
      OBVIOUS
    <3>1. 1 < i
      BY <1>a
    <3>2. pending_requests[1].sequence < pending_requests[i].sequence
      BY <1>h, <3>1 DEF IInv, PendingSorted
    <3> QED BY <1>h, <3>2
  <2>1. PendingSorted'
    BY <1>a, <2>a DEF IInv, PendingSorted
  <2>e. ASSUME NEW u \in Threads, u # t, InReply(u)
        PROVE  local[u].current # FirstPending.sequence /\ ~Claiming(u)
    <3>1. local[u].current # local[t].current /\ (Claiming(u) => local[u].req # local[t].current)
      BY <1>b, <2>e DEF IInv, CurrentDistinct
    <3>2. PICK i \in 1..Len(pending_requests) :
             pending_requests[i].sequence = local[u].current /\ pending_requests[i].reply_waiter
      BY <2>e DEF IInv, CurrentListed, Listed
    <3>3. local[u].current # FirstPending.sequence
      BY <1>2, <1>h, <2>d, <3>1, <3>2
    <3>4. ~Claiming(u)
      BY <1>2, <1>h, <3>1 DEF IInv, ClaimIsHead
    <3> QED BY <3>3, <3>4
  <2>2. ClaimIsHead'
    <3>1. \A u \in Threads : Claiming(u)' => u = t
      BY <1>i, <2>e DEF InReply
    <3> QED BY <1>h, <2>a, <2>b, <2>c, <3>1 DEF ClaimIsHead
  <2>3. CurrentListed'
    <3> SUFFICES ASSUME NEW u \in Threads, InReply(u)' PROVE Listed(local[u].current)'
      BY DEF CurrentListed
    <3>1. InReply(u) /\ local'[u].current = local[u].current
      BY <1>b, <1>i, <2>c
    <3>2. PICK i \in 1..Len(pending_requests) :
             pending_requests[i].sequence = local[u].current /\ pending_requests[i].reply_waiter
      BY <3>1 DEF IInv, CurrentListed, Listed
    <3>3. pending_requests'[i].sequence = local'[u].current /\ pending_requests'[i].reply_waiter
      BY <2>a, <3>1, <3>2
    <3> QED BY <2>a, <3>3 DEF Listed
  <2>4. CurrentDistinct'
    <3> SUFFICES ASSUME NEW v \in Threads, NEW u \in Threads, v # u, InReply(v)', InReply(u)'
                 PROVE  /\ local'[v].current # local'[u].current
                        /\ Claiming(u)' => local'[u].req # local'[v].current
      BY DEF CurrentDistinct
    <3>1. /\ InReply(v) /\ local'[v].current = local[v].current
          /\ InReply(u) /\ local'[u].current = local[u].current
      BY <1>b, <1>i, <2>c
    <3>2. local'[v].current # local'[u].current
      BY <3>1 DEF IInv, CurrentDistinct
    <3>3. CASE u = t
      BY <2>c, <2>e, <3>1, <3>2, <3>3
    <3>4. CASE u # t
      BY <1>i, <2>e, <3>1, <3>2, <3>4
    <3> QED BY <3>3, <3>4
  <2> QED BY <2>1, <2>2, <2>3, <2>4 DEF QueueInv
<1> QED
  BY <1>1, <1>2 DEF ReplyLoop


\* A processed request leaves the list, or nobody waits for it any more;
\* all that is asked of it is that no thread in _XReply wants it.
LEMMA QueueDequeue ==
    ASSUME IInv, TypeOK', last_flushed' = last_flushed, NEW req \in Nat,
           \/ /\ pending_requests # <<>> /\ Head(pending_requests).sequence = req
              /\ pending_requests' = Tail(pending_requests)
           \/ pending_requests' = Unmarked(pending_requests, req),
           \A u \in Threads : KeepsPlace(u) /\ ~Claiming(u)',
           \A u \in Threads : InReply(u)' => local[u].current # req
    PROVE  QueueInv'
<1>a. /\ pending_requests \in Seq(PendingRequest) /\ Len(pending_requests) \in Nat
      /\ last_flushed \in Nat
  BY LenProperties DEF IInv, TypeOK, RequestTypeOK
<1>b. \A i \in 1..Len(pending_requests) : pending_requests[i].sequence \in 1..last_flushed
  BY DEF IInv, PendingSorted
<1>1. PendingSorted' /\ CurrentListed'
  <2>1. CASE /\ pending_requests # <<>> /\ Head(pending_requests).sequence = req
             /\ pending_requests' = Tail(pending_requests)
    <3>1. /\ Len(pending_requests') = Len(pending_requests) - 1
          /\ Len(pending_requests) \in Nat \ {0}
          /\ \A i \in 1..Len(pending_requests) - 1 :
                pending_requests'[i] = pending_requests[i + 1]
          /\ pending_requests[1].sequence = req
      BY <1>a, <2>1, PendingHead
    <3>2. \A i \in 1..Len(pending_requests) - 1 : i + 1 \in 1..Len(pending_requests)
      BY <1>a
    <3>3. \A i, j \in 1..Len(pending_requests) - 1 : i < j => i + 1 < j + 1
      BY <1>a
    <3>4. PendingSorted'
      BY <1>b, <3>1, <3>2, <3>3 DEF IInv, PendingSorted
    <3>5. CurrentListed'
      <4> SUFFICES ASSUME NEW u \in Threads, InReply(u)' PROVE Listed(local[u].current)'
        BY DEF CurrentListed
      <4>1. InReply(u) /\ local'[u].current = local[u].current /\ local[u].current # req
        BY DEF KeepsPlace
      <4>2. PICK i \in 1..Len(pending_requests) :
               pending_requests[i].sequence = local[u].current /\ pending_requests[i].reply_waiter
        BY <4>1 DEF IInv, CurrentListed, Listed
      <4>3. i - 1 \in 1..Len(pending_requests) - 1 /\ (i - 1) + 1 = i
        BY <1>a, <3>1, <4>1, <4>2
      <4>4. pending_requests'[i - 1] = pending_requests[i]
        BY <3>1, <4>3
      <4> QED BY <3>1, <4>1, <4>2, <4>3, <4>4 DEF Listed
    <3> QED BY <3>4, <3>5
  <2>2. CASE pending_requests' = Unmarked(pending_requests, req)
    <3>1. /\ Len(pending_requests') = Len(pending_requests)
          /\ \A i \in 1..Len(pending_requests) :
                /\ pending_requests'[i].sequence = pending_requests[i].sequence
                /\ pending_requests[i].sequence # req =>
                      pending_requests'[i] = pending_requests[i]
      BY <1>a, <2>2, UnmarkedProperties
    <3>2. PendingSorted'
      BY <1>b, <3>1 DEF IInv, PendingSorted
    <3>3. CurrentListed'
      <4> SUFFICES ASSUME NEW u \in Threads, InReply(u)' PROVE Listed(local[u].current)'
        BY DEF CurrentListed
      <4>1. InReply(u) /\ local'[u].current = local[u].current /\ local[u].current # req
        BY DEF KeepsPlace
      <4>2. PICK i \in 1..Len(pending_requests) :
               pending_requests[i].sequence = local[u].current /\ pending_requests[i].reply_waiter
        BY <4>1 DEF IInv, CurrentListed, Listed
      <4> QED BY <3>1, <4>1, <4>2 DEF Listed
    <3> QED BY <3>2, <3>3
  <2> QED BY <2>1, <2>2
<1>2. ClaimIsHead'
  BY DEF ClaimIsHead
<1>3. CurrentDistinct'
  BY DEF IInv, CurrentDistinct, KeepsPlace
<1> QED
  BY <1>1, <1>2, <1>3 DEF QueueInv

\* The end of _XReply's loop: the thread gives up its dibs.
LEMMA QueueFinishReply ==
    \A t \in Threads : IInv /\ FinishReply(t) /\ TypeOK' =>
       QueueInv' /\ fatal' # "sequence_assert"
<1> SUFFICES ASSUME IInv, NEW t \in Threads, FinishReply(t), TypeOK'
             PROVE  QueueInv' /\ fatal' # "sequence_assert"
  OBVIOUS
<1> DEFINE req == local[t].req
<1>a. /\ pc \in [Threads -> Labels] /\ local \in [Threads -> Locals] /\ TypeOK
      /\ req \in Nat
  BY LocalTypes DEF IInv, TypeOK, ThreadTypeOK
<1>b. pc[t] = "FinishReply" /\ Claiming(t) /\ InReply(t)
  BY DEF FinishReply, At, Place, Claiming, InReply
<1>c. /\ pending_requests # <<>> /\ Head(pending_requests).sequence = req
      /\ \A u \in Threads : Claiming(u) => u = t
  BY <1>b DEF IInv, ClaimIsHead
<1>d. \A u \in Threads : KeepsPlace(u)
  <2>1. KeepsPlace(t)
    <3>1. ~XReply(t) /\ ~ReplyLoop(t)
      BY <1>b DEF XReply, ReplyLoop, At
    <3> QED BY <3>1, PlaceStep DEF Thread
  <2> QED BY <2>1, OthersKeep DEF Thread
<1>e. ~Claiming(t)' /\ (InReply(t)' => local[t].current # req)
  <2>1. CASE req = local[t].current
    <3>1. Goto(t, "ReplyDone")
      BY <2>1 DEF FinishReply
    <3>2. pc'[t] = "ReplyDone"
      BY <1>a, <3>1, PlaceFacts
    <3> QED BY <3>2 DEF Place, Claiming, InReply
  <2>2. CASE req # local[t].current
    <3>1. \E item : HandleResponse(t, item, "ReplyLoop")
      BY <2>2 DEF FinishReply
    <3>2. \/ pc'[t] = "ReplyLoop"
          \/ pc'[t] = "XError" /\ local'[t] = [local[t] EXCEPT !.resume = "ReplyLoop"]
      BY <1>a, <3>1, PlaceFacts
    <3>3. local'[t] = [local[t] EXCEPT !.resume = "ReplyLoop"] =>
             local'[t].resume = "ReplyLoop"
      BY <1>a DEF Locals
    <3> QED BY <2>2, <3>2, <3>3 DEF Place, Claiming
  <2> QED BY <2>1, <2>2
<1>f. \A u \in Threads : ~Claiming(u)'
  BY <1>c, <1>d, <1>e DEF KeepsPlace
<1>g. \A u \in Threads : InReply(u)' => local[u].current # req
  <2>1. ASSUME NEW u \in Threads, u # t, InReply(u)' PROVE local[u].current # req
    BY <1>b, <1>d, <2>1 DEF KeepsPlace, IInv, CurrentDistinct
  <2> QED BY <1>e, <2>1
<1>h. /\ last_flushed' = last_flushed
      /\ \/ pending_requests' = Tail(pending_requests)
         \/ pending_requests' = Unmarked(pending_requests, req)
      /\ fatal' = fatal
  BY <1>c DEF FinishReply, sendVars
<1> QED
  BY <1>a, <1>c, <1>d, <1>f, <1>g, <1>h, QueueDequeue DEF IInv

\* poll_for_response takes a request off the list only when no thread has
\* dibs on its reply.
LEMMA QueuePoll ==
    \A t \in Threads : IInv /\ (Poll(t) \/ PollAgain(t)) /\ TypeOK' => QueueInv'
<1> SUFFICES ASSUME IInv, NEW t \in Threads, Poll(t) \/ PollAgain(t), TypeOK'
             PROVE  QueueInv'
  OBVIOUS
<1>a. /\ pending_requests \in Seq(PendingRequest) /\ Len(pending_requests) \in Nat
      /\ last_flushed \in Nat /\ last_flushed' = last_flushed
  BY LenProperties DEF IInv, TypeOK, RequestTypeOK, Poll, PollAgain, sendVars
<1>d. \A u \in Threads : KeepsPlace(u)
  <2>1. KeepsPlace(t)
    <3>1. ~XReply(t) /\ ~ReplyLoop(t)
      BY DEF XReply, ReplyLoop, Poll, PollAgain, At
    <3> QED BY <3>1, PlaceStep DEF Thread
  <2> QED BY <2>1, OthersKeep DEF Thread
<1>1. CASE pending_requests' = pending_requests
  <2>1. Extends(pending_requests', last_flushed')
    BY <1>1, <1>a DEF Extends
  <2> QED BY <1>a, <1>d, <2>1, QueueFrame
<1>2. CASE pending_requests' # pending_requests
  <2>1. Unclaimed /\ pending_requests' = Tail(pending_requests)
    <3>1. CASE Poll(t)
      BY <1>2, <3>1 DEF Poll, Answer
    <3>2. CASE PollAgain(t)
      BY <1>2, <3>2 DEF PollAgain, Answer, At, IInv, AtPlaces
    <3> QED BY <3>1, <3>2
  <2> DEFINE req == Head(pending_requests).sequence
  <2>2. /\ pending_requests # <<>> /\ ~Head(pending_requests).reply_waiter
        /\ Head(pending_requests) = pending_requests[1]
        /\ 1 \in 1..Len(pending_requests) /\ req \in Nat
    BY <1>a, <2>1, PendingHead DEF Unclaimed
  <2>3. \A u \in Threads : ~Claiming(u)'
    BY <1>d, <2>2 DEF KeepsPlace, IInv, ClaimIsHead
  <2>4. ASSUME NEW u \in Threads, InReply(u)' PROVE local[u].current # req
    <3>1. PICK i \in 1..Len(pending_requests) :
             pending_requests[i].sequence = local[u].current /\ pending_requests[i].reply_waiter
      BY <1>d, <2>4 DEF KeepsPlace, IInv, CurrentListed, Listed
    <3>2. 1 < i
      BY <1>a, <2>2, <3>1
    <3>3. pending_requests[1].sequence < pending_requests[i].sequence
      BY <2>2, <3>2 DEF IInv, PendingSorted
    <3> QED BY <2>2, <3>1, <3>3
  <2> HIDE DEF req
  <2>5. req = Head(pending_requests).sequence
    BY DEF req
  <2> QED BY <1>a, <1>d, <2>1, <2>2, <2>3, <2>4, <2>5, QueueDequeue
<1> QED
  BY <1>1, <1>2

\* The other steps of a thread leave the list alone, or flush.
LEMMA QueueOther ==
    \A t \in Threads :
       /\ IInv /\ Thread(t) /\ TypeOK'
       /\ ~XReply(t) /\ ~ReplyLoop(t) /\ ~FinishReply(t) /\ ~Poll(t) /\ ~PollAgain(t)
       => QueueInv' /\ fatal' # "sequence_assert"
<1> SUFFICES ASSUME IInv, NEW t \in Threads, Thread(t), TypeOK', ~XReply(t), ~ReplyLoop(t),
                    ~FinishReply(t), ~Poll(t), ~PollAgain(t)
             PROVE  QueueInv' /\ fatal' # "sequence_assert"
  OBVIOUS
<1>a. /\ fatal # "sequence_assert"
      /\ pending_requests \in Seq(PendingRequest) /\ Len(pending_requests) \in Nat
      /\ last_flushed \in 0..Len(issued) /\ Len(issued) \in Nat
  BY LenProperties DEF IInv, TypeOK, RequestTypeOK
<1>b. \A u \in Threads : KeepsPlace(u)
  BY PlaceStep, OthersKeep
<1>c. XSend => Extends(pending_requests', last_flushed') /\ last_flushed <= last_flushed'
  BY <1>a, AfterXSendExtends DEF XSend
<1>d. UNCHANGED <<pending_requests, last_flushed>> =>
         Extends(pending_requests', last_flushed') /\ last_flushed <= last_flushed'
  BY <1>a DEF Extends
<1> SUFFICES /\ Extends(pending_requests', last_flushed')
             /\ last_flushed <= last_flushed'
             /\ fatal' # "sequence_assert"
  BY <1>b, QueueFrame
<1>1. CASE LockDisplay(t) \/ UnlockDisplay(t) \/ Resume(t) \/ GetRequest(t)
           \/ WaitForReply(t) \/ GotReply(t) \/ ReplyDone(t) \/
           PollReply(t) \/ XError(t)
  BY <1>1, <1>a, <1>c, <1>d DEF LockDisplay, displayVars, sendVars, UnlockDisplay, Resume,
     GetRequest, WaitForReply, GotReply, ReplyDone, PollReply,
     EventWaiterAssert, XError
<1>2. CASE UserErrorHandler(t) \/ ReadLoop(t) \/ WaitForEvent(t) \/
           GotEvent(t) \/ NoResponse(t) \/ TakeEvent(t) \/
           XLockDisplay(t) \/ XUnlockDisplay(t)
  BY <1>2, <1>a, <1>c, <1>d DEF UserErrorHandler, displayVars, sendVars, ReadLoop, WaitForEvent,
     GotEvent, NoResponse, TakeEvent, XLockDisplay, XUnlockDisplay
<1>3. CASE FlushFullBuffer(t)
  BY <1>3, <1>a, <1>c, <1>d DEF FlushFullBuffer, XFlush
<1>4. CASE NextEvent(t)
  BY <1>4, <1>a, <1>c, <1>d DEF NextEvent, sendVars
<1>5. CASE EventsQueued(t)
  BY <1>5, <1>a, <1>c, <1>d DEF EventsQueued, XFlush, sendVars
<1> QED
  BY <1>1, <1>2, <1>3, <1>4, <1>5 DEF Thread

\* What holds within a critical section: only a thread that has the lock
\* changes the list or makes requests.
LEMMA AtPlacesStep == \A t \in Threads : IInv /\ Thread(t) /\ LockHeld' => AtPlaces'
<1> SUFFICES ASSUME IInv, NEW t \in Threads, Thread(t), LockHeld' PROVE AtPlaces'
  OBVIOUS
<1>a. /\ pc \in [Threads -> Labels] /\ local \in [Threads -> Locals] /\ TypeOK
      /\ issued \in Seq({"void", "reply"}) /\ Len(issued) \in Nat
      /\ last_flushed \in 0..Len(issued)
      /\ local[t].back \in BackLabels /\ local[t].resume \in ResumeLabels
      /\ AfterNoResponse(t) \in {"FinishReply", "NoResponse", "TakeEvent"} \cup DoneLabels
      /\ AfterResponse(t) \in {"ReadLoop", "Poll"}
  BY LocalTypes, HelperTypes DEF IInv, TypeOK, ThreadTypeOK, RequestTypeOK
<1>1. ASSUME NEW u \in Threads, u # t
      PROVE  /\ pc'[u] \in {"PollReply", "PollAgain"} => Unclaimed'
             /\ pc'[u] = "XReply" => last_flushed' < Len(issued')
  <2> SUFFICES ASSUME pc'[u] \in {"PollReply", "PollAgain", "XReply"}
               PROVE  /\ pc'[u] \in {"PollReply", "PollAgain"} => Unclaimed'
                      /\ pc'[u] = "XReply" => last_flushed' < Len(issued')
    OBVIOUS
  <2>1. pc'[u] = pc[u] /\ Inside(u)
    BY <1>1, OthersFrame DEF Inside
  <2>2. mutex # t
    BY <1>1, <2>1 DEF IInv, LockHeld
  <2>3. UNCHANGED <<pending_requests, last_flushed, issued>>
    <3>1. CASE LockDisplay(t) \/ UnlockDisplay(t) \/ Resume(t) \/ GetRequest(t)
               \/ FlushFullBuffer(t) \/ XReply(t) \/ ReplyLoop(t) \/
               WaitForReply(t) \/ GotReply(t)
      BY <3>1, <2>2 DEF LockDisplay, displayVars, sendVars, UnlockDisplay, At, Resume,
         GetRequest, FlushFullBuffer, XReply, ReplyLoop, WaitForReply,
         GotReply
    <3>2. CASE FinishReply(t) \/ ReplyDone(t) \/ Poll(t) \/ PollReply(t) \/
               PollAgain(t) \/ XError(t) \/ UserErrorHandler(t) \/
               NextEvent(t)
      BY <3>2, <2>2 DEF FinishReply, At, sendVars, ReplyDone, Poll, PollReply, PollAgain,
         XError, displayVars, UserErrorHandler, NextEvent
    <3>3. CASE ReadLoop(t) \/ WaitForEvent(t) \/ GotEvent(t) \/ NoResponse(t) \/
               TakeEvent(t) \/ EventsQueued(t) \/ XLockDisplay(t) \/
               XUnlockDisplay(t)
      BY <3>3, <2>2 DEF ReadLoop, At, sendVars, WaitForEvent, displayVars, GotEvent,
         NoResponse, TakeEvent, EventsQueued, XLockDisplay, XUnlockDisplay
    <3> QED BY <3>1, <3>2, <3>3 DEF Thread
  <2> QED BY <2>1, <2>3 DEF IInv, AtPlaces, Unclaimed
<1>2. pc'[t] \in {"PollReply", "PollAgain"} => Unclaimed'
  <2> SUFFICES ASSUME pc'[t] \in {"PollReply", "PollAgain"} PROVE Unclaimed'
    OBVIOUS
  <2>1. Poll(t) \/ PollReply(t)
    <3>1. CASE LockDisplay(t)
      <4>1. script[t] # <<>> => Head(script[t]) \in Calls
        BY HeadTailProperties DEF IInv, TypeOK, ThreadTypeOK
      <4> QED BY <3>1, <1>a, <4>1 DEF LockDisplay, Outside, Goto, Calls
    <3>2. CASE UnlockDisplay(t) \/ Resume(t) \/ XReply(t) \/ WaitForReply(t) \/
               WaitForEvent(t) \/ GotEvent(t) \/ TakeEvent(t) \/
               UserErrorHandler(t) \/ XLockDisplay(t) \/
               XUnlockDisplay(t)
      BY <3>2, <1>a DEF UnlockDisplay, Goto, Resume, XReply, WaitForReply, WaitForEvent,
         GotEvent, TakeEvent, UserErrorHandler, XLockDisplay,
         XUnlockDisplay, BackLabels, ResumeLabels, DoneLabels
    <3>3. CASE GetRequest(t) \/ FlushFullBuffer(t) \/ EventsQueued(t) \/
               NextEvent(t) \/ GotReply(t)
      BY <3>3, <1>a DEF GetRequest, At, Goto, RequestCalls, FlushFullBuffer, XFlush,
         EventsQueued, NextEvent, GotReply, BackLabels, ResumeLabels,
         DoneLabels
    <3>4. CASE ReplyLoop(t) \/ ReadLoop(t) \/ NoResponse(t) \/ XError(t)
      BY <3>4, <1>a DEF ReplyLoop, At, SleepAt, Goto, ReadLoop, NoResponse, XError,
         BackLabels, ResumeLabels, DoneLabels
    <3>5. CASE FinishReply(t) \/ ReplyDone(t)
      BY <3>5, <1>a DEF FinishReply, HandleResponse, Goto, ReplyDone, BackLabels,
         ResumeLabels, DoneLabels
    <3>6. CASE PollAgain(t)
      BY <3>6, <1>a DEF PollAgain, TakeNextEvent, HandleResponse, Answer, Goto, BackLabels,
         ResumeLabels, DoneLabels
    <3> QED BY <3>1, <3>2, <3>3, <3>4, <3>5, <3>6 DEF Thread
  <2>2. CASE Poll(t)
    <3>1. \A item : ~HandleResponse(t, item, AfterResponse(t))
      BY <1>a, PlaceFacts
    <3>2. ~Goto(t, AfterNoResponse(t)) /\ ~Goto(t, "Poll")
      BY <1>a, PlaceFacts DEF DoneLabels
    <3>3. Unclaimed /\ UNCHANGED pending_requests
      BY <2>2, <3>1, <3>2 DEF Poll, TakeNextEvent, Answer
    <3> QED BY <3>3 DEF Unclaimed
  <2>3. CASE PollReply(t)
    BY <2>3 DEF PollReply, At, IInv, AtPlaces, Unclaimed
  <2> QED BY <2>1, <2>2, <2>3
<1>3. pc'[t] = "XReply" => last_flushed' < Len(issued')
  <2> SUFFICES ASSUME pc'[t] = "XReply" PROVE last_flushed' < Len(issued')
    OBVIOUS
  <2>1. GetRequest(t)
    <3>1. CASE LockDisplay(t)
      <4>1. script[t] # <<>> => Head(script[t]) \in Calls
        BY HeadTailProperties DEF IInv, TypeOK, ThreadTypeOK
      <4> QED BY <3>1, <1>a, <4>1 DEF LockDisplay, Outside, Goto, Calls
    <3>2. CASE UnlockDisplay(t) \/ Resume(t) \/ XReply(t) \/ WaitForReply(t) \/
               WaitForEvent(t) \/ GotEvent(t) \/ TakeEvent(t) \/
               UserErrorHandler(t) \/ XLockDisplay(t) \/
               XUnlockDisplay(t)
      BY <3>2, <1>a DEF UnlockDisplay, Goto, Resume, XReply, WaitForReply, WaitForEvent,
         GotEvent, TakeEvent, UserErrorHandler, XLockDisplay,
         XUnlockDisplay, BackLabels, ResumeLabels, DoneLabels
    <3>3. CASE FlushFullBuffer(t)
      BY <3>3, <1>a DEF FlushFullBuffer, At, XFlush, Goto, RequestCalls, BackLabels,
         ResumeLabels, DoneLabels
    <3>4. CASE ReplyLoop(t) \/ ReadLoop(t) \/ NoResponse(t) \/ XError(t)
      BY <3>4, <1>a DEF ReplyLoop, At, SleepAt, Goto, ReadLoop, NoResponse, XError,
         BackLabels, ResumeLabels, DoneLabels
    <3>5. CASE FinishReply(t) \/ ReplyDone(t)
      BY <3>5, <1>a DEF FinishReply, HandleResponse, Goto, ReplyDone, BackLabels,
         ResumeLabels, DoneLabels
    <3>6. CASE PollAgain(t)
      BY <3>6, <1>a DEF PollAgain, TakeNextEvent, HandleResponse, Answer, Goto, BackLabels,
         ResumeLabels, DoneLabels
    <3>7. CASE Poll(t)
      BY <3>7, <1>a DEF Poll, TakeNextEvent, HandleResponse, Answer, Goto, BackLabels,
         ResumeLabels, DoneLabels
    <3>8. CASE PollReply(t)
      BY <3>8, <1>a DEF PollReply, TakeNextEvent, HandleResponse, Goto, BackLabels,
         ResumeLabels, DoneLabels
    <3>9. CASE EventsQueued(t) \/ NextEvent(t) \/ GotReply(t)
      BY <3>9, <1>a DEF EventsQueued, XFlush, Goto, NextEvent, GotReply, BackLabels,
         ResumeLabels, DoneLabels
    <3> QED BY <3>1, <3>2, <3>3, <3>4, <3>5, <3>6, <3>7, <3>8, <3>9 DEF Thread
  <2>2. Len(issued') = Len(issued) + 1 /\ last_flushed' = last_flushed
    BY <1>a, <2>1 DEF GetRequest
  <2> QED BY <1>a, <2>2
<1> QED
  BY <1>1, <1>2, <1>3 DEF AtPlaces

-----------------------------------------------------------------------------
(***************************************************************************)
(* The invariant.                                                          *)
(***************************************************************************)

\* The invariant holds initially.
LEMMA InitIInv == Init => IInv
<1> SUFFICES ASSUME Init PROVE IInv
  OBVIOUS
<1>1. TypeOK
  BY InitType
<1>2. \A t \in Threads : Place(t) = "Idle" /\ ~Claiming(t) /\ ~InReply(t) /\ ~Inside(t)
  BY DEF Init, Place, Claiming, InReply, Inside
<1>3. LockHeld
  BY <1>2 DEF Init, LockInit, LockHeld
<1>4. Len(pending_requests) = 0
  BY DEF Init
<1>5. PendingSorted
  BY <1>4 DEF PendingSorted
<1>6. ClaimIsHead /\ CurrentListed /\ CurrentDistinct
  BY <1>2 DEF ClaimIsHead, CurrentListed, CurrentDistinct
<1>7. AtPlaces /\ fatal # "sequence_assert"
  BY DEF Init, AtPlaces
<1> QED
  BY <1>1, <1>3, <1>5, <1>6, <1>7 DEF IInv

\* Every step keeps the invariant.
LEMMA StepIInv == IInv /\ [Next]_vars => IInv'
<1> SUFFICES ASSUME IInv, [Next]_vars PROVE IInv'
  OBVIOUS
<1>a. TypeOK' /\ LockHeld'
  BY TypeStep, LockHeldStep
<1>1. ASSUME NEW t \in Threads, Thread(t) PROVE IInv'
  <2>1. QueueInv' /\ fatal' # "sequence_assert"
    <3>1. CASE XReply(t)
      BY <1>a, <3>1, QueueXReply
    <3>2. CASE ReplyLoop(t)
      BY <1>a, <3>2, QueueReplyLoop DEF IInv, ReplyLoop
    <3>3. CASE FinishReply(t)
      BY <1>a, <3>3, QueueFinishReply
    <3>4. CASE Poll(t) \/ PollAgain(t)
      <4>1. fatal' # "sequence_assert"
        BY <3>4 DEF IInv, Poll, PollAgain, EventWaiterAssert
      <4> QED BY <1>a, <3>4, <4>1, QueuePoll
    <3>5. CASE ~XReply(t) /\ ~ReplyLoop(t) /\ ~FinishReply(t) /\ ~Poll(t) /\ ~PollAgain(t)
      BY <1>1, <1>a, <3>5, QueueOther
    <3> QED BY <3>1, <3>2, <3>3, <3>4, <3>5
  <2>2. AtPlaces'
    BY <1>1, <1>a, AtPlacesStep
  <2> QED BY <1>a, <2>1, <2>2 DEF IInv, QueueInv
<1>2. ASSUME UNCHANGED <<displayVars, fatal, threadVars>> PROVE IInv'
  <2>1. UNCHANGED <<pending_requests, last_flushed, issued, fatal, pc, local>>
    BY <1>2 DEF displayVars, threadVars, callVars
  <2>2. \A t \in Threads : /\ Place(t)' = Place(t)
                           /\ Claiming(t)' <=> Claiming(t)
                           /\ InReply(t)' <=> InReply(t)
    BY <2>1 DEF Place, Claiming, InReply
  <2>3. PendingSorted' /\ AtPlaces'
    BY <2>1 DEF IInv, PendingSorted, AtPlaces, Unclaimed
  <2>4. ClaimIsHead' /\ CurrentListed' /\ CurrentDistinct'
    BY <2>1, <2>2 DEF IInv, ClaimIsHead, CurrentListed, CurrentDistinct, Listed
  <2> QED BY <1>a, <2>1, <2>3, <2>4 DEF IInv
<1>3. CASE Server
  BY <1>2, <1>3, ServerFrame
<1>4. CASE UNCHANGED vars
  BY <1>2, <1>4 DEF vars
<1> QED
  BY <1>1, <1>3, <1>4 DEF Next, Stopped

\* Every reachable state satisfies the invariant.
THEOREM Invariant == Spec => []IInv
<1>1. Init => IInv
  BY InitIInv
<1>2. IInv /\ [Next]_vars => IInv'
  BY StepIInv
<1> QED
  BY <1>1, <1>2, PTL DEF Spec

\* The variables keep their types: no sequence number is read from an empty
\* list of pending requests, whatever the threads do.
THEOREM TypeCorrect == Spec => []TypeOK
<1>1. IInv => TypeOK
  BY DEF IInv
<1> QED
  BY <1>1, Invariant, PTL

\* The list that append_pending_request and dequeue_pending_request keep is
\* in order, and their checks never end the process (xcb_io.c).
THEOREM PendingAlwaysInOrder == Spec => []PendingInOrder
<1>1. IInv => PendingInOrder
  <2> SUFFICES ASSUME IInv PROVE PendingInOrder
    OBVIOUS
  <2>1. Len(issued) \in Nat /\ last_flushed \in 0..Len(issued)
    BY LenProperties DEF IInv, TypeOK, RequestTypeOK
  <2>2. \A i \in 1..Len(pending_requests) : pending_requests[i].sequence \in 1..Len(issued)
    BY <2>1 DEF IInv, PendingSorted
  <2> QED BY <2>2 DEF IInv, PendingSorted, PendingInOrder
<1> QED
  BY <1>1, Invariant, PTL

\* No two threads wait for replies at the same time, and the one that does
\* waits for the first pending request, which it has marked (_XReply).
THEOREM AlwaysOneReplyReader == Spec => []OneReplyReader
<1>1. IInv => OneReplyReader
  <2> SUFFICES ASSUME IInv, NEW t \in Threads,
                      pc[t] \in {"WaitForReply", "GotReply", "FinishReply"}
               PROVE  /\ \A u \in Threads \ {t} :
                            pc[u] \notin {"WaitForReply", "GotReply", "FinishReply"}
                      /\ pending_requests # <<>>
                      /\ Head(pending_requests).sequence = local[t].req
                      /\ Head(pending_requests).reply_waiter
    BY DEF OneReplyReader
  <2>1. \A u \in Threads :
           pc[u] \in {"WaitForReply", "GotReply", "FinishReply"} => Claiming(u)
    BY DEF Claiming, Place
  <2> QED BY <2>1 DEF IInv, ClaimIsHead
<1> QED
  BY <1>1, Invariant, PTL
=============================================================================
