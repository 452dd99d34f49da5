-------------------------- MODULE EventStreamProofs --------------------------
(***************************************************************************)
(* More proofs about EventQueue, from the invariant of EventQueueProofs:   *)
(* what its clients see of it.  The library takes the items in in their    *)
(* order and keeps every event once (Items); the searches have covered     *)
(* what they claim (OrderInv).  From these follow NothingMissed,           *)
(* PredicateCalledOnce and that the queue implements EventStream.          *)
(***************************************************************************)
EXTENDS EventQueueProofs

-----------------------------------------------------------------------------
(***************************************************************************)
(* The items on their way from the server to the clients.                  *)
(***************************************************************************)
RemovedAs(t, i, r) ==
    /\ Removes(t, i) /\ r.got = event[Queue[i]] /\ r.got \in Nat /\ UNCHANGED arrived
    /\ \/ pc[t] = "TakeHead" /\ i = 1
       \/ /\ pc[t] = "Scan"
          /\ Matches(t, Queue[i])
          /\ \E k : /\ IsPlace(t, k) /\ k < i
                    /\ \A m \in 1..Len(Queue) : k < m /\ m < i => ~Matches(t, Queue[m])

\* What a step does with the items.
ItemEffect(t, r) ==
    \/ r.got = local[t].got /\ UNCHANGED <<queueVars, arrived>>
    \/ /\ r.got = local[t].got /\ UNCHANGED queueVars
       /\ arrived # <<>> /\ arrived' = Tail(arrived) /\ kind[Head(arrived)] = "error"
    \/ r.got = local[t].got /\ TakesIn(t)
    \/ r.got = local[t].got /\ Discard(t) /\ head # Nil /\ UNCHANGED arrived
    \/ r.got = 0 /\ PutBack(t) /\ local[t].got # 0 /\ UNCHANGED arrived
    \/ \E i \in 1..Len(Queue) : RemovedAs(t, i, r)

\* Every step of a thread does one of these things to the items.
LEMMA ItemSteps ==
    ASSUME TypeOK, ScriptsOK, Control, Places, Lists, NEW t \in Threads, Thread(t)
    PROVE  /\ UNCHANGED kind
           /\ \E l, r : Moved(t, l, r) /\ ItemEffect(t, r)
<1>0. \A i \in 1..Len(Queue) : event[Queue[i]] \in Nat
  BY ListFacts DEF TypeOK
<1>1. CASE LockDisplay(t)
  <2>1. UNCHANGED <<queueVars, kind, arrived>>
    BY <1>1 DEF LockDisplay, serverVars
  <2>2. CASE UNCHANGED <<pc, local>>
    <3>1. Moved(t, pc[t], local[t])
      BY <2>2, NotMoved
    <3> QED BY <3>1, <2>1 DEF ItemEffect
  <2>3. CASE \E l, r : CallBegins(t, l, r)
    BY <2>1, <2>3 DEF CallBegins, ItemEffect
  <2> QED BY <1>1, <2>1, <2>2, <2>3, MoveLock
<1>2. CASE UnlockDisplay(t)
  <2>1. UNCHANGED <<queueVars, kind, arrived>>
    BY <1>2 DEF UnlockDisplay, serverVars
  <2> QED BY <1>2, <2>1, MoveUnlock DEF ItemEffect
<1>3. CASE Resume(t)
  <2>1. UNCHANGED <<queueVars, kind, arrived>>
    BY <1>3 DEF Resume, serverVars
  <2> QED BY <1>3, <2>1, MoveResume DEF ItemEffect
<1>4. CASE Scan(t)
  <2>1. UNCHANGED <<kind, arrived>> /\ pc[t] = "Scan"
    BY <1>4, MoveScan DEF Scan, serverVars
  <2>2. PICK k : IsPlace(t, k) /\ (ScanMissed(t, k) \/ \E j : ScanFound(t, k, j))
    BY <1>4, MoveScan
  <2>3. CASE ScanMissed(t, k)
    <3>1. PICK l, r : Moved(t, l, r) /\ r.got = local[t].got
      BY <2>3 DEF ScanMissed
    <3>2. UNCHANGED queueVars
      BY <2>3 DEF ScanMissed
    <3>3. ItemEffect(t, r)
      BY <2>1, <3>1, <3>2 DEF ItemEffect
    <3> QED BY <2>1, <3>1, <3>3
  <2>4. CASE \E j : ScanFound(t, k, j)
    <3>1. PICK j \in 1..Len(Queue) : ScanFound(t, k, j)
      BY <2>4 DEF ScanFound
    <3>2. CASE UNCHANGED <<queueVars, returned>> /\ Moved(t, "Unlock", local[t])
      BY <2>1, <3>2 DEF ItemEffect
    <3>3. CASE /\ Deq(IF j = 1 THEN Nil ELSE Queue[j - 1], Queue[j])
               /\ \E r : /\ Moved(t, "Unlock", r) /\ r.call = local[t].call
                         /\ r.got = event[Queue[j]]
      <4>1. PICK r : Moved(t, "Unlock", r) /\ r.got = event[Queue[j]]
        BY <3>3
      <4>2. Removes(t, j)
        BY <2>1, <3>3 DEF Removes
      <4>3. /\ k < j /\ Matches(t, Queue[j])
            /\ \A m \in 1..Len(Queue) : k < m /\ m < j => ~Matches(t, Queue[m])
        BY <3>1 DEF ScanFound
      <4>4. RemovedAs(t, j, r)
        BY <1>0, <2>1, <2>2, <4>1, <4>2, <4>3 DEF RemovedAs
      <4>5. ItemEffect(t, r)
        BY <4>4 DEF ItemEffect
      <4> QED BY <2>1, <4>1, <4>5
    <3> QED BY <3>1, <3>2, <3>3 DEF ScanFound
  <2> QED BY <2>2, <2>3, <2>4
<1>5. CASE AfterRead(t)
  <2>1. UNCHANGED <<queueVars, kind, arrived>>
    BY <1>5 DEF AfterRead, serverVars
  <2>2. PICK l, r : Moved(t, l, r) /\ r.got = local[t].got
    BY <1>5, MoveAfterRead
  <2> QED BY <2>1, <2>2 DEF ItemEffect
<1>6. CASE NextEvent(t)
  <2>1. UNCHANGED <<queueVars, kind, arrived>>
    BY <1>6 DEF NextEvent, serverVars
  <2>2. PICK l, r : Moved(t, l, r) /\ r.got = local[t].got
    BY <1>6, MoveNextEvent
  <2> QED BY <2>1, <2>2 DEF ItemEffect
<1>7. CASE TakeHead(t)
  <2>1. UNCHANGED <<kind, arrived>> /\ pc[t] = "TakeHead"
    BY <1>7 DEF TakeHead, At, serverVars
  <2>2. CASE UNCHANGED <<queueVars, returned>> /\ Moved(t, "Unlock", local[t])
    BY <2>1, <2>2 DEF ItemEffect
  <2>3. CASE /\ head # Nil /\ Deq(Nil, head)
             /\ \E r : /\ Moved(t, "Unlock", r) /\ r.call = local[t].call
                       /\ r.got = event[head]
    <3>1. PICK r : Moved(t, "Unlock", r) /\ r.got = event[head]
      BY <2>3
    <3>2. head = Queue[1] /\ 1 \in 1..Len(Queue)
      BY <2>3, HeadFacts, ListFacts
    <3>3. Removes(t, 1)
      BY <3>2, <2>1, <2>3 DEF Removes
    <3>4. RemovedAs(t, 1, r)
      BY <1>0, <2>1, <3>1, <3>2, <3>3 DEF RemovedAs
    <3>5. ItemEffect(t, r)
      BY <3>2, <3>4 DEF ItemEffect
    <3> QED BY <2>1, <3>1, <3>5
  <2> QED BY <1>7, <2>2, <2>3, MoveTakeHead
<1>8. CASE PutBack(t)
  <2>1. UNCHANGED <<kind, arrived>>
    BY <1>8 DEF PutBack, serverVars
  <2>2. CASE UNCHANGED <<queueVars, returned>> /\ Moved(t, "Unlock", local[t])
    BY <2>1, <2>2 DEF ItemEffect
  <2>3. CASE /\ local[t].got # 0
             /\ \E r : /\ Moved(t, "Unlock", r) /\ r.call = local[t].call /\ r.got = 0
    BY <1>8, <2>1, <2>3 DEF ItemEffect
  <2> QED BY <1>8, <2>2, <2>3, MovePutBack
<1>9. CASE RoundTrip(t)
  <2>1. UNCHANGED <<queueVars, kind, arrived>>
    BY <1>9 DEF RoundTrip, serverVars
  <2> QED BY <1>9, <2>1, MoveRoundTrip DEF ItemEffect
<1>10. CASE WaitForReply(t)
  <2>1. UNCHANGED <<queueVars, kind, arrived>>
    BY <1>10 DEF WaitForReply, serverVars
  <2>2. PICK l, r : Moved(t, l, r) /\ SameSearch(r, local[t])
    BY <1>10, MoveWaitForReply
  <2> QED BY <2>1, <2>2 DEF ItemEffect, SameSearch
<1>11. CASE Discard(t)
  <2>1. UNCHANGED <<kind, arrived>> /\ (head = Nil => UNCHANGED queueVars)
    BY <1>11 DEF Discard, serverVars
  <2> QED BY <1>11, <2>1, MoveDiscard DEF ItemEffect
<1>12. CASE Pending(t)
  <2>1. UNCHANGED <<queueVars, kind, arrived>>
    BY <1>12 DEF Pending, serverVars
  <2>2. PICK l, r : Moved(t, l, r) /\ SameSearch(r, local[t])
    BY <1>12, MovePending
  <2> QED BY <2>1, <2>2 DEF ItemEffect, SameSearch
<1>13. CASE ReadLoop(t)
  <2>1. UNCHANGED <<queueVars, kind, arrived>>
    BY <1>13 DEF ReadLoop, serverVars
  <2>2. PICK l, r : Moved(t, l, r) /\ SameSearch(r, local[t])
    BY <1>13, MoveReadLoop
  <2> QED BY <2>1, <2>2 DEF ItemEffect, SameSearch
<1>14. CASE WaitForEvent(t)
  <2>1. UNCHANGED <<queueVars, kind, arrived>>
    BY <1>14 DEF WaitForEvent, serverVars
  <2>2. PICK r : Moved(t, "Poll", r) /\ SameSearch(r, local[t])
    BY <1>14, MoveWaitForEvent
  <2> QED BY <2>1, <2>2 DEF ItemEffect, SameSearch
<1>15. CASE Poll(t)
  <2>1. UNCHANGED kind /\ pc[t] = "Poll"
    BY <1>15, MovePoll DEF Poll
  <2>2. PICK l, r :
           /\ Moved(t, l, r) /\ SameSearch(r, local[t])
           /\ \/ UNCHANGED <<queueVars, arrived>>
              \/ /\ arrived # <<>> /\ kind[Head(arrived)] = "error"
                 /\ arrived' = Tail(arrived) /\ UNCHANGED queueVars
              \/ /\ arrived # <<>> /\ kind[Head(arrived)] # "error"
                 /\ arrived' = Tail(arrived) /\ Enq(Head(arrived))
    BY <1>15, MovePoll
  <2>3. r.got = local[t].got
    BY <2>2 DEF SameSearch
  <2>4. ItemEffect(t, r)
    BY <2>1, <2>2, <2>3 DEF ItemEffect, TakesIn
  <2> QED BY <2>1, <2>2, <2>4
<1>16. CASE XError(t)
  <2>1. UNCHANGED <<queueVars, kind, arrived>>
    BY <1>16 DEF XError, serverVars
  <2>2. PICK l, r : Moved(t, l, r) /\ SameSearch(r, local[t])
    BY <1>16, MoveXError
  <2> QED BY <2>1, <2>2 DEF ItemEffect, SameSearch
<1>17. CASE UserErrorHandler(t)
  <2>1. UNCHANGED <<queueVars, kind, arrived>>
    BY <1>17 DEF UserErrorHandler, serverVars
  <2> QED BY <1>17, <2>1, MoveUserErrorHandler DEF ItemEffect
<1> QED BY <1>1, <1>2, <1>3, <1>4, <1>5, <1>6, <1>7, <1>8, <1>9, <1>10, <1>11, <1>12, <1>13,
           <1>14, <1>15, <1>16, <1>17 DEF Thread

\* How the queue changes.
SameQueue == Queue' = Queue /\ UNCHANGED <<event, qserial_num, next_event_serial_num>>

EntersAs(c, e) ==
    /\ c \in Elements /\ c \notin Range(Queue)
    /\ event' = [event EXCEPT ![c] = e]
    /\ qserial_num' = [qserial_num EXCEPT ![c] = next_event_serial_num]
    /\ next_event_serial_num' = next_event_serial_num + 1

Appended(c) == EntersAs(c, Head(arrived)) /\ Queue' = Append(Queue, c)
PutFirst(t, c) == EntersAs(c, local[t].got) /\ Queue' = <<c>> \o Queue

TakenOut(i) ==
    /\ Queue' = RemoveAt(Queue, i)
    /\ UNCHANGED <<event, next_event_serial_num>>
    /\ \A c \in Elements : c # Queue[i] => qserial_num'[c] = qserial_num[c]

Emptied == Queue' = <<>> /\ UNCHANGED <<event, next_event_serial_num>>

\* Which element a removal takes.
FirstHit(t, i) ==
    \/ pc[t] = "TakeHead" /\ i = 1
    \/ /\ pc[t] = "Scan"
       /\ Matches(t, Queue[i])
       /\ \E k : /\ IsPlace(t, k) /\ k < i
                 /\ \A m \in 1..Len(Queue) : k < m /\ m < i => ~Matches(t, Queue[m])

Looked(t) == arrived # <<>> /\ arrived' = Tail(arrived)

QueueEffect(t, r) ==
    \/ r.got = local[t].got /\ SameQueue /\ UNCHANGED arrived
    \/ r.got = local[t].got /\ SameQueue /\ Looked(t) /\ kind[Head(arrived)] \in Odd
    \/ /\ r.got = local[t].got /\ Looked(t) /\ kind[Head(arrived)] \notin Odd
       /\ pc[t] = "Poll" /\ \E c : Appended(c)
    \/ r.got = local[t].got /\ UNCHANGED arrived /\ pc[t] = "Discard" /\ Emptied
    \/ /\ r.got = 0 /\ local[t].got # 0 /\ UNCHANGED arrived /\ pc[t] = "PutBack"
       /\ \E c : PutFirst(t, c)
    \/ \E i \in 1..Len(Queue) :
          r.got = event[Queue[i]] /\ UNCHANGED arrived /\ TakenOut(i) /\ FirstHit(t, i)

\* And so changes the queue in one of these ways.
LEMMA QueueEffects ==
    ASSUME TypeOK, Control, Lists, Serials, NEW t \in Threads, NEW r, ItemEffect(t, r)
    PROVE  QueueEffect(t, r)
<1>1. CASE r.got = local[t].got /\ UNCHANGED queueVars
  <2>1. SameQueue
    BY <1>1, SameLists DEF SameQueue, queueVars
  <2>2. CASE UNCHANGED arrived
    BY <1>1, <2>1, <2>2 DEF QueueEffect
  <2>3. CASE arrived # <<>> /\ arrived' = Tail(arrived) /\ kind[Head(arrived)] = "error"
    BY <1>1, <2>1, <2>3 DEF QueueEffect, Looked, Odd
  <2>4. CASE TakesIn(t)
    <3>1. next_event_serial_num' = next_event_serial_num /\ next_event_serial_num \in Nat
      BY <1>1 DEF queueVars, TypeOK
    <3>2. kind[Head(arrived)] = "ignored"
      BY <2>4, <3>1 DEF TakesIn, Enq
    <3> QED BY <1>1, <2>1, <2>4, <3>2 DEF QueueEffect, Looked, Odd, TakesIn
  <2>5. CASE Discard(t) /\ head # Nil
    <3>1. Queue # <<>> /\ Queue' = <<>> /\ Queue' = Queue
      BY <2>1, <2>5, HeadFacts, DiscardStep DEF SameQueue
    <3> QED BY <3>1
  <2>6. CASE PutBack(t) /\ local[t].got # 0
    <3>1. next_event_serial_num' = next_event_serial_num /\ next_event_serial_num \in Nat
      BY <1>1 DEF queueVars, TypeOK
    <3> QED BY <2>6, <3>1 DEF PutBack
  <2>7. CASE \E i \in 1..Len(Queue) : RemovedAs(t, i, r)
    <3>1. PICK i \in 1..Len(Queue) : RemovedAs(t, i, r)
      BY <2>7
    <3>2. qlen' = qlen - 1 /\ qlen' = qlen /\ qlen \in Nat
      BY <1>1, <3>1 DEF RemovedAs, Removes, Deq, queueVars, TypeOK
    <3> QED BY <3>2
  <2> QED BY <2>2, <2>3, <2>4, <2>5, <2>6, <2>7 DEF ItemEffect
<1>2. CASE r.got = local[t].got /\ TakesIn(t)
  <2>1. pc[t] = "Poll" /\ Looked(t) /\ kind[Head(arrived)] # "error" /\ Enq(Head(arrived))
    BY <1>2 DEF TakesIn, Looked
  <2>2. CASE kind[Head(arrived)] = "ignored"
    <3>1. SameQueue
      BY <2>1, <2>2, IgnoredStep DEF SameQueue
    <3> QED BY <1>2, <2>1, <2>2, <3>1 DEF QueueEffect, Odd
  <2>3. CASE kind[Head(arrived)] # "ignored"
    <3>1. /\ Queue' = Append(Queue, NewElement)
          /\ NewElement \in Elements /\ NewElement \notin Range(Queue)
      BY <2>1, <2>3, EnqStep
    <3>2. /\ event' = [event EXCEPT ![NewElement] = Head(arrived)]
          /\ qserial_num' = [qserial_num EXCEPT ![NewElement] = next_event_serial_num]
          /\ next_event_serial_num' = next_event_serial_num + 1
      BY <2>1, <2>3 DEF Enq
    <3>3. Appended(NewElement)
      BY <3>1, <3>2 DEF Appended, EntersAs
    <3> QED BY <1>2, <2>1, <2>3, <3>3 DEF QueueEffect, Odd
  <2> QED BY <2>2, <2>3
<1>3. CASE r.got = local[t].got /\ Discard(t) /\ head # Nil /\ UNCHANGED arrived
  <2>1. pc[t] = "Discard"
    BY <1>3 DEF Discard, At
  <2>2. Emptied
    BY <1>3, DiscardStep DEF Emptied
  <2> QED BY <1>3, <2>1, <2>2 DEF QueueEffect
<1>4. CASE r.got = 0 /\ PutBack(t) /\ local[t].got # 0 /\ UNCHANGED arrived
  <2>1. /\ Queue' = <<NewElement>> \o Queue
        /\ NewElement \in Elements /\ NewElement \notin Range(Queue)
    BY <1>4, PutBackStep
  <2>2. /\ pc[t] = "PutBack"
        /\ event' = [event EXCEPT ![NewElement] = local[t].got]
        /\ qserial_num' = [qserial_num EXCEPT ![NewElement] = next_event_serial_num]
        /\ next_event_serial_num' = next_event_serial_num + 1
    BY <1>4 DEF PutBack, At
  <2>3. PutFirst(t, NewElement)
    BY <2>1, <2>2 DEF PutFirst, EntersAs
  <2> QED BY <1>4, <2>2, <2>3 DEF QueueEffect
<1>5. CASE \E i \in 1..Len(Queue) : RemovedAs(t, i, r)
  <2>1. PICK i \in 1..Len(Queue) : RemovedAs(t, i, r)
    BY <1>5
  <2>2. TakenOut(i)
    BY <2>1, DeqStep DEF RemovedAs, Removes, TakenOut
  <2>3. FirstHit(t, i)
    BY <2>1 DEF RemovedAs, FirstHit
  <2>4. r.got = event[Queue[i]] /\ UNCHANGED arrived
    BY <2>1 DEF RemovedAs
  <2> QED BY <2>2, <2>3, <2>4 DEF QueueEffect
<1> QED BY <1>1, <1>2, <1>3, <1>4, <1>5 DEF ItemEffect

\* The members of the queue after each change.
LEMMA MembersAppended ==
    ASSUME TypeOK, Lists, NEW c, Appended(c)
    PROVE  /\ Range(Queue') = Range(Queue) \cup {c}
           /\ Len(Queue') = Len(Queue) + 1 /\ Queue'[Len(Queue) + 1] = c
           /\ \A i \in 1..Len(Queue) : Queue'[i] = Queue[i]
<1>1. c \in Elements /\ c \notin Range(Queue) /\ Queue' = Append(Queue, c)
  BY DEF Appended, EntersAs
<1>2. Queue \in Seq(Elements) /\ IsInjective(Queue)
  BY ListFacts
<1> QED BY <1>1, <1>2, AppendMembers

\* After an event was put back.
LEMMA MembersPutFirst ==
    ASSUME TypeOK, Lists, NEW t, NEW c, PutFirst(t, c)
    PROVE  /\ Range(Queue') = Range(Queue) \cup {c}
           /\ Len(Queue') = Len(Queue) + 1 /\ Queue'[1] = c
           /\ \A i \in 1..Len(Queue) : Queue'[i + 1] = Queue[i]
<1>1. c \in Elements /\ c \notin Range(Queue) /\ Queue' = <<c>> \o Queue
  BY DEF PutFirst, EntersAs
<1>2. Queue \in Seq(Elements) /\ IsInjective(Queue)
  BY ListFacts
<1>3. Range(Queue') = Range(Queue) \cup {c}
  BY <1>1, <1>2, ConsMembers
<1> DEFINE one == <<c>>
<1>4. one \in Seq(Elements) /\ Len(one) = 1 /\ one[1] = c
  BY <1>1
<1> HIDE DEF one
<1>5. /\ Len(one \o Queue) = Len(one) + Len(Queue)
      /\ \A j \in 1..(Len(one) + Len(Queue)) :
            (one \o Queue)[j] = IF j <= Len(one) THEN one[j] ELSE Queue[j - Len(one)]
  BY <1>2, <1>4, ConcatFacts
<1>6. Queue' = one \o Queue
  BY <1>1 DEF one
<1>7. Len(Queue) \in Nat
  BY <1>2
<1>8. Len(Queue') = Len(Queue) + 1 /\ Queue'[1] = c
  BY <1>4, <1>5, <1>6, <1>7
<1>9. ASSUME NEW i \in 1..Len(Queue) PROVE Queue'[i + 1] = Queue[i]
  <2>1. i + 1 \in 1..(Len(one) + Len(Queue)) /\ ~(i + 1 <= Len(one)) /\ (i + 1) - Len(one) = i
    BY <1>4, <1>7
  <2> QED BY <2>1, <1>5, <1>6
<1> QED BY <1>3, <1>8, <1>9

\* After an event was removed.
LEMMA MembersTakenOut ==
    ASSUME TypeOK, Lists, NEW i \in 1..Len(Queue), TakenOut(i)
    PROVE  /\ Range(Queue') = Range(Queue) \ {Queue[i]}
           /\ Len(Queue') = Len(Queue) - 1
           /\ \A j \in 1..(Len(Queue) - 1) : Queue'[j] = IF j < i THEN Queue[j] ELSE Queue[j + 1]
<1>1. Queue' = RemoveAt(Queue, i) /\ Queue \in Seq(Elements) /\ IsInjective(Queue)
  BY ListFacts DEF TakenOut
<1> QED BY <1>1, RemoveMembers, RemoveAtFacts

-----------------------------------------------------------------------------
(***************************************************************************)
(* The library takes the items in in their order; an event that is in the  *)
(* queue, or that a thread can put back, is there once.                    *)
(***************************************************************************)
TakenIn == Len(kind) - Len(arrived)
IsEvent(e) == e \in 1..TakenIn /\ kind[e] \in Kinds

ArrivedOK ==
    /\ Len(arrived) <= Len(kind)
    /\ \A i \in 1..Len(arrived) : arrived[i] = TakenIn + i

QueueEvents ==
    /\ \A c \in Range(Queue) : IsEvent(event[c])
    /\ \A c, d \in Range(Queue) : event[c] = event[d] => c = d

GotEvents ==
    /\ \A t \in Threads : local[t].got # 0 =>
          IsEvent(local[t].got) /\ \A c \in Range(Queue) : event[c] # local[t].got
    /\ \A t, u \in Threads : local[t].got # 0 /\ local[t].got = local[u].got => t = u

Items == ArrivedOK /\ QueueEvents /\ GotEvents

\* After a step.
WillBeEvent(e) == e \in 1..TakenIn' /\ kind'[e] \in Kinds

\* The two invariants of the events after a step, spelled out.
LEMMA ItemsNext ==
    /\ /\ \A c \in Range(Queue') : WillBeEvent(event'[c])
       /\ \A c, d \in Range(Queue') : event'[c] = event'[d] => c = d
       => QueueEvents'
    /\ /\ \A t \in Threads : local'[t].got # 0 =>
             WillBeEvent(local'[t].got) /\ \A c \in Range(Queue') : event'[c] # local'[t].got
       /\ \A t, u \in Threads : local'[t].got # 0 /\ local'[t].got = local'[u].got => t = u
       => GotEvents'
BY DEF QueueEvents, GotEvents, IsEvent, WillBeEvent

\* Types.
LEMMA SizeTypes ==
    ASSUME TypeOK
    PROVE  /\ Len(kind) \in Nat /\ Len(arrived) \in Nat
           /\ kind \in Seq(Kinds \cup Odd) /\ arrived \in Seq(Nat)
           /\ event \in [Elements -> Nat] /\ qserial_num \in [Elements -> Nat]
           /\ next_event_serial_num \in Nat
BY DEF TypeOK

\* One more item is looked at.
LEMMA OneLooked ==
    ASSUME TypeOK, ArrivedOK, NEW t, Looked(t), UNCHANGED kind
    PROVE  /\ ArrivedOK' /\ TakenIn' = TakenIn + 1
           /\ Head(arrived) = TakenIn + 1 /\ TakenIn + 1 \in 1..Len(kind) /\ TakenIn \in Nat
<1>1. /\ arrived # <<>> /\ arrived' = Tail(arrived) /\ Len(kind) \in Nat /\ Len(arrived) \in Nat
      /\ arrived \in Seq(Nat)
  BY SizeTypes DEF Looked
<1>2. Len(arrived) # 0 /\ 1 \in 1..Len(arrived) /\ Head(arrived) = arrived[1]
  BY <1>1
<1>3. /\ Len(arrived') = Len(arrived) - 1
      /\ \A i \in 1..(Len(arrived) - 1) : arrived'[i] = arrived[i + 1]
  BY <1>1
<1>4. TakenIn' = TakenIn + 1 /\ TakenIn \in Nat /\ TakenIn + 1 \in 1..Len(kind)
  BY <1>1, <1>2, <1>3 DEF TakenIn, ArrivedOK
<1>5. Head(arrived) = TakenIn + 1
  BY <1>2 DEF ArrivedOK
<1>6. ArrivedOK'
  <2>1. Len(arrived') <= Len(kind')
    BY <1>1, <1>3 DEF ArrivedOK
  <2>2. ASSUME NEW i \in 1..Len(arrived') PROVE arrived'[i] = TakenIn' + i
    <3>1. i \in 1..(Len(arrived) - 1) /\ i + 1 \in 1..Len(arrived)
      BY <1>1, <1>3
    <3>2. arrived[i + 1] = TakenIn + (i + 1)
      BY <3>1 DEF ArrivedOK
    <3> QED BY <3>1, <3>2, <1>3, <1>4
  <2> QED BY <2>1, <2>2 DEF ArrivedOK
<1> QED BY <1>4, <1>5, <1>6

\* No item is looked at.
LEMMA NoneLooked ==
    ASSUME TypeOK, ArrivedOK, UNCHANGED <<kind, arrived>>
    PROVE  ArrivedOK' /\ TakenIn' = TakenIn /\ \A e : IsEvent(e) => WillBeEvent(e)
BY DEF ArrivedOK, TakenIn, IsEvent, WillBeEvent

\* The item that is looked at was not an event before.
LEMMA LaterEvents ==
    ASSUME NEW e, IsEvent(e), TakenIn \in Nat, TakenIn' = TakenIn + 1, UNCHANGED kind
    PROVE  WillBeEvent(e) /\ e # TakenIn + 1
<1>1. e \in 1..TakenIn
  BY DEF IsEvent
<1>2. e \in 1..TakenIn' /\ e # TakenIn + 1
  BY <1>1
<1> QED BY <1>2 DEF IsEvent, WillBeEvent

\* A step of a thread keeps the order of the items.
LEMMA ItemsStep ==
    ASSUME TypeOK, Lists, Items, NEW t \in Threads, NEW l, NEW r, Moved(t, l, r),
           QueueEffect(t, r), UNCHANGED kind
    PROVE  Items'
<1> USE DEF Items
<1>1. /\ local'[t].got = r.got
      /\ \A u \in Threads : u # t => local'[u].got = local[u].got
  BY MovedFacts
<1>2. /\ kind \in Seq(Kinds \cup Odd) /\ event \in [Elements -> Nat]
      /\ Range(Queue) \subseteq Elements
  BY SizeTypes, ListFacts
<1>3. CASE r.got = local[t].got /\ SameQueue /\ UNCHANGED arrived
  <2>1. Queue' = Queue /\ event' = event /\ \A u \in Threads : local'[u].got = local[u].got
    BY <1>1, <1>3 DEF SameQueue
  <2>2. ArrivedOK' /\ \A e : IsEvent(e) => WillBeEvent(e)
    BY <1>3, NoneLooked
  <2>3. QueueEvents'
    BY <2>1, <2>2, ItemsNext DEF QueueEvents
  <2>4. GotEvents'
    BY <2>1, <2>2, ItemsNext DEF GotEvents
  <2> QED BY <2>2, <2>3, <2>4
<1>4. CASE r.got = local[t].got /\ SameQueue /\ Looked(t) /\ kind[Head(arrived)] \in Odd
  <2>1. Queue' = Queue /\ event' = event /\ \A u \in Threads : local'[u].got = local[u].got
    BY <1>1, <1>4 DEF SameQueue
  <2>2. ArrivedOK' /\ TakenIn' = TakenIn + 1 /\ TakenIn \in Nat
    BY <1>4, OneLooked
  <2>3. \A e : IsEvent(e) => WillBeEvent(e)
    BY <2>2, LaterEvents
  <2>4. QueueEvents'
    BY <2>1, <2>3, ItemsNext DEF QueueEvents
  <2>5. GotEvents'
    BY <2>1, <2>3, ItemsNext DEF GotEvents
  <2> QED BY <2>2, <2>4, <2>5
<1>5. CASE /\ r.got = local[t].got /\ Looked(t) /\ kind[Head(arrived)] \notin Odd
           /\ \E c : Appended(c)
  <2>1. PICK c : Appended(c)
    BY <1>5
  <2>2. Range(Queue') = Range(Queue) \cup {c} /\ c \in Elements /\ c \notin Range(Queue)
    BY <2>1, MembersAppended DEF Appended, EntersAs
  <2>3. /\ ArrivedOK' /\ TakenIn' = TakenIn + 1 /\ TakenIn \in Nat
        /\ Head(arrived) = TakenIn + 1 /\ TakenIn + 1 \in 1..Len(kind)
    BY <1>5, OneLooked
  <2>4. event' = [event EXCEPT ![c] = TakenIn + 1] /\ kind[TakenIn + 1] \in Kinds
    <3>1. kind[TakenIn + 1] \in Kinds \cup Odd
      BY <2>3, <1>2
    <3> QED BY <3>1, <1>5, <2>1, <2>3 DEF Appended, EntersAs
  <2>5. event'[c] = TakenIn + 1 /\ \A d \in Range(Queue) : event'[d] = event[d]
    BY <1>2, <2>2, <2>4
  <2>6. WillBeEvent(TakenIn + 1)
    BY <2>3, <2>4 DEF WillBeEvent
  <2>7. \A e : IsEvent(e) => WillBeEvent(e) /\ e # TakenIn + 1
    BY <2>3, LaterEvents
  <2>8. QueueEvents'
    BY <2>2, <2>5, <2>6, <2>7, ItemsNext DEF QueueEvents
  <2>9. \A u \in Threads : local'[u].got = local[u].got
    BY <1>1, <1>5
  <2>10. GotEvents'
    BY <2>2, <2>5, <2>7, <2>9, ItemsNext DEF GotEvents
  <2> QED BY <2>3, <2>8, <2>10
<1>6. CASE r.got = local[t].got /\ UNCHANGED arrived /\ Emptied
  <2>1. Range(Queue') = {}
    BY <1>6 DEF Emptied, Range
  <2>2. ArrivedOK' /\ \A e : IsEvent(e) => WillBeEvent(e)
    BY <1>6, NoneLooked
  <2>3. \A u \in Threads : local'[u].got = local[u].got
    BY <1>1, <1>6
  <2>4. QueueEvents'
    BY <2>1, ItemsNext DEF QueueEvents
  <2>5. GotEvents'
    BY <2>1, <2>2, <2>3, ItemsNext DEF GotEvents
  <2> QED BY <2>2, <2>4, <2>5
<1>7. CASE r.got = 0 /\ local[t].got # 0 /\ UNCHANGED arrived /\ \E c : PutFirst(t, c)
  <2>1. PICK c : PutFirst(t, c)
    BY <1>7
  <2>2. Range(Queue') = Range(Queue) \cup {c} /\ c \in Elements /\ c \notin Range(Queue)
    BY <2>1, MembersPutFirst DEF PutFirst, EntersAs
  <2>3. ArrivedOK' /\ \A e : IsEvent(e) => WillBeEvent(e)
    BY <1>7, NoneLooked
  <2>4. event' = [event EXCEPT ![c] = local[t].got]
    BY <2>1 DEF PutFirst, EntersAs
  <2>5. event'[c] = local[t].got /\ \A d \in Range(Queue) : event'[d] = event[d]
    BY <1>2, <2>2, <2>4
  <2>6. IsEvent(local[t].got) /\ \A d \in Range(Queue) : event[d] # local[t].got
    BY <1>7 DEF GotEvents
  <2>7. QueueEvents'
    BY <2>2, <2>3, <2>5, <2>6, ItemsNext DEF QueueEvents
  <2>8. GotEvents'
    <3>1. ASSUME NEW u \in Threads, local'[u].got # 0
          PROVE  /\ WillBeEvent(local'[u].got)
                 /\ \A d \in Range(Queue') : event'[d] # local'[u].got
                 /\ u # t /\ local'[u].got = local[u].got
      <4>1. u # t /\ local'[u].got = local[u].got /\ local[u].got # local[t].got
        BY <3>1, <1>1, <1>7 DEF GotEvents
      <4>2. IsEvent(local[u].got) /\ \A d \in Range(Queue) : event[d] # local[u].got
        BY <3>1, <4>1 DEF GotEvents
      <4>3. \A d \in Range(Queue') : event'[d] # local'[u].got
        BY <4>1, <4>2, <2>2, <2>5
      <4>4. WillBeEvent(local'[u].got)
        BY <4>1, <4>2, <2>3
      <4> QED BY <4>1, <4>3, <4>4
    <3>2. ASSUME NEW u \in Threads, NEW v \in Threads, local'[u].got # 0,
                 local'[u].got = local'[v].got
          PROVE  u = v
      <4>1. local[u].got # 0 /\ local[u].got = local[v].got
        BY <3>1, <3>2
      <4> QED BY <4>1 DEF GotEvents
    <3> QED BY <3>1, <3>2, ItemsNext
  <2> QED BY <2>3, <2>7, <2>8
<1>8. CASE \E i \in 1..Len(Queue) : r.got = event[Queue[i]] /\ UNCHANGED arrived /\ TakenOut(i)
  <2>1. PICK i \in 1..Len(Queue) : r.got = event[Queue[i]] /\ UNCHANGED arrived /\ TakenOut(i)
    BY <1>8
  <2> DEFINE c == Queue[i]
  <2>2. Range(Queue') = Range(Queue) \ {c} /\ c \in Range(Queue) /\ event' = event
    BY <2>1, MembersTakenOut, ListFacts, RangeFacts DEF TakenOut
  <2>3. ArrivedOK' /\ \A e : IsEvent(e) => WillBeEvent(e)
    BY <2>1, NoneLooked
  <2>4. IsEvent(event[c]) /\ \A d \in Range(Queue') : event[d] # event[c]
    BY <2>2 DEF QueueEvents
  <2>5. local'[t].got = event[c]
    BY <1>1, <2>1
  <2> HIDE DEF c
  <2>6. QueueEvents'
    BY <2>2, <2>3, ItemsNext DEF QueueEvents
  <2>7. \A u \in Threads : u # t => local'[u].got # event[c]
    <3>1. event[c] # 0
      BY <2>4, SizeTypes DEF IsEvent, TakenIn
    <3> QED BY <3>1, <1>1, <2>2 DEF GotEvents
  <2>8. ASSUME NEW u \in Threads, local'[u].got # 0
        PROVE  WillBeEvent(local'[u].got) /\ \A d \in Range(Queue') : event'[d] # local'[u].got
    <3>1. CASE u = t
      BY <3>1, <2>2, <2>3, <2>4, <2>5
    <3>2. CASE u # t
      <4>1. local'[u].got = local[u].got
        BY <3>2, <1>1
      <4>2. IsEvent(local[u].got) /\ \A d \in Range(Queue) : event[d] # local[u].got
        BY <2>8, <4>1 DEF GotEvents
      <4> QED BY <4>1, <4>2, <2>2, <2>3
    <3> QED BY <3>1, <3>2
  <2>9. ASSUME NEW u \in Threads, NEW v \in Threads, local'[u].got # 0,
               local'[u].got = local'[v].got
        PROVE  u = v
    <3>1. CASE u = t \/ v = t
      BY <3>1, <2>5, <2>7, <2>9
    <3>2. CASE u # t /\ v # t
      BY <3>2, <2>9, <1>1 DEF GotEvents
    <3> QED BY <3>1, <3>2
  <2>10. GotEvents'
    BY <2>8, <2>9, ItemsNext
  <2> QED BY <2>3, <2>6, <2>10
<1> QED BY <1>3, <1>4, <1>5, <1>6, <1>7, <1>8 DEF QueueEffect

\* The server sends one more item.
LEMMA ItemsSend ==
    ASSUME TypeOK, Items, Send, Queue' = Queue
    PROVE  Items' /\ \A e : IsEvent(e) => WillBeEvent(e)
<1>1. /\ Len(kind') = Len(kind) + 1 /\ Len(arrived') = Len(arrived) + 1
      /\ \A i \in 1..Len(kind) : kind'[i] = kind[i]
      /\ \A i \in 1..Len(arrived) : arrived'[i] = arrived[i]
      /\ arrived'[Len(arrived) + 1] = Len(kind) + 1
  BY SendTypes
<1>2. event' = event /\ local' = local
  BY DEF Send, queueVars
<1>3. Len(kind) \in Nat /\ Len(arrived) \in Nat /\ Len(arrived) <= Len(kind)
  BY SizeTypes DEF Items, ArrivedOK
<1>4. TakenIn' = TakenIn /\ TakenIn \in 0..Len(kind)
  BY <1>1, <1>3 DEF TakenIn
<1>5. ArrivedOK'
  <2>1. Len(arrived') <= Len(kind')
    BY <1>1, <1>3
  <2>2. ASSUME NEW i \in 1..Len(arrived') PROVE arrived'[i] = TakenIn' + i
    <3>1. CASE i = Len(arrived) + 1
      BY <3>1, <1>1, <1>3, <1>4 DEF TakenIn
    <3>2. CASE i # Len(arrived) + 1
      <4>1. i \in 1..Len(arrived)
        BY <3>2, <1>1, <1>3
      <4> QED BY <4>1, <1>1, <1>4 DEF Items, ArrivedOK
    <3> QED BY <3>1, <3>2
  <2> QED BY <2>1, <2>2 DEF ArrivedOK
<1>6. ASSUME NEW e, IsEvent(e) PROVE WillBeEvent(e)
  <2>1. e \in 1..TakenIn /\ kind[e] \in Kinds
    BY <1>6 DEF IsEvent
  <2>2. e \in 1..Len(kind)
    BY <2>1, <1>3, <1>4
  <2> QED BY <2>1, <2>2, <1>1, <1>4 DEF WillBeEvent
<1>7. QueueEvents'
  BY <1>2, <1>6, ItemsNext DEF Items, QueueEvents
<1>8. GotEvents'
  BY <1>2, <1>6, ItemsNext DEF Items, GotEvents
<1> QED BY <1>5, <1>6, <1>7, <1>8 DEF Items

\* At the start there are none.
LEMMA ItemsInit == Init => Items
<1> SUFFICES ASSUME Init PROVE Items
  OBVIOUS
<1>1. kind = <<>> /\ arrived = <<>> /\ \A t \in Threads : local[t].got = 0
  BY DEF Init
<1>2. Queue = <<>> /\ Range(Queue) = {}
  BY QInvInit, HeadFacts, ListFacts DEF QInv, Init, Range
<1>3. ArrivedOK
  BY <1>1 DEF ArrivedOK
<1> QED BY <1>1, <1>2, <1>3 DEF Items, QueueEvents, GotEvents

-----------------------------------------------------------------------------
(***************************************************************************)
(* The order of the elements.                                              *)
(***************************************************************************)
AtOrBefore(c, d) == \E i, j \in 1..Len(Queue) : i <= j /\ Queue[i] = c /\ Queue[j] = d

\* An element that stays as it is, and one that is put at the end.
Stays(c) == c \in Range(Queue) /\ qserial_num'[c] = qserial_num[c] /\ event'[c] = event[c]
Fresh(c) == c \notin Range(Queue) /\ qserial_num'[c] = next_event_serial_num

\* What a step that puts nothing back does to the order: elements leave, and
\* one may enter at the end.
OrderKept ==
    /\ next_event_serial_num' \in Nat /\ next_event_serial_num <= next_event_serial_num'
    /\ \A c \in Range(Queue') : Stays(c) \/ Fresh(c)
    /\ \A c, d : AtOrBefore(c, d)' => AtOrBefore(c, d) \/ Fresh(d)
    /\ \A c, d \in Range(Queue') : AtOrBefore(c, d) => AtOrBefore(c, d)'

\* The members of the queue.
LEMMA PlaceIn ==
    ASSUME TypeOK, Lists, NEW i \in 1..Len(Queue)
    PROVE  Queue[i] \in Range(Queue) /\ Queue[i] \in Elements
BY ListFacts, RangeFacts

\* The order when the queue stays the same,
LEMMA OrderSame ==
    ASSUME TypeOK, Lists, SameQueue
    PROVE  OrderKept
<1>1. \A c, d : AtOrBefore(c, d)' <=> AtOrBefore(c, d)
  BY DEF SameQueue, AtOrBefore
<1>2. \A c \in Range(Queue') : Stays(c)
  BY DEF SameQueue, Stays
<1>3. next_event_serial_num' \in Nat /\ next_event_serial_num <= next_event_serial_num'
  BY SizeTypes DEF SameQueue
<1> QED BY <1>1, <1>2, <1>3 DEF OrderKept

\* when XSync has emptied it,
LEMMA OrderEmptied ==
    ASSUME TypeOK, Lists, Emptied
    PROVE  OrderKept
<1>1. Len(Queue') = 0 /\ Range(Queue') = {}
  BY DEF Emptied, Range
<1>2. \A c, d : ~AtOrBefore(c, d)'
  BY <1>1 DEF AtOrBefore
<1>3. next_event_serial_num' \in Nat /\ next_event_serial_num <= next_event_serial_num'
  BY SizeTypes DEF Emptied
<1> QED BY <1>1, <1>2, <1>3 DEF OrderKept

\* when an event has come,
LEMMA OrderAppended ==
    ASSUME TypeOK, Lists, NEW e, Appended(e)
    PROVE  OrderKept
<1> DEFINE n == Len(Queue)
<1>0. n \in Nat
  BY ListFacts
<1>1. /\ Range(Queue') = Range(Queue) \cup {e}
      /\ Len(Queue') = n + 1 /\ Queue'[n + 1] = e
      /\ \A i \in 1..n : Queue'[i] = Queue[i]
  BY MembersAppended
<1>2. /\ e \in Elements /\ e \notin Range(Queue)
      /\ qserial_num'[e] = next_event_serial_num
      /\ \A c \in Elements : c # e => qserial_num'[c] = qserial_num[c] /\ event'[c] = event[c]
      /\ next_event_serial_num' \in Nat /\ next_event_serial_num <= next_event_serial_num'
  BY SizeTypes DEF Appended, EntersAs
<1>3. \A c \in Range(Queue') : Stays(c) \/ Fresh(c)
  BY <1>1, <1>2, ListFacts DEF Stays, Fresh
<1>4. ASSUME NEW c, NEW d, AtOrBefore(c, d)' PROVE AtOrBefore(c, d) \/ Fresh(d)
  <2>1. PICK i, j \in 1..(n + 1) : i <= j /\ Queue'[i] = c /\ Queue'[j] = d
    BY <1>1, <1>4 DEF AtOrBefore
  <2>2. CASE j = n + 1
    BY <2>1, <2>2, <1>1, <1>2 DEF Fresh
  <2>3. CASE j # n + 1
    <3>1. i \in 1..n /\ j \in 1..n
      BY <2>1, <2>3, <1>0
    <3> QED BY <3>1, <2>1, <1>1 DEF AtOrBefore
  <2> QED BY <2>2, <2>3
<1>5. ASSUME NEW c, NEW d, AtOrBefore(c, d) PROVE AtOrBefore(c, d)'
  <2>1. PICK i, j \in 1..n : i <= j /\ Queue[i] = c /\ Queue[j] = d
    BY <1>5 DEF AtOrBefore
  <2>2. i \in 1..(n + 1) /\ j \in 1..(n + 1)
    BY <2>1, <1>0
  <2> QED BY <2>1, <2>2, <1>1 DEF AtOrBefore
<1> HIDE DEF n
<1> QED BY <1>2, <1>3, <1>4, <1>5 DEF OrderKept

\* and when one was removed.
LEMMA OrderTakenOut ==
    ASSUME TypeOK, Lists, NEW k \in 1..Len(Queue), TakenOut(k)
    PROVE  OrderKept
<1> DEFINE n == Len(Queue)
<1>0. n \in Nat /\ k \in 1..n
  BY ListFacts
<1>1. /\ Range(Queue') = Range(Queue) \ {Queue[k]}
      /\ Len(Queue') = n - 1
      /\ \A j \in 1..(n - 1) : Queue'[j] = IF j < k THEN Queue[j] ELSE Queue[j + 1]
  BY MembersTakenOut
<1>2. next_event_serial_num' \in Nat /\ next_event_serial_num <= next_event_serial_num'
  BY SizeTypes DEF TakenOut
<1>3. \A c \in Range(Queue') : Stays(c)
  BY <1>1, ListFacts DEF TakenOut, Stays
<1> DEFINE Was(j) == IF j < k THEN j ELSE j + 1
           Is(j) == IF j < k THEN j ELSE j - 1
<1>4. ASSUME NEW c, NEW d, AtOrBefore(c, d)' PROVE AtOrBefore(c, d)
  <2>1. PICK i, j \in 1..(n - 1) : i <= j /\ Queue'[i] = c /\ Queue'[j] = d
    BY <1>1, <1>4 DEF AtOrBefore
  <2>2. Was(i) \in 1..n /\ Was(j) \in 1..n /\ Was(i) <= Was(j)
    BY <2>1, <1>0
  <2>3. Queue[Was(i)] = c /\ Queue[Was(j)] = d
    BY <2>1, <1>1
  <2> HIDE DEF Was
  <2> QED BY <2>2, <2>3 DEF AtOrBefore
<1>5. ASSUME NEW c \in Range(Queue'), NEW d \in Range(Queue'), AtOrBefore(c, d)
      PROVE  AtOrBefore(c, d)'
  <2>1. PICK i, j \in 1..n : i <= j /\ Queue[i] = c /\ Queue[j] = d
    BY <1>5 DEF AtOrBefore
  <2>2. i # k /\ j # k
    BY <2>1, <1>1
  <2>3. /\ Is(i) \in 1..(n - 1) /\ Is(j) \in 1..(n - 1) /\ Is(i) <= Is(j)
        /\ Was(Is(i)) = i /\ Was(Is(j)) = j
    BY <2>1, <2>2, <1>0
  <2>4. \A m \in 1..(n - 1) : Queue'[m] = Queue[Was(m)]
    BY <1>1
  <2> HIDE DEF Was, Is
  <2>5. Queue'[Is(i)] = c /\ Queue'[Is(j)] = d
    BY <2>1, <2>3, <2>4
  <2> QED BY <2>3, <2>5, <1>1 DEF AtOrBefore
<1> HIDE DEF n
<1> QED BY <1>2, <1>3, <1>4, <1>5 DEF OrderKept

\* Every step but the one of XPutBackEvent keeps the order.
LEMMA OrderStep ==
    ASSUME TypeOK, Lists, NEW t, NEW r, QueueEffect(t, r), pc[t] # "PutBack"
    PROVE  OrderKept
BY OrderSame, OrderEmptied, OrderAppended, OrderTakenOut DEF QueueEffect

\* Who leaves the queue before others that were ahead of it is removed by a
\* scan.
LEMMA OvertakenByScan ==
    ASSUME TypeOK, Lists, NEW t, NEW r, QueueEffect(t, r), pc[t] # "PutBack",
           NEW c \in Range(Queue'), NEW d, d \notin Range(Queue'), AtOrBefore(c, d)
    PROVE  pc[t] = "Scan"
<1>0. PICK m, n \in 1..Len(Queue) : m <= n /\ Queue[m] = c /\ Queue[n] = d
  BY DEF AtOrBefore
<1>1. d \in Range(Queue)
  BY <1>0, PlaceIn
<1>2. ASSUME SameQueue PROVE FALSE
  BY <1>1, <1>2 DEF SameQueue
<1>3. ASSUME NEW e, Appended(e) PROVE FALSE
  BY <1>1, <1>3, MembersAppended
<1>4. ASSUME Emptied PROVE FALSE
  BY <1>4 DEF Emptied, Range
<1>5. ASSUME NEW i \in 1..Len(Queue), TakenOut(i), FirstHit(t, i) PROVE pc[t] = "Scan"
  <2>1. Range(Queue') = Range(Queue) \ {Queue[i]}
    BY <1>5, MembersTakenOut
  <2>2. Queue[n] = Queue[i] /\ Queue[m] # Queue[i]
    BY <2>1, <1>0, <1>1
  <2>3. n = i /\ m # i
    BY <2>2, <1>0, ListFacts
  <2>4. i # 1
    BY <2>3, <1>0, ListFacts
  <2> QED BY <2>4, <1>5 DEF FirstHit
<1> QED BY <1>2, <1>3, <1>4, <1>5 DEF QueueEffect

-----------------------------------------------------------------------------
(***************************************************************************)
(* What the scans have seen.  A thread that puts events back is the only   *)
(* one that scans: an event put back ahead of the place of a scan is not   *)
(* looked at by the calls that go on from that place.                      *)
(***************************************************************************)
PutBackAlone ==
    \A s \in Scripts : \A t, u \in Threads :
        t # u /\ Asks(s[t], {"PutBack"}) => ~Asks(s[u], Scans)

PutsAlone == \A t, u \in Threads : t # u /\ HasCall(t, {"PutBack"}) => ~HasCall(u, Scans)

InOrder == \A c, d \in Range(Queue) : AtOrBefore(c, d) => qserial_num[c] <= qserial_num[d]
OneScanner == \E p \in Threads : \A u \in Threads : u # p => ~HasCall(u, Scans)

\* The elements that the search of a thread with the locals r has covered.
Seen(r, c) == \/ qserial_num[c] <= r.qe_serial
              \/ r.prev # Nil /\ qserial_num[r.prev] = r.qe_serial /\ AtOrBefore(c, r.prev)

TestedSeen(r) ==
    /\ \A x \in r.tested : x < next_event_serial_num
    /\ \A c \in Range(Queue) : qserial_num[c] \in r.tested => Seen(r, c)

\* A thread that has looked through the queue.
LookOK(l, r) ==
    Looking(l, r) =>
        /\ \A c \in Range(Queue) : qserial_num[c] < r.serial => kind[event[c]] \notin r.wants
        /\ \A c, d \in Range(Queue) : AtOrBefore(c, d) /\ qserial_num[d] < r.serial
                                         => qserial_num[c] < r.serial
        /\ r.qe_serial < r.serial /\ r.serial <= next_event_serial_num
        /\ TestedSeen(r)

\* A thread that is going to.
ScanOK(l, r) ==
    l = "Scan" =>
        /\ \A c \in Range(Queue) : Seen(r, c) => kind[event[c]] \notin r.wants
        /\ r.prev # Nil => qserial_num[r.prev] = r.qe_serial
        /\ TestedSeen(r)

OrderInv ==
    /\ PutsAlone
    /\ InOrder \/ OneScanner
    /\ \A t \in Threads : LookOK(pc[t], local[t]) /\ ScanOK(pc[t], local[t])

\* Only members of the queue are in an order.
LEMMA InQueue ==
    ASSUME TypeOK, Lists, NEW c, NEW d, AtOrBefore(c, d)
    PROVE  c \in Range(Queue) /\ d \in Range(Queue)
BY ListFacts, RangeFacts DEF AtOrBefore

\* And after a step.
LEMMA InQueueNext ==
    ASSUME Lists', NEW c, NEW d, AtOrBefore(c, d)'
    PROVE  c \in Range(Queue') /\ d \in Range(Queue')
<1>1. Queue' \in Seq(Elements)
  BY PathFacts DEF Lists, TwoLists
<1> QED BY <1>1, RangeFacts DEF AtOrBefore

\* The serial numbers are numbers that have been given.
LEMMA SerialTypes ==
    ASSUME TypeOK, Lists, Serials, NEW c \in Range(Queue)
    PROVE  qserial_num[c] \in Nat \ {0} /\ qserial_num[c] < next_event_serial_num
           /\ next_event_serial_num \in Nat /\ event[c] \in Nat /\ c \in Elements
<1>1. qserial_num[c] \in 1..(next_event_serial_num - 1) /\ next_event_serial_num \in Nat
  BY SizeTypes DEF Serials
<1>2. c \in Elements
  BY ListFacts
<1>3. event[c] \in Nat
  BY <1>2, SizeTypes
<1> QED BY <1>1, <1>2, <1>3

\* The serial numbers follow the order of the queue as long as the order is
\* kept.
LEMMA InOrderStep ==
    ASSUME TypeOK, Lists, Serials, Lists', InOrder, OrderKept
    PROVE  InOrder'
<1> SUFFICES ASSUME NEW c \in Range(Queue'), NEW d \in Range(Queue'), AtOrBefore(c, d)'
             PROVE  qserial_num'[c] <= qserial_num'[d]
  BY DEF InOrder
<1>1. (Stays(c) \/ Fresh(c)) /\ (Stays(d) \/ Fresh(d)) /\ (AtOrBefore(c, d) \/ Fresh(d))
  BY DEF OrderKept
<1>2. CASE Fresh(d)
  <2>1. qserial_num'[d] = next_event_serial_num
    BY <1>2 DEF Fresh
  <2>2. CASE Fresh(c)
    BY <2>1, <2>2, SizeTypes DEF Fresh
  <2>3. CASE Stays(c)
    <3>1. c \in Range(Queue) /\ qserial_num'[c] = qserial_num[c]
      BY <2>3 DEF Stays
    <3> QED BY <2>1, <3>1, SerialTypes
  <2> QED BY <1>1, <2>2, <2>3
<1>3. CASE AtOrBefore(c, d) /\ ~Fresh(d)
  <2>1. c \in Range(Queue) /\ d \in Range(Queue)
    BY <1>3, InQueue
  <2>2. qserial_num[c] <= qserial_num[d]
    BY <1>3, <2>1 DEF InOrder
  <2> QED BY <1>1, <1>3, <2>1, <2>2 DEF Stays, Fresh
<1> QED BY <1>1, <1>2, <1>3

EventsKept == \A c \in Range(Queue') : Stays(c) => kind'[event'[c]] = kind[event[c]]

\* A search that goes on.
LEMMA LookKept ==
    ASSUME TypeOK, Lists, Serials, Lists', OrderKept, EventsKept,
           NEW l, NEW r \in Locals, NEW s \in Locals, SameSearch(s, r),
           Looking(l, r), LookOK(l, r),
           \A c \in Range(Queue') : AtOrBefore(c, r.prev) /\ r.prev \notin Range(Queue')
                                       => qserial_num[c] <= qserial_num[r.prev],
           NEW m
    PROVE  LookOK(m, s)'
<1>1. /\ s.wants = r.wants /\ s.serial = r.serial /\ s.qe_serial = r.qe_serial
      /\ s.prev = r.prev /\ s.tested = r.tested
  BY DEF SameSearch
<1>2. /\ r.serial \in Nat /\ r.qe_serial \in Nat /\ r.tested \in SUBSET Nat
      /\ next_event_serial_num \in Nat /\ next_event_serial_num <= next_event_serial_num'
  BY SizeTypes DEF Locals, OrderKept
<1>3. /\ \A c \in Range(Queue) : qserial_num[c] < r.serial => kind[event[c]] \notin r.wants
      /\ \A c, d \in Range(Queue) : AtOrBefore(c, d) /\ qserial_num[d] < r.serial
                                         => qserial_num[c] < r.serial
      /\ r.qe_serial < r.serial /\ r.serial <= next_event_serial_num
      /\ \A x \in r.tested : x < next_event_serial_num
      /\ \A c \in Range(Queue) : qserial_num[c] \in r.tested => Seen(r, c)
  BY DEF LookOK, TestedSeen
<1>4. ASSUME NEW c, Fresh(c)
      PROVE  ~(qserial_num'[c] < r.serial) /\ qserial_num'[c] \notin r.tested
  BY <1>2, <1>3, <1>4 DEF Fresh
<1>5. ASSUME NEW c \in Range(Queue'), qserial_num'[c] < r.serial
      PROVE  kind'[event'[c]] \notin r.wants
  <2>1. Stays(c)
    BY <1>4, <1>5 DEF OrderKept
  <2>2. c \in Range(Queue) /\ qserial_num[c] < r.serial
    BY <2>1, <1>5 DEF Stays
  <2> QED BY <2>1, <2>2, <1>3 DEF EventsKept
<1>6. ASSUME NEW c \in Range(Queue'), NEW d \in Range(Queue'), AtOrBefore(c, d)',
             qserial_num'[d] < r.serial
      PROVE  qserial_num'[c] < r.serial
  <2>1. AtOrBefore(c, d)
    BY <1>4, <1>6 DEF OrderKept
  <2>2. c \in Range(Queue) /\ d \in Range(Queue)
    BY <2>1, InQueue
  <2>3. qserial_num'[c] = qserial_num[c] /\ qserial_num'[d] = qserial_num[d]
    BY <2>2 DEF OrderKept, Stays, Fresh
  <2> QED BY <2>1, <2>2, <2>3, <1>3, <1>6
<1>7. ASSUME NEW x \in r.tested PROVE x < next_event_serial_num'
  <2>1. next_event_serial_num' \in Nat
    BY <1>2, <1>7 DEF OrderKept
  <2> QED BY <2>1, <1>2, <1>3, <1>7
<1>8. ASSUME NEW c \in Range(Queue'), qserial_num'[c] \in r.tested
      PROVE  \/ qserial_num'[c] <= r.qe_serial
             \/ r.prev # Nil /\ qserial_num'[r.prev] = r.qe_serial /\ AtOrBefore(c, r.prev)'
  <2>1. c \in Range(Queue) /\ qserial_num'[c] = qserial_num[c]
    BY <1>4, <1>8 DEF OrderKept, Stays
  <2>2. Seen(r, c)
    BY <2>1, <1>3, <1>8
  <2>3. CASE qserial_num[c] <= r.qe_serial
    BY <2>1, <2>3
  <2>4. CASE r.prev # Nil /\ qserial_num[r.prev] = r.qe_serial /\ AtOrBefore(c, r.prev)
    <3>1. r.prev \in Range(Queue)
      BY <2>4, InQueue
    <3>2. CASE r.prev \in Range(Queue')
      <4>1. qserial_num'[r.prev] = qserial_num[r.prev] /\ AtOrBefore(c, r.prev)'
        BY <3>1, <3>2, <2>4 DEF OrderKept, Stays, Fresh
      <4> QED BY <4>1, <2>4
    <3>3. CASE r.prev \notin Range(Queue')
      BY <3>3, <2>1, <2>4
    <3> QED BY <3>2, <3>3
  <2> QED BY <2>2, <2>3, <2>4 DEF Seen
<1>9. s.serial <= next_event_serial_num'
  BY <1>1, <1>2, <1>3 DEF OrderKept
<1> QED BY <1>1, <1>3, <1>5, <1>6, <1>7, <1>8, <1>9 DEF LookOK, TestedSeen, Seen

\* Nothing that the searches look at has changed.
LEMMA SameSeen ==
    ASSUME SameQueue, UNCHANGED kind, NEW l, NEW r
    PROVE  /\ LookOK(l, r) => LookOK(l, r)'
           /\ ScanOK(l, r) => ScanOK(l, r)'
<1>1. /\ Queue' = Queue /\ event' = event /\ qserial_num' = qserial_num
      /\ next_event_serial_num' = next_event_serial_num /\ kind' = kind
  BY DEF SameQueue
<1>2. ASSUME LookOK(l, r) PROVE LookOK(l, r)'
  BY <1>1, <1>2 DEF LookOK, Looking, TestedSeen, Seen, AtOrBefore
<1>3. ASSUME ScanOK(l, r) PROVE ScanOK(l, r)'
  BY <1>1, <1>3 DEF ScanOK, TestedSeen, Seen, AtOrBefore
<1> QED BY <1>2, <1>3

\* A scan that begins has seen nothing.
LEMMA BeginOK ==
    ASSUME TypeOK, Lists, Serials, NEW l, NEW r,
           r.prev = Nil, r.qe_serial = 0, r.tested = {}
    PROVE  ScanOK(l, r)
<1>1. \A c \in Range(Queue) : ~Seen(r, c)
  <2> SUFFICES ASSUME NEW c \in Range(Queue), Seen(r, c) PROVE FALSE
    OBVIOUS
  <2>1. qserial_num[c] <= 0 /\ qserial_num[c] \in Nat \ {0}
    BY SerialTypes DEF Seen
  <2> QED BY <2>1
<1> QED BY <1>1 DEF ScanOK, TestedSeen

\* A scan that has found nothing has looked at all elements.
LEMMA MissedOK ==
    ASSUME TypeOK, Lists, Serials, Control, Places, NEW t \in Threads, NEW l, NEW r,
           FindsNothing(t, l, r), ScanOK(pc[t], local[t])
    PROVE  LookOK(l, r)
<1> DEFINE n == Len(Queue)
<1>0. n \in Nat /\ pc[t] = "Scan" /\ local[t].qe_serial \in Nat
      /\ local[t].tested \in SUBSET Nat /\ local[t].prev \in {Nil} \cup Elements
  BY ListFacts, LocalTypes DEF FindsNothing
<1>1. /\ r.wants = local[t].wants /\ r.serial = next_event_serial_num
      /\ r.prev = IF Queue = <<>> THEN Nil ELSE Queue[n]
      /\ r.qe_serial = IF r.prev = Nil THEN local[t].qe_serial ELSE qserial_num[r.prev]
  BY DEF FindsNothing
<1>2. PICK k : /\ IsPlace(t, k)
               /\ \A m \in 1..n : k < m => ~Matches(t, Queue[m])
               /\ \A x \in r.tested :
                     \/ x \in local[t].tested
                     \/ \E m \in 1..n : k < m /\ x = qserial_num[Queue[m]]
  BY DEF FindsNothing
<1>3. /\ \A c \in Range(Queue) : Seen(local[t], c) => kind[event[c]] \notin local[t].wants
      /\ local[t].prev # Nil => qserial_num[local[t].prev] = local[t].qe_serial
      /\ \A x \in local[t].tested : x < next_event_serial_num
  BY <1>0 DEF ScanOK, TestedSeen
<1>4. ASSUME NEW c \in Range(Queue) PROVE kind[event[c]] \notin r.wants
  <2>1. PICK m \in 1..n : c = Queue[m]
    BY ListFacts, RangeFacts
  <2>2. CASE k < m
    <3>1. ~Tested(t, c) \/ kind[event[c]] \notin local[t].wants
      BY <1>2, <2>1, <2>2 DEF Matches
    <3>2. ASSUME ~Tested(t, c) PROVE kind[event[c]] \notin local[t].wants
      <4>1. qserial_num[c] <= local[t].qe_serial
        BY <3>2, <1>0, SerialTypes DEF Tested
      <4> QED BY <4>1, <1>3 DEF Seen
    <3> QED BY <3>1, <3>2, <1>1
  <2>3. CASE ~(k < m)
    <3>1. k \in 1..n /\ m <= k /\ local[t].prev = Queue[k]
      BY <2>1, <2>3, <1>0, <1>2 DEF IsPlace
    <3>2. AtOrBefore(c, local[t].prev) /\ local[t].prev # Nil
      BY <3>1, <2>1, ListFacts DEF AtOrBefore, Nil
    <3>3. Seen(local[t], c)
      BY <3>2, <1>3 DEF Seen
    <3> QED BY <3>3, <1>1, <1>3
  <2> QED BY <2>2, <2>3
<1>5. \A c \in Range(Queue) : qserial_num[c] < r.serial
  BY <1>1, SerialTypes
<1>6. next_event_serial_num \in Nat
  BY SizeTypes
<1>7. r.qe_serial < r.serial
  <2>1. CASE r.prev = Nil
    <3>1. local[t].qe_serial < next_event_serial_num
      BY <1>0 DEF Places, PlaceOK, Searching, Control, Fits
    <3> QED BY <2>1, <3>1, <1>1
  <2>2. CASE r.prev # Nil
    <3>1. n # 0
      BY <2>2, <1>1, ListFacts
    <3>2. r.prev \in Range(Queue)
      BY <2>2, <3>1, <1>0, <1>1, PlaceIn
    <3> QED BY <2>2, <3>2, <1>1, <1>5
  <2> QED BY <2>1, <2>2
<1>8. ASSUME NEW x \in r.tested PROVE x < next_event_serial_num
  <2>1. CASE x \in local[t].tested
    BY <2>1, <1>3
  <2>2. CASE \E m \in 1..n : k < m /\ x = qserial_num[Queue[m]]
    BY <2>2, PlaceIn, SerialTypes
  <2> QED BY <2>1, <2>2, <1>2
<1>9. ASSUME NEW c \in Range(Queue) PROVE Seen(r, c)
  <2>1. PICK m \in 1..n : c = Queue[m]
    BY ListFacts, RangeFacts
  <2>2. n \in 1..n /\ m <= n /\ Queue # <<>>
    BY <2>1, <1>0, ListFacts
  <2>3. r.prev = Queue[n] /\ r.prev # Nil
    BY <2>2, <1>1, ListFacts DEF Nil
  <2>4. AtOrBefore(c, r.prev)
    BY <2>1, <2>2, <2>3 DEF AtOrBefore
  <2> QED BY <2>3, <2>4, <1>1 DEF Seen
<1> QED BY <1>1, <1>4, <1>5, <1>6, <1>7, <1>8, <1>9 DEF LookOK, TestedSeen

\* A scan that goes on after _XReadEvents.
LEMMA AgainOK ==
    ASSUME TypeOK, Lists, Serials, NEW t \in Threads, NEW l, NEW r,
           LooksAgain(t, l, r), LookOK(pc[t], local[t])
    PROVE  ScanOK(l, r)
<1>1. /\ r.wants = local[t].wants /\ r.qe_serial = local[t].qe_serial
      /\ r.tested = local[t].tested
      /\ r.prev = IF Snatched(t) THEN Nil ELSE local[t].prev
      /\ Looking(pc[t], local[t])
  BY DEF LooksAgain, Looking, Middle
<1>2. /\ \A c \in Range(Queue) :
            qserial_num[c] < local[t].serial => kind[event[c]] \notin local[t].wants
      /\ \A c, d \in Range(Queue) :
            AtOrBefore(c, d) /\ qserial_num[d] < local[t].serial
               => qserial_num[c] < local[t].serial
      /\ local[t].qe_serial < local[t].serial
      /\ \A x \in local[t].tested : x < next_event_serial_num
      /\ \A c \in Range(Queue) : qserial_num[c] \in local[t].tested => Seen(local[t], c)
  BY <1>1 DEF LookOK, TestedSeen
<1>3. local[t].qe_serial \in Nat /\ local[t].serial \in Nat
  BY LocalTypes
<1>4. ASSUME NEW c \in Range(Queue) PROVE Seen(r, c) <=> Seen(local[t], c)
  BY <1>1 DEF Seen, Snatched
<1>5. ASSUME NEW c \in Range(Queue), Seen(local[t], c) PROVE kind[event[c]] \notin r.wants
  <2>1. CASE qserial_num[c] <= local[t].qe_serial
    <3>1. qserial_num[c] < local[t].serial
      BY <2>1, <1>2, <1>3, SerialTypes
    <3> QED BY <3>1, <1>1, <1>2
  <2>2. CASE local[t].prev # Nil /\ qserial_num[local[t].prev] = local[t].qe_serial
             /\ AtOrBefore(c, local[t].prev)
    <3>1. local[t].prev \in Range(Queue)
      BY <2>2, InQueue
    <3>2. qserial_num[c] < local[t].serial
      BY <2>2, <3>1, <1>2
    <3> QED BY <3>2, <1>1, <1>2
  <2> QED BY <2>1, <2>2, <1>5 DEF Seen
<1>6. r.prev # Nil => qserial_num[r.prev] = r.qe_serial
  BY <1>1 DEF Snatched
<1> QED BY <1>1, <1>2, <1>4, <1>5, <1>6 DEF ScanOK, TestedSeen

\* What the steps of t do to the searches of the others.
LEMMA OthersKeep ==
    ASSUME TypeOK, Lists, Serials, LockHeld, Lists', OrderInv,
           NEW t \in Threads, NEW l, NEW r, Moved(t, l, r), QueueEffect(t, r), QueueCases(t),
           Control, UNCHANGED kind, NEW u \in Threads, u # t
    PROVE  LookOK(pc[u], local[u])' /\ ScanOK(pc[u], local[u])'
<1> USE DEF OrderInv
<1>1. PICK m, s : m = pc[u] /\ s = local[u]
  OBVIOUS
<1>2. pc'[u] = m /\ local'[u] = s /\ s \in Locals /\ LookOK(m, s) /\ ScanOK(m, s)
  BY <1>1, MovedFacts, LocalTypes
<1>3. LookOK(m, s)'
  <2>1. CASE ~Looking(m, s)
    BY <2>1 DEF LookOK, Looking
  <2>2. CASE Looking(m, s)
    <3>1. HasCall(u, Scans)
      BY <2>2, <1>1 DEF Looking, Middle, HasCall
    <3>2. pc[t] # "PutBack"
      <4> SUFFICES ASSUME pc[t] = "PutBack" PROVE FALSE
        OBVIOUS
      <4>1. HasCall(t, {"PutBack"})
        BY DEF Control, Fits, HasCall
      <4> QED BY <4>1, <3>1 DEF PutsAlone
    <3>3. OrderKept
      BY <3>2, OrderStep
    <3>4. EventsKept
      BY DEF EventsKept, Stays
    <3>5. ASSUME NEW c \in Range(Queue'), AtOrBefore(c, s.prev), s.prev \notin Range(Queue')
          PROVE  qserial_num[c] <= qserial_num[s.prev]
      <4>1. pc[t] = "Scan"
        BY <3>2, <3>5, OvertakenByScan
      <4>2. HasCall(t, Scans)
        BY <4>1 DEF Control, Fits, HasCall
      <4>3. InOrder
        BY <4>2, <3>1 DEF OneScanner
      <4> QED BY <4>3, <3>5, InQueue DEF InOrder
    <3>6. SameSearch(s, s)
      BY DEF SameSearch
    <3> QED BY <1>2, <2>2, <3>3, <3>4, <3>5, <3>6, LookKept
  <2> QED BY <2>1, <2>2
<1>4. ScanOK(m, s)'
  <2>1. CASE m # "Scan"
    BY <2>1 DEF ScanOK
  <2>2. CASE m = "Scan"
    <3>1. UNCHANGED queueVars
      BY <2>2, <1>1, OthersWait DEF Outside
    <3>2. SameQueue
      BY <3>1, SameLists DEF SameQueue, queueVars
    <3> QED BY <3>2, <1>2, SameSeen
  <2> QED BY <2>1, <2>2
<1>5. LookOK(pc[u], local[u])'
  BY <1>2, <1>3 DEF LookOK, Looking, TestedSeen, Seen, AtOrBefore
<1>6. ScanOK(pc[u], local[u])'
  BY <1>2, <1>4 DEF ScanOK, TestedSeen, Seen, AtOrBefore
<1> QED BY <1>5, <1>6

\* And to its own.
LEMMA OwnSearch ==
    ASSUME TypeOK, Lists, Serials, Control, Places, Lists', OrderInv,
           NEW t \in Threads, NEW l, NEW r, Moved(t, l, r),
           SearchEffect(t, l, r), QueueEffect(t, r), UNCHANGED kind
    PROVE  LookOK(pc[t], local[t])' /\ ScanOK(pc[t], local[t])'
<1> USE DEF OrderInv
<1>0. pc'[t] = l /\ local'[t] = r /\ r \in Locals /\ Fits(l, r)
  BY MovedFacts DEF Moved
<1>1. LookOK(l, r)' /\ ScanOK(l, r)'
  <2>0. UNCHANGED queueVars => SameQueue
    BY SameLists DEF SameQueue, queueVars
  <2>1. CASE pc[t] = "Idle" /\ l = "Idle"
    BY <2>1 DEF LookOK, Looking, Middle, ScanOK
  <2>2. CASE Begins(t, l, r)
    <3>1. ScanOK(l, r)
      BY <2>2, BeginOK DEF Begins
    <3>2. ScanOK(l, r)'
      BY <3>1, <2>0, <2>2, SameSeen DEF Begins
    <3>3. ~Looking(l, r)
      BY <2>2 DEF Begins, Looking, Middle
    <3> QED BY <3>2, <3>3 DEF LookOK, Looking
  <2>3. CASE GoesOn(t, l, r)
    <3>1. pc[t] \in Middle /\ l \in Middle /\ SameSearch(r, local[t])
      BY <2>3 DEF GoesOn
    <3>2. ScanOK(l, r)'
      BY <3>1 DEF ScanOK, Middle
    <3>3. CASE ~Looking(l, r)
      BY <3>2, <3>3 DEF LookOK, Looking
    <3>4. CASE Looking(l, r)
      <4>1. PICK m, s : m = pc[t] /\ s = local[t]
        OBVIOUS
      <4>2. Looking(m, s) /\ LookOK(m, s) /\ s \in Locals /\ SameSearch(r, s)
        BY <4>1, <3>1, <3>4, LocalTypes DEF Looking, SameSearch
      <4>3. OrderKept
        BY <3>1, OrderStep DEF Middle
      <4>4. EventsKept
        BY DEF EventsKept, Stays
      <4>5. ASSUME NEW c \in Range(Queue'), AtOrBefore(c, s.prev), s.prev \notin Range(Queue')
            PROVE  FALSE
        <5>1. pc[t] \notin {"Scan", "PutBack"}
          BY <3>1 DEF Middle
        <5> QED BY <4>5, <5>1, OvertakenByScan
      <4>6. LookOK(l, r)'
        BY <4>2, <4>3, <4>4, <4>5, <1>0, LookKept
      <4> QED BY <4>6, <3>2
    <3> QED BY <3>3, <3>4
  <2>4. CASE Ends(t, l, r)
    <3>1. ~Looking(l, r) /\ l # "Scan"
      BY <2>4, <1>0 DEF Ends, Looking, Middle, Fits
    <3> QED BY <3>1 DEF LookOK, Looking, ScanOK
  <2>5. CASE LooksAgain(t, l, r)
    <3>1. ScanOK(l, r)
      BY <2>5, AgainOK
    <3>2. ScanOK(l, r)'
      BY <3>1, <2>0, <2>5, SameSeen DEF LooksAgain
    <3>3. ~Looking(l, r)
      BY <2>5 DEF LooksAgain, Looking, Middle
    <3> QED BY <3>2, <3>3 DEF LookOK, Looking
  <2>6. CASE FindsNothing(t, l, r)
    <3>1. LookOK(l, r)
      BY <2>6, MissedOK
    <3>2. LookOK(l, r)'
      BY <3>1, <2>0, <2>6, SameSeen DEF FindsNothing
    <3>3. l # "Scan"
      BY <2>6 DEF FindsNothing, Middle
    <3> QED BY <3>2, <3>3 DEF ScanOK
  <2> QED BY <2>1, <2>2, <2>3, <2>4, <2>5, <2>6 DEF SearchEffect
<1>2. LookOK(pc[t], local[t])'
  BY <1>0, <1>1 DEF LookOK, Looking, TestedSeen, Seen, AtOrBefore
<1>3. ScanOK(pc[t], local[t])'
  BY <1>0, <1>1 DEF ScanOK, TestedSeen, Seen, AtOrBefore
<1> QED BY <1>2, <1>3

\* One step, with all that is known of it.
Stepped(t, l, r) ==
    /\ Moved(t, l, r) /\ SearchEffect(t, l, r) /\ QueueEffect(t, r) /\ QueueCases(t)
    /\ UNCHANGED kind

\* What every step of a thread does, together.
LEMMA AllEffects ==
    ASSUME QInv, NEW t \in Threads, Thread(t)
    PROVE  \E l, r : Stepped(t, l, r)
<1> USE DEF QInv
<1>1. PICK l, r : Moved(t, l, r) /\ SearchEffect(t, l, r)
  BY SearchSteps
<1>2. PICK m, s : Moved(t, m, s) /\ ItemEffect(t, s)
  BY ItemSteps
<1>3. s = r
  BY <1>1, <1>2, MovedFacts
<1>4. QueueEffect(t, r)
  BY <1>2, <1>3, QueueEffects
<1>5. QueueCases(t) /\ UNCHANGED kind
  BY QueueSteps, ItemSteps
<1> QED BY <1>1, <1>4, <1>5 DEF Stepped

\* A step of a thread keeps the invariant of the searches.
LEMMA OrderInvThread ==
    ASSUME QInv, OrderInv, NEW t \in Threads, NEW l, NEW r, Stepped(t, l, r), Lists'
    PROVE  OrderInv'
<1> USE DEF QInv, OrderInv
<1>1. /\ Moved(t, l, r) /\ SearchEffect(t, l, r) /\ QueueEffect(t, r) /\ QueueCases(t)
      /\ UNCHANGED kind
  BY DEF Stepped
<1>2. /\ \A u \in Threads : HasCall(u, Scans)' => HasCall(u, Scans)
      /\ \A u \in Threads : HasCall(u, {"PutBack"})' => HasCall(u, {"PutBack"})
  BY <1>1, FewerCalls
<1>3. PutsAlone'
  BY <1>2 DEF PutsAlone
<1>4. OneScanner => OneScanner'
  BY <1>2 DEF OneScanner
<1>5. InOrder' \/ OneScanner'
  <2>1. CASE pc[t] = "PutBack"
    <3>1. HasCall(t, {"PutBack"})
      BY <2>1 DEF Control, Fits, HasCall
    <3>2. OneScanner
      BY <3>1 DEF OneScanner, PutsAlone
    <3> QED BY <3>2, <1>4
  <2>2. CASE pc[t] # "PutBack"
    <3>1. OrderKept
      BY <1>1, <2>2, OrderStep
    <3> QED BY <3>1, <1>4, InOrderStep
  <2> QED BY <2>1, <2>2
<1>6. ASSUME NEW u \in Threads PROVE LookOK(pc[u], local[u])' /\ ScanOK(pc[u], local[u])'
  <2>1. CASE u = t
    <3>1. LookOK(pc[t], local[t])' /\ ScanOK(pc[t], local[t])'
      BY <1>1, OwnSearch
    <3> QED BY <2>1, <3>1 DEF LookOK, Looking, ScanOK, TestedSeen, Seen, AtOrBefore
  <2>2. CASE u # t
    BY <1>1, <2>2, OthersKeep
  <2> QED BY <2>1, <2>2
<1> QED BY <1>3, <1>5, <1>6

\* It holds at the start.
LEMMA OrderInvInit == PutBackAlone /\ Init => OrderInv
<1> SUFFICES ASSUME PutBackAlone, Init PROVE OrderInv
  OBVIOUS
<1>1. script \in Scripts /\ \A t \in Threads : pc[t] = "Idle"
  BY DEF Init
<1>2. PutsAlone
  BY <1>1 DEF PutsAlone, PutBackAlone, HasCall
<1>3. Range(Queue) = {}
  BY QInvInit, HeadFacts, ListFacts DEF QInv, Init, Range
<1>4. InOrder
  BY <1>3 DEF InOrder
<1>5. \A t \in Threads : LookOK(pc[t], local[t]) /\ ScanOK(pc[t], local[t])
  BY <1>1 DEF LookOK, Looking, Middle, ScanOK
<1> QED BY <1>2, <1>4, <1>5 DEF OrderInv

\* Other steps than those of the threads.
LEMMA RestKept ==
    ASSUME QInv, Items, OrderInv, Send \/ UNCHANGED vars
    PROVE  Items' /\ OrderInv'
<1>1. /\ UNCHANGED <<pc, script, local>> /\ SameQueue /\ UNCHANGED queueVars
      /\ Lists'
  <2>1. UNCHANGED <<pc, script, local>> /\ UNCHANGED queueVars
    BY DEF Send, vars
  <2> QED BY <2>1, SameLists DEF SameQueue, queueVars, QInv
<1>2. Queue' = Queue /\ event' = event /\ qserial_num' = qserial_num
      /\ next_event_serial_num' = next_event_serial_num
  BY <1>1 DEF SameQueue
<1>3. Items' /\ \A c \in Range(Queue) : kind'[event[c]] = kind[event[c]]
  <2>1. CASE Send
    <3>1. Items'
      BY <2>1, <1>2, ItemsSend DEF QInv
    <3>2. \A i \in 1..Len(kind) : kind'[i] = kind[i]
      BY <2>1, SendTypes DEF QInv
    <3>3. \A c \in Range(Queue) : event[c] \in 1..Len(kind)
      BY SizeTypes DEF QInv, Items, ArrivedOK, QueueEvents, IsEvent, TakenIn
    <3> QED BY <3>1, <3>2, <3>3
  <2>2. CASE UNCHANGED vars
    <3>1. UNCHANGED <<kind, arrived, local>>
      BY <2>2 DEF vars, serverVars
    <3> QED BY <3>1, <1>2 DEF Items, ArrivedOK, QueueEvents, GotEvents, IsEvent, TakenIn
  <2> QED BY <2>1, <2>2
<1>4. PutsAlone' /\ (InOrder' \/ OneScanner')
  BY <1>1, <1>2 DEF OrderInv, PutsAlone, OneScanner, InOrder, AtOrBefore, HasCall
<1>5. ASSUME NEW u \in Threads PROVE LookOK(pc[u], local[u])' /\ ScanOK(pc[u], local[u])'
  <2>1. LookOK(pc[u], local[u]) /\ ScanOK(pc[u], local[u]) /\ pc' = pc /\ local' = local
    BY <1>1 DEF OrderInv
  <2>2. LookOK(pc[u], local[u])'
    BY <2>1, <1>2, <1>3 DEF LookOK, Looking, TestedSeen, Seen, AtOrBefore
  <2>3. ScanOK(pc[u], local[u])'
    BY <2>1, <1>2, <1>3 DEF ScanOK, TestedSeen, Seen, AtOrBefore
  <2> QED BY <2>2, <2>3
<1> QED BY <1>3, <1>4, <1>5 DEF OrderInv

StreamInv == QInv /\ Items /\ OrderInv

\* Every step keeps the three invariants.
LEMMA StreamInvStep == StreamInv /\ [Next]_vars => StreamInv'
<1> SUFFICES ASSUME StreamInv, [Next]_vars PROVE StreamInv'
  OBVIOUS
<1> USE DEF StreamInv
<1>1. QInv'
  BY QInvStep
<1>2. CASE \E t \in Threads : Thread(t)
  <2>1. PICK t \in Threads : Thread(t)
    BY <1>2
  <2>2. PICK l, r : Stepped(t, l, r)
    BY <2>1, AllEffects
  <2>3. Items'
    BY <2>2, ItemsStep DEF Stepped, QInv
  <2>4. OrderInv'
    BY <1>1, <2>2, OrderInvThread DEF QInv
  <2> QED BY <1>1, <2>3, <2>4
<1>3. CASE Send \/ UNCHANGED vars
  BY <1>1, <1>3, RestKept
<1> QED BY <1>2, <1>3 DEF Next, Stopped

\* They say that a thread that waits has missed nothing,
LEMMA MissedFromInv == StreamInv => NothingMissed
<1> SUFFICES ASSUME StreamInv, NEW t \in Threads, Blocked(t),
                    NEW c \in Range(Queue), qserial_num[c] < local[t].serial
             PROVE  kind[event[c]] \notin local[t].wants
  BY DEF NothingMissed
<1>1. Looking(pc[t], local[t])
  BY DEF Blocked, Looking, Middle
<1> QED BY <1>1 DEF StreamInv, OrderInv, LookOK

\* and that a scan tests only elements that it has not tested.
LEMMA OnceFromInv ==
    ASSUME StreamInv, NEW t \in Threads, Scan(t), local[t].call \in IfCalls,
           NEW i \in DOMAIN Ahead(t), Tested(t, Ahead(t)[i])
    PROVE  qserial_num[Ahead(t)[i]] \notin local[t].tested
<1> USE DEF StreamInv, QInv
<1>1. PICK k : IsPlace(t, k)
  BY MoveScan
<1>2. pc[t] = "Scan" /\ local[t].qe_serial \in Nat
  BY LocalTypes DEF Scan, At
<1>3. /\ k \in 0..Len(Queue) /\ Len(Queue) \in Nat /\ i \in 1..(Len(Queue) - k)
      /\ Ahead(t)[i] = Queue[k + i]
  BY <1>1, AheadFacts
<1> DEFINE j == k + i
           c == Queue[j]
<1>4. j \in 1..Len(Queue) /\ k < j
  BY <1>3
<1>5. c \in Range(Queue) /\ qserial_num[c] \in Nat /\ Tested(t, c) /\ c = Ahead(t)[i]
  BY <1>3, <1>4, PlaceIn, SerialTypes
<1>6. ~(qserial_num[c] <= local[t].qe_serial)
  BY <1>2, <1>5 DEF Tested
<1>7. ~(local[t].prev # Nil /\ AtOrBefore(c, local[t].prev))
  <2> SUFFICES ASSUME local[t].prev # Nil, AtOrBefore(c, local[t].prev) PROVE FALSE
    OBVIOUS
  <2>1. k # 0 /\ k \in 1..Len(Queue) /\ local[t].prev = Queue[k]
    BY <1>1, <1>3 DEF IsPlace
  <2>2. PICK m, n \in 1..Len(Queue) : m <= n /\ Queue[m] = c /\ Queue[n] = Queue[k]
    BY <2>1 DEF AtOrBefore
  <2>3. m = j /\ n = k
    BY <2>1, <2>2, <1>4, ListFacts
  <2> QED BY <2>2, <2>3, <1>3, <1>4
<1>8. ~Seen(local[t], c)
  BY <1>6, <1>7 DEF Seen
<1>9. TestedSeen(local[t])
  BY <1>2 DEF OrderInv, ScanOK
<1> QED BY <1>5, <1>8, <1>9 DEF TestedSeen

\* The items are taken in in order, and every search has covered what it
\* claims, provided no other thread puts events back: the inductive invariant
\* of the theorems that follow (src/src/IfEvent.c:53-75, src/src/xcb_io.c:343-419).
THEOREM StreamInvariance ==
    ASSUME PutBackAlone
    PROVE  Spec => []StreamInv
<1>1. Init => StreamInv
  BY QInvInit, ItemsInit, OrderInvInit DEF StreamInv
<1> QED BY <1>1, StreamInvStep, PTL DEF Spec

\* A scan that sleeps has looked at all the events that were there when it
\* began to wait, and none of them is what it waits for, provided no other
\* thread puts events back: src/src/IfEvent.c:57-75 and its relatives.
THEOREM NothingIsMissed ==
    ASSUME PutBackAlone
    PROVE  Spec => []NothingMissed
BY StreamInvariance, MissedFromInv, PTL

\* The predicate sees no element of the queue twice, provided no other thread
\* puts events back: src/src/IfEvent.c:60-64.
THEOREM PredicateSeesOnce ==
    ASSUME PutBackAlone
    PROVE  Spec => PredicateCalledOnce
<1>1. StreamInv => \A t \in Threads : Scan(t) /\ local[t].call \in IfCalls =>
          \A i \in DOMAIN Ahead(t) :
             Tested(t, Ahead(t)[i]) =>
                qserial_num[Ahead(t)[i]] \notin local[t].tested
  BY OnceFromInv
<1> QED BY <1>1, StreamInvariance, PTL DEF PredicateCalledOnce

-----------------------------------------------------------------------------
(***************************************************************************)
(* The queue implements the stream of events that its clients see.         *)
(***************************************************************************)
Shown == [i \in DOMAIN Queue |-> event[Queue[i]]]

ShownOK ==
    /\ Shown \in Seq(Nat) /\ Len(Shown) = Len(Queue)
    /\ \A i \in 1..Len(Queue) : Shown[i] = event[Queue[i]]

\* Two sequences with the same members are the same.
LEMMA SameSeq ==
    ASSUME NEW S, NEW a \in Seq(S), NEW b \in Seq(S), Len(a) = Len(b),
           \A i \in 1..Len(a) : a[i] = b[i]
    PROVE  a = b
OBVIOUS

\* What the clients see of the queue,
LEMMA ShownFacts == TypeOK /\ Lists => ShownOK
<1> SUFFICES ASSUME TypeOK, Lists PROVE ShownOK
  OBVIOUS
<1>1. Queue \in Seq(Elements) /\ DOMAIN Queue = 1..Len(Queue) /\ Len(Queue) \in Nat
  BY ListFacts
<1>2. ASSUME NEW i \in 1..Len(Queue) PROVE event[Queue[i]] \in Nat
  BY ListFacts, SizeTypes
<1> QED BY <1>1, <1>2 DEF Shown, ShownOK

\* and after a step.
LEMMA ShownNext ==
    ASSUME TypeOK', Lists'
    PROVE  /\ Shown' \in Seq(Nat) /\ Len(Shown') = Len(Queue')
           /\ \A i \in 1..Len(Queue') : Shown'[i] = event'[Queue'[i]]
<1>1. ShownOK'
  BY ShownFacts, PTL
<1> QED BY <1>1 DEF ShownOK

\* What the changes of the queue show.
LEMMA ShownSame ==
    ASSUME SameQueue
    PROVE  Shown' = Shown
BY DEF SameQueue, Shown

\* When an event has come,
LEMMA ShownAppended ==
    ASSUME TypeOK, Lists, TypeOK', Lists', NEW c, Appended(c), Head(arrived) \in Nat
    PROVE  Shown' = Append(Shown, Head(arrived))
<1> DEFINE n == Len(Queue)
           s == Append(Shown, Head(arrived))
<1>1. n \in Nat /\ Shown \in Seq(Nat) /\ Len(Shown) = n
      /\ \A i \in 1..n : Shown[i] = event[Queue[i]]
  BY ShownFacts, ListFacts DEF ShownOK
<1>2. s \in Seq(Nat) /\ Len(s) = n + 1 /\ s[n + 1] = Head(arrived)
      /\ \A i \in 1..n : s[i] = Shown[i]
  BY <1>1
<1>3. /\ Len(Queue') = n + 1 /\ Queue'[n + 1] = c
      /\ \A i \in 1..n : Queue'[i] = Queue[i]
  BY MembersAppended
<1>4. event'[c] = Head(arrived) /\ \A d \in Range(Queue) : event'[d] = event[d]
  BY SizeTypes, ListFacts DEF Appended, EntersAs
<1>5. /\ Shown' \in Seq(Nat) /\ Len(Shown') = n + 1
      /\ \A i \in 1..(n + 1) : Shown'[i] = event'[Queue'[i]]
  BY ShownNext, <1>3
<1>6. ASSUME NEW i \in 1..n PROVE Shown'[i] = s[i]
  <2>1. i \in 1..(n + 1)
    BY <1>1
  <2>2. Queue[i] \in Range(Queue)
    BY PlaceIn
  <2>3. Shown'[i] = event'[Queue[i]]
    BY <2>1, <1>3, <1>5
  <2>4. s[i] = event[Queue[i]]
    BY <1>1, <1>2
  <2> QED BY <2>2, <2>3, <2>4, <1>4
<1>7. Shown'[n + 1] = s[n + 1]
  BY <1>1, <1>2, <1>3, <1>4, <1>5
<1> HIDE DEF s
<1>8. \A i \in 1..(n + 1) : Shown'[i] = s[i]
  BY <1>1, <1>6, <1>7
<1> QED BY <1>2, <1>5, <1>8, SameSeq DEF s

\* when one was put back,
LEMMA ShownPutFirst ==
    ASSUME TypeOK, Lists, TypeOK', Lists', NEW t \in Threads, NEW c, PutFirst(t, c)
    PROVE  Shown' = <<local[t].got>> \o Shown
<1> DEFINE n == Len(Queue)
           one == <<local[t].got>>
           s == one \o Shown
<1>1. n \in Nat /\ Shown \in Seq(Nat) /\ Len(Shown) = n
      /\ \A i \in 1..n : Shown[i] = event[Queue[i]]
  BY ShownFacts, ListFacts DEF ShownOK
<1>2. local[t].got \in Nat
  BY LocalTypes
<1>3. one \in Seq(Nat) /\ Len(one) = 1 /\ one[1] = local[t].got
  BY <1>2
<1> HIDE DEF one
<1>4. /\ s \in Seq(Nat)
      /\ Len(s) = Len(one) + Len(Shown)
      /\ \A i \in 1..(Len(one) + Len(Shown)) :
            s[i] = IF i <= Len(one) THEN one[i] ELSE Shown[i - Len(one)]
  <2>1. one \in Seq(Nat) /\ Shown \in Seq(Nat)
    BY <1>1, <1>3
  <2> QED BY <2>1, ConcatFacts
<1> HIDE DEF s
<1>5. Len(s) = n + 1 /\ s[1] = local[t].got /\ \A i \in 1..n : s[i + 1] = Shown[i]
  <2>1. Len(s) = n + 1 /\ s[1] = local[t].got
    BY <1>1, <1>3, <1>4
  <2>2. ASSUME NEW i \in 1..n PROVE s[i + 1] = Shown[i]
    <3>1. i + 1 \in 1..(Len(one) + Len(Shown)) /\ ~(i + 1 <= Len(one)) /\ (i + 1) - Len(one) = i
      BY <1>1, <1>3
    <3> QED BY <3>1, <1>4
  <2> QED BY <2>1, <2>2
<1>6. /\ Len(Queue') = n + 1 /\ Queue'[1] = c
      /\ \A i \in 1..n : Queue'[i + 1] = Queue[i]
  BY MembersPutFirst
<1>7. event'[c] = local[t].got /\ \A d \in Range(Queue) : event'[d] = event[d]
  BY SizeTypes, ListFacts DEF PutFirst, EntersAs
<1>8. /\ Shown' \in Seq(Nat) /\ Len(Shown') = n + 1
      /\ \A i \in 1..(n + 1) : Shown'[i] = event'[Queue'[i]]
  BY ShownNext, <1>6
<1>9. ASSUME NEW j \in 1..(n + 1) PROVE Shown'[j] = s[j]
  <2>1. CASE j = 1
    BY <2>1, <1>5, <1>6, <1>7, <1>8
  <2>2. CASE j # 1
    <3> DEFINE i == j - 1
    <3>1. i \in 1..n /\ i + 1 = j
      BY <2>2, <1>1
    <3>2. Queue'[i + 1] = Queue[i] /\ s[i + 1] = Shown[i] /\ Queue[i] \in Range(Queue)
      BY <3>1, <1>5, <1>6, PlaceIn
    <3> HIDE DEF i
    <3> QED BY <3>1, <3>2, <1>1, <1>7, <1>8
  <2> QED BY <2>1, <2>2
<1>10. Shown' = s
  BY <1>4, <1>5, <1>8, <1>9, SameSeq
<1> QED BY <1>10 DEF s, one

\* when one was removed,
LEMMA ShownTakenOut ==
    ASSUME TypeOK, Lists, TypeOK', Lists', NEW k \in 1..Len(Queue), TakenOut(k)
    PROVE  Shown' = RemoveAt(Shown, k)
<1> DEFINE n == Len(Queue)
           s == RemoveAt(Shown, k)
<1>1. n \in Nat /\ Shown \in Seq(Nat) /\ Len(Shown) = n
      /\ \A i \in 1..n : Shown[i] = event[Queue[i]]
  BY ShownFacts, ListFacts DEF ShownOK
<1>2. /\ s \in Seq(Nat) /\ Len(s) = n - 1
      /\ \A j \in 1..(n - 1) : s[j] = IF j < k THEN Shown[j] ELSE Shown[j + 1]
  <2>1. Shown \in Seq(Nat) /\ k \in 1..Len(Shown) /\ Len(Shown) = n
    BY <1>1
  <2> HIDE DEF n
  <2> QED BY <2>1, RemoveAtFacts
<1>3. /\ Len(Queue') = n - 1
      /\ \A j \in 1..(n - 1) : Queue'[j] = IF j < k THEN Queue[j] ELSE Queue[j + 1]
  BY MembersTakenOut
<1>4. event' = event
  BY DEF TakenOut
<1>5. /\ Shown' \in Seq(Nat) /\ Len(Shown') = n - 1
      /\ \A i \in 1..(n - 1) : Shown'[i] = event'[Queue'[i]]
  BY ShownNext, <1>3
<1> HIDE DEF s
<1>6. ASSUME NEW j \in 1..(n - 1) PROVE Shown'[j] = s[j]
  <2>1. CASE j < k
    <3>1. j \in 1..n
      BY <1>1
    <3>2. Shown'[j] = event[Queue[j]]
      BY <2>1, <1>3, <1>4, <1>5
    <3>3. s[j] = Shown[j]
      BY <2>1, <1>2
    <3> QED BY <3>1, <3>2, <3>3, <1>1
  <2>2. CASE ~(j < k)
    <3> DEFINE i == j + 1
    <3>1. i \in 1..n
      BY <1>1
    <3>2. s[j] = Shown[i] /\ Queue'[j] = Queue[i]
      BY <2>2, <1>2, <1>3
    <3> HIDE DEF i
    <3> QED BY <3>1, <3>2, <1>1, <1>4, <1>5
  <2> QED BY <2>1, <2>2
<1>7. Shown' = s
  BY <1>2, <1>5, <1>6, SameSeq
<1> QED BY <1>7 DEF s

\* and when all were.
LEMMA ShownEmptied ==
    ASSUME TypeOK', Lists', Emptied
    PROVE  Shown' = <<>>
<1>1. Shown' \in Seq(Nat) /\ Len(Shown') = Len(Queue') /\ Queue' = <<>>
  BY ShownNext DEF Emptied
<1> QED BY <1>1

\* The steps of the stream, of what the queue shows.
LEMMA StreamStutters ==
    ASSUME UNCHANGED kind, TakenIn' = TakenIn, Shown' = Shown
    PROVE  UNCHANGED Stream!vars
BY DEF Stream!vars, TakenIn, Shown

\* The server sends.
LEMMA StreamSends ==
    ASSUME NEW k \in Kinds \cup Odd, kind' = Append(kind, k), TakenIn' = TakenIn, Shown' = Shown
    PROVE  Stream!Next
<1>1. Stream!Send
  BY DEF Stream!Send, TakenIn, Shown
<1> QED BY <1>1 DEF Stream!Next

\* The library looks at an item.
LEMMA StreamTakesIn ==
    ASSUME UNCHANGED kind, TakenIn < Len(kind), TakenIn' = TakenIn + 1,
           Shown' = IF kind[TakenIn + 1] \in Kinds THEN Append(Shown, TakenIn + 1) ELSE Shown
    PROVE  Stream!Next
<1>1. Stream!TakeIn
  BY DEF Stream!TakeIn, TakenIn, Shown
<1> QED BY <1>1 DEF Stream!Next

\* A call removes the first event that it asks for.
LEMMA StreamTakesFirst ==
    ASSUME UNCHANGED kind, TakenIn' = TakenIn, NEW wanted \in SUBSET Kinds,
           NEW i \in DOMAIN Shown, kind[Shown[i]] \in wanted,
           \A j \in 1..(i - 1) : kind[Shown[j]] \notin wanted,
           Shown' = RemoveAt(Shown, i)
    PROVE  Stream!Next
<1>1. Stream!RemoveAt(Shown, i) = RemoveAt(Shown, i)
  BY DEF Stream!RemoveAt, RemoveAt
<1>2. Stream!TakeFirst(wanted)
  BY <1>1 DEF Stream!TakeFirst, TakenIn, Shown
<1> QED BY <1>2 DEF Stream!Next

\* A call puts an event back.
LEMMA StreamPutsBack ==
    ASSUME UNCHANGED kind, TakenIn' = TakenIn, NEW e \in 1..TakenIn,
           \A i \in DOMAIN Shown : Shown[i] # e, Shown' = <<e>> \o Shown
    PROVE  Stream!Next
<1>1. Stream!PutBack
  BY DEF Stream!PutBack, TakenIn, Shown
<1> QED BY <1>1 DEF Stream!Next

\* A call empties the queue.
LEMMA StreamDiscards ==
    ASSUME UNCHANGED kind, TakenIn' = TakenIn, Shown' = <<>>
    PROVE  Stream!Next
<1>1. Stream!Discard
  BY DEF Stream!Discard, TakenIn, Shown
<1> QED BY <1>1 DEF Stream!Next

\* The queue is empty at the start.
LEMMA StreamBegins == Init => Stream!Init
<1> SUFFICES ASSUME Init PROVE Stream!Init
  OBVIOUS
<1>1. QInv /\ Len(Queue) = 0 /\ DOMAIN Queue = 1..Len(Queue)
  <2>1. QInv /\ head = Nil
    BY QInvInit DEF Init
  <2> QED BY <2>1, HeadFacts, ListFacts DEF QInv
<1>2. kind = <<>> /\ Len(kind) - Len(arrived) = 0
  BY DEF Init
<1>3. [i \in DOMAIN Queue |-> event[Queue[i]]] = <<>>
  BY <1>1
<1> QED BY <1>2, <1>3 DEF Stream!Init

\* A removal takes the first event of the kinds that its call asks for.
LEMMA FirstIsWanted ==
    ASSUME TypeOK, Lists, Serials, Items, OrderInv,
           NEW t \in Threads, NEW i \in 1..Len(Queue), FirstHit(t, i)
    PROVE  \E wanted \in SUBSET Kinds :
              /\ kind[event[Queue[i]]] \in wanted
              /\ \A j \in 1..(i - 1) : kind[event[Queue[j]]] \notin wanted
<1>0. Len(Queue) \in Nat /\ i \in 1..Len(Queue)
  BY ListFacts
<1>1. CASE pc[t] = "TakeHead" /\ i = 1
  <2> DEFINE wanted == {kind[event[Queue[1]]]}
  <2>1. wanted \in SUBSET Kinds
    BY <1>1, PlaceIn DEF Items, QueueEvents, IsEvent
  <2>2. 1..(i - 1) = {}
    BY <1>1
  <2> QED BY <2>1, <2>2, <1>1
<1>2. CASE pc[t] = "Scan" /\ Matches(t, Queue[i])
           /\ \E k : /\ IsPlace(t, k) /\ k < i
                     /\ \A m \in 1..Len(Queue) : k < m /\ m < i => ~Matches(t, Queue[m])
  <2> DEFINE wanted == local[t].wants
  <2>1. wanted \in SUBSET Kinds /\ local[t].qe_serial \in Nat
    BY LocalTypes DEF Locals
  <2>2. kind[event[Queue[i]]] \in wanted
    BY <1>2 DEF Matches
  <2>3. PICK k : /\ IsPlace(t, k) /\ k < i
                 /\ \A m \in 1..Len(Queue) : k < m /\ m < i => ~Matches(t, Queue[m])
    BY <1>2
  <2>4. /\ \A c \in Range(Queue) : Seen(local[t], c) => kind[event[c]] \notin wanted
        /\ local[t].prev # Nil => qserial_num[local[t].prev] = local[t].qe_serial
    BY <1>2 DEF OrderInv, ScanOK
  <2> HIDE DEF wanted
  <2>5. ASSUME NEW j \in 1..(i - 1) PROVE kind[event[Queue[j]]] \notin wanted
    <3>1. j \in 1..Len(Queue) /\ j < i
      BY <1>0
    <3>2. Queue[j] \in Range(Queue) /\ qserial_num[Queue[j]] \in Nat
      BY <3>1, PlaceIn, SerialTypes
    <3>3. k \in 0..Len(Queue)
      BY <2>3 DEF IsPlace
    <3>4. CASE j <= k
      <4>1. k \in 1..Len(Queue) /\ k # 0
        BY <3>1, <3>3, <3>4, <1>0
      <4>2. local[t].prev = Queue[k] /\ Queue[k] # Nil
        BY <4>1, <2>3, ListFacts DEF IsPlace, Nil
      <4>3. AtOrBefore(Queue[j], local[t].prev)
        BY <4>1, <4>2, <3>1, <3>4 DEF AtOrBefore
      <4>4. Seen(local[t], Queue[j])
        BY <4>2, <4>3, <2>4 DEF Seen
      <4> QED BY <4>4, <3>2, <2>4
    <3>5. CASE k < j
      <4>1. ~Matches(t, Queue[j])
        BY <3>1, <3>5, <2>3
      <4>2. CASE Tested(t, Queue[j])
        BY <4>1, <4>2 DEF Matches, wanted
      <4>3. CASE ~Tested(t, Queue[j])
        <5>1. qserial_num[Queue[j]] <= local[t].qe_serial
          BY <4>3, <3>2, <2>1 DEF Tested
        <5>2. Seen(local[t], Queue[j])
          BY <5>1 DEF Seen
        <5> QED BY <5>2, <3>2, <2>4
      <4> QED BY <4>2, <4>3
    <3>6. j \in Nat /\ k \in Nat
      BY <3>1, <3>3, <1>0
    <3> QED BY <3>4, <3>5, <3>6
  <2> QED BY <2>1, <2>2, <2>5
<1> QED BY <1>1, <1>2 DEF FirstHit

\* Every step of a thread is one of the stream, or shows nothing.
LEMMA StreamOfThread ==
    ASSUME TypeOK, Lists, Serials, Items, OrderInv, TypeOK', Lists', UNCHANGED kind,
           NEW t \in Threads, NEW r, QueueEffect(t, r)
    PROVE  [Stream!Next]_(Stream!vars)
<1>0. TakenIn \in Nat /\ Kinds \cap Odd = {} /\ kind \in Seq(Kinds \cup Odd)
  BY SizeTypes, KindsAssumption DEF Items, ArrivedOK, TakenIn
<1>1. CASE SameQueue /\ UNCHANGED arrived
  <2>1. Shown' = Shown
    BY <1>1, ShownSame
  <2>2. TakenIn' = TakenIn
    BY <1>1 DEF TakenIn
  <2> QED BY <2>1, <2>2, StreamStutters
<1>2. CASE SameQueue /\ Looked(t) /\ kind[Head(arrived)] \in Odd
  <2>1. Shown' = Shown
    BY <1>2, ShownSame
  <2>2. /\ TakenIn' = TakenIn + 1 /\ Head(arrived) = TakenIn + 1
        /\ TakenIn + 1 \in 1..Len(kind) /\ TakenIn < Len(kind)
    BY <1>2, <1>0, OneLooked DEF Items
  <2>3. kind[TakenIn + 1] \notin Kinds
    BY <1>0, <1>2, <2>2
  <2> QED BY <2>1, <2>2, <2>3, StreamTakesIn
<1>3. CASE Looked(t) /\ kind[Head(arrived)] \notin Odd /\ \E c : Appended(c)
  <2>1. /\ TakenIn' = TakenIn + 1 /\ Head(arrived) = TakenIn + 1
        /\ TakenIn + 1 \in 1..Len(kind) /\ TakenIn < Len(kind)
    BY <1>3, <1>0, OneLooked DEF Items
  <2>2. kind[TakenIn + 1] \in Kinds
    BY <1>0, <1>3, <2>1
  <2>3. Shown' = Append(Shown, TakenIn + 1)
    BY <1>0, <1>3, <2>1, ShownAppended
  <2> QED BY <2>1, <2>2, <2>3, StreamTakesIn
<1>4. CASE UNCHANGED arrived /\ Emptied
  <2>1. TakenIn' = TakenIn /\ Shown' = <<>>
    BY <1>4, ShownEmptied DEF TakenIn
  <2> QED BY <2>1, StreamDiscards
<1>5. CASE local[t].got # 0 /\ UNCHANGED arrived /\ \E c : PutFirst(t, c)
  <2>1. TakenIn' = TakenIn /\ Shown' = <<local[t].got>> \o Shown
    BY <1>5, ShownPutFirst DEF TakenIn
  <2>2. local[t].got \in 1..TakenIn /\ \A c \in Range(Queue) : event[c] # local[t].got
    BY <1>5 DEF Items, GotEvents, IsEvent
  <2>3. \A i \in DOMAIN Shown : Shown[i] # local[t].got
    BY <2>2, ShownFacts, PlaceIn DEF ShownOK
  <2> QED BY <2>1, <2>2, <2>3, StreamPutsBack
<1>6. CASE \E i \in 1..Len(Queue) : UNCHANGED arrived /\ TakenOut(i) /\ FirstHit(t, i)
  <2>1. PICK i \in 1..Len(Queue) : UNCHANGED arrived /\ TakenOut(i) /\ FirstHit(t, i)
    BY <1>6
  <2>2. TakenIn' = TakenIn /\ Shown' = RemoveAt(Shown, i)
    BY <2>1, ShownTakenOut DEF TakenIn
  <2>3. PICK wanted \in SUBSET Kinds :
             /\ kind[event[Queue[i]]] \in wanted
             /\ \A j \in 1..(i - 1) : kind[event[Queue[j]]] \notin wanted
    BY <2>1, FirstIsWanted
  <2>4. /\ i \in DOMAIN Shown /\ Shown[i] = event[Queue[i]]
        /\ \A j \in 1..(i - 1) : Shown[j] = event[Queue[j]]
    <3>1. /\ Len(Queue) \in Nat /\ Shown \in Seq(Nat) /\ Len(Shown) = Len(Queue)
          /\ \A m \in 1..Len(Queue) : Shown[m] = event[Queue[m]]
      BY ShownFacts, ListFacts DEF ShownOK
    <3>2. \A j \in 1..(i - 1) : j \in 1..Len(Queue)
      BY <3>1
    <3> QED BY <3>1, <3>2
  <2> QED BY <2>2, <2>3, <2>4, StreamTakesFirst
<1> QED BY <1>1, <1>2, <1>3, <1>4, <1>5, <1>6 DEF QueueEffect

\* And so is every step.
LEMMA StreamStep == StreamInv /\ StreamInv' /\ [Next]_vars => [Stream!Next]_(Stream!vars)
<1> SUFFICES ASSUME StreamInv, StreamInv', [Next]_vars PROVE [Stream!Next]_(Stream!vars)
  OBVIOUS
<1>0. /\ TypeOK /\ Lists /\ Serials /\ Items /\ OrderInv /\ QInv
      /\ TypeOK' /\ Lists'
  BY DEF StreamInv, QInv
<1>1. CASE \E t \in Threads : Thread(t)
  <2>1. PICK t \in Threads : Thread(t)
    BY <1>1
  <2>2. PICK l, r : Stepped(t, l, r)
    BY <2>1, <1>0, AllEffects
  <2> QED BY <2>2, <1>0, StreamOfThread DEF Stepped
<1>2. CASE Send \/ UNCHANGED vars
  <2>1. UNCHANGED queueVars
    BY <1>2 DEF Send, vars
  <2>2. Shown' = Shown
    <3>1. SameQueue
      BY <2>1, <1>0, SameLists DEF SameQueue, queueVars
    <3> QED BY <3>1, ShownSame
  <2>3. CASE Send
    <3>1. PICK k \in Kinds \cup Odd : kind' = Append(kind, k)
      BY <2>3 DEF Send
    <3>2. Len(kind') = Len(kind) + 1 /\ Len(arrived') = Len(arrived) + 1
          /\ Len(kind) \in Nat /\ Len(arrived) \in Nat
      BY <2>3, <3>1, <1>0, SizeTypes DEF Send
    <3>3. TakenIn' = TakenIn
      BY <3>2 DEF TakenIn
    <3> QED BY <3>1, <3>3, <2>2, StreamSends
  <2>4. CASE UNCHANGED vars
    <3>1. UNCHANGED <<kind, arrived>>
      BY <2>4 DEF vars, serverVars
    <3>2. TakenIn' = TakenIn
      BY <3>1 DEF TakenIn
    <3> QED BY <3>1, <3>2, <2>2, StreamStutters
  <2> QED BY <1>2, <2>3, <2>4
<1> QED BY <1>1, <1>2 DEF Next, Stopped

\* The queue of elements that are used again, with its scans that go on where
\* they were, gives its clients the stream of EventStream: events come in the
\* order in which the server sent them, a call removes the first one that it
\* asks for, and nothing is lost or doubled, provided no thread puts events
\* back while another one scans (src/src/IfEvent.c:53-75, src/src/NextEvent.c,
\* src/src/PutBEvent.c, src/src/Sync.c).
THEOREM QueueImplementsStream ==
    ASSUME PutBackAlone
    PROVE  Spec => ImplementsStream
<1>1. Spec => []StreamInv
  BY StreamInvariance
<1>2. Spec => Stream!Init /\ [][Stream!Next]_(Stream!vars)
  BY <1>1, StreamBegins, StreamStep, PTL DEF Spec
<1> QED BY <1>2 DEF ImplementsStream, Stream!Spec
===============================================================================
