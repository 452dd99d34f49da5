------------------------------ MODULE Cookies ------------------------------
(***************************************************************************)
(* The data of generic events.  An event in the queue points to its data;  *)
(* a call that gives the event to the application moves the pointer to the *)
(* cookie jar, from which the application may claim it until some call     *)
(* frees what is unclaimed.  The elements of the queue are used again, and *)
(* what is on the free list may still point to data.                       *)
(*                                                                         *)
(* The calls interleave only where they wait for an event.                 *)
(***************************************************************************)
EXTENDS Integers, Sequences, SequencesExt, FiniteSets, FiniteSetsExt

CONSTANTS
    Apps,           \* the application's threads
    Generic,        \* generic events whose extension has set a wire-to-cookie function
    Plain,          \* other events
    MaxCookies,     \* bounds next_cookie
    MaxSteps        \* bounds the steps that are made with events

ASSUME EventKinds ==
    /\ Generic \cap Plain = {}
    /\ {"none", "zero"} \cap (Generic \cup Plain) = {}

VARIABLES
    queue,          \* head .. tail
    qfree,          \* the data that the elements of the free list point to
    cookiejar,
    next_cookie,
    hand,           \* what each thread has of the last event it got, unless it is in
    borrowed,       \* the event it has with the pointer that the queue's has as well
    waiting,        \* the call in which it waits for one
    live,           \* the blocks of data that are allocated
    overwritten,    \* those whose pointer has been overwritten
    misused,        \* a block was freed twice
    unearned,       \* a thread has used a borrowed pointer as if the data were its own
    steps           \* the steps that have been made with events

cookieVars ==
    <<queue, qfree, cookiejar, next_cookie, hand, borrowed, waiting, live, overwritten, misused,
      unearned, steps>>

NULL == <<>>
\* Data and the number of its cookie are had at the same time: this is the data
\* that was made for the event together with cookie n.
Block(event, n) == <<event, n>>
Event(event, cookie, data) == [event |-> event, cookie |-> cookie, data |-> data]
NoEvent == Event("none", 0, NULL)
Zeroed == Event("zero", 0, NULL)

_XIsEventCookie(e) == e.event \in Generic
Unclaimed(e) == [e EXCEPT !.data = NULL]
Data(s) == [i \in DOMAIN s |-> s[i].data]
Pointers(s) == ToSet(Data(s)) \ {NULL}

CookieInit ==
    /\ queue = <<>> /\ qfree = <<>> /\ cookiejar = <<>>
    /\ next_cookie = 0
    /\ hand = [t \in Apps |-> NoEvent]
    /\ borrowed = [t \in Apps |-> NoEvent]
    /\ waiting = [t \in Apps |-> "no"]
    /\ live = {} /\ overwritten = {} /\ misused = FALSE /\ unearned = FALSE
    /\ steps = 0

\* XFree of each of some blocks
Frees(blocks) ==
    /\ live' = live \ blocks
    /\ misused' = (misused \/ ~(blocks \subseteq live))

(***************************************************************************)
(* _XEnq: an event is read, whichever call reads it.  It takes an element  *)
(* of the free list as it is.                                              *)
(***************************************************************************)
FirstFree == IF qfree = <<>> THEN NULL ELSE qfree[1]
RestFree == IF qfree = <<>> THEN <<>> ELSE Tail(qfree)
Reused == overwritten' = overwritten \cup ({FirstFree} \ {NULL})

_XEnq ==
    \E event \in Generic \cup Plain :
        /\ next_cookie < MaxCookies
        /\ next_cookie' = IF event \in Generic THEN next_cookie + 1 ELSE next_cookie
        /\ LET data == IF event \in Generic THEN Block(event, next_cookie') ELSE NULL
               cookie == IF event \in Generic THEN next_cookie' ELSE 0
           IN  /\ queue' = Append(queue, Event(event, cookie, data))
               /\ live' = live \cup ({data} \ {NULL})
        /\ qfree' = RestFree
        /\ Reused
        /\ UNCHANGED <<cookiejar, hand, borrowed, waiting, misused, unearned>>

\* The extension ignores the event or has put it together with another.
Ignored ==
    /\ qfree # <<>> /\ qfree[1] # NULL
    /\ qfree' = <<NULL>> \o Tail(qfree)
    /\ Reused
    /\ UNCHANGED <<queue, cookiejar, next_cookie, hand, borrowed, waiting, live, misused, unearned>>

(***************************************************************************)
(* Calls that return an event.                                             *)
(***************************************************************************)
Takes == {"NextEvent", "IfEvent", "CheckIfEvent", "MaskEvent", "CheckMaskEvent",
          "CheckTypedEvent"}
Peeks == {"PeekEvent", "PeekIfEvent"}
\* These free what is unclaimed first; the window calls are like the mask calls.
Clears == {"NextEvent", "MaskEvent", "CheckMaskEvent", "CheckTypedEvent"}
Waits == {"NextEvent", "IfEvent", "MaskEvent", "PeekEvent", "PeekIfEvent"}

\* The elements that a call may choose; a predicate, a mask or a type decides.
Matches(call) ==
    IF call \in {"NextEvent", "PeekEvent"} THEN DOMAIN queue \cap {1}
    ELSE IF call \in {"MaskEvent", "CheckMaskEvent"}
    THEN {i \in DOMAIN queue : ~_XIsEventCookie(queue[i])}
    ELSE DOMAIN queue

\* A call that takes the first event neither waits nor fails if there is one.
Satisfied(call) == call \in {"NextEvent", "PeekEvent"} /\ queue # <<>>

_XStoreEventCookie(jar, e) == IF _XIsEventCookie(e) THEN Append(jar, e) ELSE jar
Stored(e) == IF _XIsEventCookie(e) THEN Unclaimed(e) ELSE e

\* What the application's event becomes: one without data, or what the queue has,
\* pointer and all
HasOwn(t, e) ==
    /\ hand' = [hand EXCEPT ![t] = e]
    /\ borrowed' = [borrowed EXCEPT ![t] = NoEvent]
HasQueued(t, e) ==
    /\ hand' = [hand EXCEPT ![t] = IF e.data = NULL THEN e ELSE NoEvent]
    /\ borrowed' = [borrowed EXCEPT ![t] = IF e.data = NULL THEN NoEvent ELSE e]
Had(t) == IF borrowed[t].data # NULL THEN borrowed[t] ELSE hand[t]

\* The event leaves the queue, and its element has no data any more.
MutKeepsData(e) == e.data
Dequeued(e) == IF _XIsEventCookie(e) THEN NULL ELSE e.data

Take(t, jar, i) ==
    LET e == queue[i]
    IN  /\ queue' = RemoveAt(queue, i)
        /\ qfree' = <<Dequeued(e)>> \o qfree
        /\ cookiejar' = _XStoreEventCookie(jar, e)
        /\ HasOwn(t, Stored(e))
        /\ UNCHANGED <<next_cookie, overwritten>>

\* _XCopyEventCookie: the extension's function may fail.
Copies(e) == e.data # NULL /\ next_cookie < MaxCookies

\* The copy goes to the jar.  If there is none, the application has the event
\* with the queue's own pointer.
Peek(t, jar, i) ==
    LET e == queue[i]
        n == next_cookie + 1
        copy == Event(e.event, n, Block(e.event, n))
    IN  /\ \/ /\ _XIsEventCookie(e) /\ Copies(e)
              /\ next_cookie' = n
              /\ cookiejar' = _XStoreEventCookie(jar, copy)
              /\ HasOwn(t, Stored(copy))
           \/ /\ next_cookie' = next_cookie
              /\ cookiejar' = jar
              /\ HasQueued(t, e)
        /\ UNCHANGED <<queue, qfree, overwritten>>

Gives(t, call, jar, freed) ==
    \E i \in Matches(call) :
        /\ IF call \in Peeks THEN Peek(t, jar, i) ELSE Take(t, jar, i)
        /\ live' = (live \ freed)
                   \cup (IF next_cookie' > next_cookie
                         THEN {Block(queue[i].event, next_cookie')} ELSE {})
        /\ misused' = (misused \/ ~(freed \subseteq live))
        /\ UNCHANGED unearned

\* The application frees what it has claimed before it asks for another event.
Free(t) == hand[t].data = NULL /\ waiting[t] = "no"

Call(t, call) ==
    LET freed == IF call \in Clears THEN Pointers(cookiejar) ELSE {}
        jar == IF call \in Clears THEN <<>> ELSE cookiejar
    IN  /\ Free(t)
        /\ \/ Gives(t, call, jar, freed) /\ UNCHANGED waiting
           \/ /\ ~Satisfied(call)
              /\ Frees(freed)
              /\ cookiejar' = jar
              /\ waiting' = [waiting EXCEPT ![t] = IF call \in Waits THEN call ELSE "no"]
              /\ UNCHANGED <<queue, qfree, next_cookie, hand, borrowed, overwritten, unearned>>

\* It comes out of _XReadEvents.
Resume(t) ==
    /\ waiting[t] # "no"
    /\ Gives(t, waiting[t], cookiejar, {})
    /\ waiting' = [waiting EXCEPT ![t] = "no"]

(***************************************************************************)
(* XGetEventData, XFreeEventData                                           *)
(***************************************************************************)
\* _XFetchEventCookie: the entry with the number and the types of the event
MutByType(e) == {i \in DOMAIN cookiejar : cookiejar[i].event = e.event}
Fetched(e) ==
    {i \in DOMAIN cookiejar :
        cookiejar[i].cookie = e.cookie /\ cookiejar[i].event = e.event}

XGetEventData(t) ==
    LET e == Had(t)
        found == Fetched(e)
    IN  /\ waiting[t] = "no"
        /\ _XIsEventCookie(e) /\ found # {}
        /\ HasOwn(t, cookiejar[Min(found)])
        /\ cookiejar' = RemoveAt(cookiejar, Min(found))
        /\ unearned' = (unearned \/ borrowed[t].data # NULL)
        /\ UNCHANGED <<queue, qfree, next_cookie, waiting, live, overwritten, misused>>

\* It frees whatever the event points to.
XFreeEventData(t) ==
    LET e == Had(t)
    IN  /\ waiting[t] = "no"
        /\ _XIsEventCookie(e) /\ e.data # NULL
        /\ Frees({e.data})
        /\ HasOwn(t, Event(e.event, 0, NULL))
        /\ unearned' = (unearned \/ borrowed[t].data # NULL)
        /\ UNCHANGED <<queue, qfree, cookiejar, next_cookie, waiting, overwritten>>

(***************************************************************************)
(* XPutBackEvent.  An event that is not claimed gets its data back from    *)
(* the jar, if they are still there, and so does the application's event;  *)
(* of one that points to data, as if they were claimed, a copy is put      *)
(* back, and if that cannot be made, an event of type 0.                   *)
(***************************************************************************)
PutBack(e) ==
    /\ queue' = <<e>> \o queue
    /\ qfree' = RestFree
    /\ Reused

XPutBackEvent(t) ==
    LET e == Had(t)
        found == Fetched(e)
        n == next_cookie + 1
    IN  /\ waiting[t] = "no" /\ e # NoEvent
        /\ \/ /\ ~_XIsEventCookie(e) \/ (e.data = NULL /\ found = {})
              /\ PutBack(e)
              /\ UNCHANGED <<cookiejar, next_cookie, hand, borrowed, live>>
           \/ /\ _XIsEventCookie(e) /\ e.data = NULL /\ found # {}
              /\ PutBack(cookiejar[Min(found)])
              /\ HasQueued(t, cookiejar[Min(found)])
              /\ cookiejar' = RemoveAt(cookiejar, Min(found))
              /\ UNCHANGED <<next_cookie, live>>
           \/ /\ _XIsEventCookie(e) /\ e.data # NULL /\ Copies(e)
              /\ PutBack(Event(e.event, n, Block(e.event, n)))
              /\ next_cookie' = n
              /\ live' = live \cup {Block(e.event, n)}
              /\ UNCHANGED <<cookiejar, hand, borrowed>>
           \/ /\ _XIsEventCookie(e) /\ e.data # NULL
              /\ PutBack(Zeroed)
              /\ UNCHANGED <<cookiejar, next_cookie, hand, borrowed, live>>
        /\ unearned' = (unearned \/ borrowed[t].data \notin live \cup {NULL})
        /\ UNCHANGED <<waiting, misused>>

\* XSync that discards: the queue becomes the front of the free list, with the
\* pointers that it has.
Discarded == Data(queue) \o qfree
XSync ==
    /\ queue # <<>>
    /\ qfree' = Discarded
    /\ queue' = <<>>
    /\ UNCHANGED <<cookiejar, next_cookie, hand, borrowed, waiting, live, overwritten, misused,
                   unearned>>

EventCalls ==
    /\ steps < MaxSteps
    /\ steps' = steps + 1
    /\ \/ _XEnq \/ Ignored \/ XSync
       \/ \E t \in Apps :
             \/ \E call \in Takes \cup Peeks : Call(t, call)
             \/ Resume(t)
             \/ XGetEventData(t) \/ XFreeEventData(t) \/ XPutBackEvent(t)

-----------------------------------------------------------------------------
Claimed == {hand[t].data : t \in Apps} \ {NULL}
Freelist == ToSet(qfree) \ {NULL}
Owned == <<Pointers(queue), Pointers(cookiejar), Claimed, Freelist, overwritten>>

\* No two elements of a list, and no two threads, point to the same data.
Once(s) == \A i, j \in DOMAIN s : s[i] = s[j] => i = j \/ s[i] = NULL
OneEach ==
    /\ Once(Data(queue)) /\ Once(Data(cookiejar)) /\ Once(qfree)
    /\ \A t, u \in Apps : hand[t].data = hand[u].data => t = u \/ hand[t].data = NULL

\* The data that a thread claims with a cookie were made for its event
\* (man/XGetEventData.man:71).
OwnData ==
    \A e \in ToSet(queue) \cup ToSet(cookiejar) \cup {hand[t] : t \in Apps} :
        e.data # NULL => e.data = Block(e.event, e.cookie)

\* No matter what the application does with a pointer that it has not claimed.
\* TLC refutes it, for the example of man/XGetEventData.man:99-110, which always
\* calls XFreeEventData, after a call that has left the application such an event.
AlwaysOwned ==
    /\ ~misused
    /\ live = UNION {Owned[k] : k \in DOMAIN Owned}
    /\ \A k, l \in DOMAIN Owned : k # l => Owned[k] \cap Owned[l] = {}
    /\ OneEach
    /\ OwnData

(***************************************************************************)
(* The data of an event are in one place, whatever threads take, peek at,  *)
(* put back, discard or free: the queue, the jar, a thread that has        *)
(* claimed them, or the free list after XSync, until its element is used   *)
(* again and they are lost.  So none is freed twice, or while it is used,  *)
(* and none is lost otherwise ("to avoid double-free",                     *)
(* src/XlibInt.c:615).  Wherever they are, they are those of the event.    *)
(*                                                                         *)
(* It is so until an application frees or claims what is behind a pointer  *)
(* that a failed copy (PeekEvent.c:47, PeekIfEv.c:65) or XPutBackEvent     *)
(* (PutBEvent.c:56) has left in its event, or puts it back when the data   *)
(* have been freed.                                                        *)
(***************************************************************************)
OneOwner == unearned \/ AlwaysOwned
=============================================================================
