------------------------------- MODULE SeqSync -------------------------------
(***************************************************************************)
(* What Xlib does between two calls to keep a Display usable: a round trip *)
(* before the sequence numbers of unread events get ambiguous              *)
(* (_XSeqSyncFunction), an id in store for the next XAllocID (_XIDHandler),*)
(* and the after function of the application (SyncHandle).                 *)
(*                                                                         *)
(* With threads the first two are done in LockDisplay; without, a private  *)
(* after function does them at the end of a call and hides the             *)
(* application's meanwhile (_XSetPrivSyncFunction).                        *)
(*                                                                         *)
(* Packets are read in order here; how threads see to that is XcbIo.       *)
(***************************************************************************)
EXTENDS DisplayLock, SequenceNumbers, Sequences

CONSTANTS
    MainThread,     \* the only thread if there is no lock
    Allocators,     \* the threads that create resources
    LockModes,      \* whether the lock functions are installed
    BufsizeReqs,    \* BUFSIZE / SIZEOF(xReq): 512
    BufferReqs,     \* (bufmax - buffer) / SIZEOF(xReq): 4096 by default
    Margin,         \* 10
    CallRequests,   \* bound: requests of one call
    FirstRequest,   \* bound: requests made and answered before
    MaxRequest,     \* bound: requests
    MaxUnread       \* bound: packets not read

ASSUME MainAssumption == MainThread \in Threads /\ Allocators \subseteq Threads
ASSUME ModeAssumption == LockModes \subseteq BOOLEAN
ASSUME SizeAssumption ==
    /\ IsFiniteSet(Threads)
    /\ {BufsizeReqs, BufferReqs, Margin, CallRequests} \subseteq Nat \ {0}
    /\ {FirstRequest, MaxRequest, MaxUnread} \subseteq Nat

\* Every thread may be between the round trip and its call when another makes
\* one: 512 requests have to be enough for all of them.
ASSUME RoomAssumption == Cardinality(Threads) * (CallRequests + 1) <= BufsizeReqs + 1

\* The numbers are much larger than the buffers: 2^16 > 513, 2^32 = 2^16 * 2^16.
\* Without threads the margin is what is left for a call that the buffer's last
\* flush precedes.
ASSUME SpanAssumption ==
    /\ BufsizeReqs + 1 < Modulus16
    /\ CallRequests <= Margin
    /\ Modulus16 + Modulus16 <= Modulus32

VARIABLES
    lock_fns,           \* dpy->lock_fns and dpy->lock are there
    request,            \* X_DPY_GET_REQUEST
    last_request_read,  \* X_DPY_GET_LAST_REQUEST_READ
    last_flushed,       \* dpy->xcb->last_flushed
    synchandler,        \* dpy->synchandler
    savedsynchandler,   \* dpy->savedsynchandler
    priv_sync,          \* dpy->flags & XlibDisplayPrivSync
    next_xid,           \* dpy->xcb->next_xid is an id
    fatal,              \* an assertion has failed
    after,              \* the after function the application has set last
    unread,             \* packets of the server nobody has read
    served,             \* the number of the last of them
    pc, local

handlerVars == <<synchandler, savedsynchandler, priv_sync>>
seqVars == <<request, last_flushed>>
serverVars == <<unread, served>>
userLockVars == <<locking_level, locking_thread>>
ifeventVars == <<in_ifevent, ifevent_thread>>
vars == <<lockVars, lock_fns, seqVars, last_request_read, handlerVars, next_xid,
          fatal, after, serverVars, pc, local>>

Functions == {"none", "after"}

Labels == {"Idle", "IDHandler", "GenerateId", "Relock", "SeqSync", "WaitForReply",
           "SyncLock", "SyncHandle", "Call", "AllocID", "SetAfter", "Unlock"}

\* The call a thread is in: how many requests it still has to make, whether
\* it creates a resource and whether it waits for a reply.
Locals == [left : 0..CallRequests, alloc : BOOLEAN, reply : BOOLEAN,
           func : Functions \cup {"keep"}, req : Nat, syncing : BOOLEAN,
           back : {"SeqSync", "Call"}]

NoCall == [left |-> 0, alloc |-> FALSE, reply |-> FALSE, func |-> "keep",
           req |-> 0, syncing |-> FALSE, back |-> "Call"]

Packets == [seq : Nat, reply : BOOLEAN]

TypeOK ==
    /\ LockTypeOK
    /\ lock_fns \in BOOLEAN
    /\ request \in Nat /\ last_request_read \in 0..request
    /\ last_flushed \in 0..request
    /\ synchandler \in Functions \cup {"priv"} /\ savedsynchandler \in Functions
    /\ priv_sync \in BOOLEAN /\ next_xid \in BOOLEAN /\ fatal \in BOOLEAN
    /\ after \in Functions
    /\ unread \in Seq(Packets) /\ served \in 0..last_flushed
    /\ pc \in [Threads -> Labels] /\ local \in [Threads -> Locals]

MinOf(a, b) == IF a < b THEN a ELSE b

\* sync_hazard: the buffer could take the numbers too far.
SyncHazard(made) ==
    made - last_request_read >=
        Modulus16 - 1 - MinOf(BufferReqs, Modulus16 - 1 - Margin) - Margin

\* XOpenDisplay: the first id is got in its first UnlockDisplay's SyncHandle;
\* with a very large buffer any flush installs the private after function.
Init ==
    /\ LockInit
    /\ lock_fns \in LockModes
    /\ request = FirstRequest /\ last_request_read = FirstRequest
    /\ last_flushed = FirstRequest
    /\ priv_sync = (~lock_fns /\ SyncHazard(request))
    /\ synchandler = (IF priv_sync THEN "priv" ELSE "none") /\ savedsynchandler = "none"
    /\ next_xid = TRUE
    /\ fatal = FALSE
    /\ after = "none"
    /\ unread = <<>> /\ served = FirstRequest
    /\ pc = [t \in Threads |-> "Idle"]
    /\ local = [t \in Threads |-> NoCall]

At(t, label) == ~fatal /\ pc[t] = label
Goto(t, label) == pc' = [pc EXCEPT ![t] = label]
Return(t) == Goto(t, "Idle") /\ local' = [local EXCEPT ![t] = NoCall]

\* The lock functions do nothing if they are not installed.
Lock(t, wskip) == IF lock_fns THEN Acquired(t, wskip) ELSE UNCHANGED mutex
Unlock(t) == IF lock_fns THEN Released(t) ELSE UNCHANGED mutex

-----------------------------------------------------------------------------
(***************************************************************************)
(* The private after function.                                             *)
(***************************************************************************)
MutNeverInstalled == UNCHANGED handlerVars

SetPrivSyncFunction ==
    IF lock_fns \/ priv_sync THEN UNCHANGED handlerVars
    ELSE /\ savedsynchandler' = synchandler
         /\ synchandler' = "priv"
         /\ priv_sync' = TRUE

\* _XSeqSyncFunction's test.
MutSyncTooLate == request - last_request_read >= Modulus16 - 1

SyncDue == request - last_request_read >= Modulus16 - 1 - BufsizeReqs

\* _XSend of all requests made.
Flush(made) ==
    /\ request' = made
    /\ last_flushed' = made
    /\ IF SyncHazard(made) THEN SetPrivSyncFunction ELSE UNCHANGED handlerVars

-----------------------------------------------------------------------------
(***************************************************************************)
(* The server (external): packets with the number of the last request it   *)
(* has processed; replies to the threads that wait for one, before it goes *)
(* on to later requests.                                                   *)
(***************************************************************************)
ServerSends(packet) ==
    /\ ~fatal
    /\ Len(unread) < MaxUnread
    /\ unread' = Append(unread, packet)
    /\ served' = packet.seq
    /\ UNCHANGED <<lockVars, lock_fns, seqVars, last_request_read, handlerVars,
                   next_xid, fatal, after, pc, local>>

ReplyTo(t) == [seq |-> local[t].req, reply |-> TRUE]

AwaitsReply(t) ==
    /\ pc[t] = "WaitForReply"
    /\ \A i \in 1..Len(unread) : unread[i] # ReplyTo(t)

ServerEvent ==
    \E s \in served..last_flushed :
        /\ \A t \in Threads : AwaitsReply(t) => s <= local[t].req
        /\ ServerSends([seq |-> s, reply |-> FALSE])

ServerReply ==
    \E t \in Threads :
        /\ AwaitsReply(t)
        /\ \A u \in Threads : AwaitsReply(u) => local[u].req >= local[t].req
        /\ ServerSends(ReplyTo(t))

-----------------------------------------------------------------------------
(***************************************************************************)
(* Entering a call: with threads, the id and the round trip come first.    *)
(***************************************************************************)
LockDisplay(t) ==
    /\ At(t, "Idle")
    /\ lock_fns \/ t = MainThread
    /\ request + CallRequests < MaxRequest
    /\ \/ /\ Lock(t, FALSE)
          /\ \E n \in 0..CallRequests, alloc \in BOOLEAN, reply \in BOOLEAN,
                f \in Functions \cup {"keep"} :
                /\ n = 0 <=> f # "keep"
                /\ f # after
                /\ alloc => n = 1 /\ t \in Allocators
                /\ reply => n > 0
                /\ local' = [local EXCEPT ![t] =
                      [NoCall EXCEPT !.left = n, !.alloc = alloc, !.reply = reply,
                                     !.func = f]]
          /\ Goto(t, IF lock_fns THEN "IDHandler" ELSE "Call")
          /\ UNCHANGED sleeping
       \/ /\ lock_fns /\ MustWait(t)
          /\ UNCHANGED <<pc, local>>
    /\ UNCHANGED <<lock_fns, userLockVars, ifeventVars, seqVars, last_request_read,
                   handlerVars, next_xid, fatal, after, serverVars>>

\* _XIDHandler and _XAllocIDs, which gives the display away under the user
\* lock.
IDHandler(t) ==
    /\ At(t, "IDHandler")
    /\ IF next_xid THEN /\ Goto(t, "SeqSync")
                        /\ UNCHANGED <<mutex, userLockVars, local>>
       ELSE /\ UserLocked(t)
            /\ Unlock(t)
            /\ local' = [local EXCEPT ![t].back = "SeqSync"]
            /\ Goto(t, "GenerateId")
    /\ UNCHANGED <<sleeping, lock_fns, ifeventVars, seqVars, last_request_read,
                   handlerVars, next_xid, fatal, after, serverVars>>

GenerateId(t) ==
    /\ At(t, "GenerateId")
    /\ next_xid' = TRUE
    /\ Goto(t, "Relock")
    /\ UNCHANGED <<lockVars, lock_fns, seqVars, last_request_read, handlerVars,
                   fatal, after, serverVars, local>>

Relock(t) ==
    /\ At(t, "Relock")
    /\ Lock(t, FALSE)
    /\ UserUnlocked
    /\ Goto(t, local[t].back)
    /\ UNCHANGED <<lock_fns, ifeventVars, seqVars, last_request_read, handlerVars,
                   next_xid, fatal, after, serverVars, local>>

\* _XSeqSyncFunction; without threads it is the end of the call.
SeqSync(t) ==
    /\ At(t, "SeqSync")
    /\ IF SyncDue
          THEN /\ Flush(request + 1)
               /\ Unlock(t)
               /\ local' = [local EXCEPT ![t].req = request + 1, ![t].syncing = TRUE]
               /\ Goto(t, "WaitForReply")
          ELSE /\ IF SyncHazard(request) THEN SetPrivSyncFunction
                  ELSE UNCHANGED handlerVars
               /\ IF lock_fns THEN Goto(t, "Call") /\ UNCHANGED local ELSE Return(t)
               /\ UNCHANGED <<mutex, seqVars>>
    /\ UNCHANGED <<sleeping, lock_fns, userLockVars, ifeventVars, last_request_read,
                   next_xid, fatal, after, serverVars>>

-----------------------------------------------------------------------------
(***************************************************************************)
(* The call itself.                                                        *)
(***************************************************************************)
BufferFull == request - last_flushed >= BufferReqs

\* _XGetRequest, with the flush of a full buffer.
GetRequest(t) ==
    /\ At(t, "Call")
    /\ local[t].left > 0
    /\ IF BufferFull
          THEN Flush(request) /\ UNCHANGED <<pc, local>>
          ELSE /\ request' = request + 1
               /\ local' = [local EXCEPT ![t].left = @ - 1]
               /\ Goto(t, IF local[t].alloc THEN "AllocID" ELSE "Call")
               /\ UNCHANGED <<last_flushed, handlerVars>>
    /\ UNCHANGED <<lockVars, lock_fns, last_request_read, next_xid, fatal, after,
                   serverVars>>

\* _XAllocID: "assert (ret != inval_id)".
AllocID(t) ==
    /\ At(t, "AllocID")
    /\ fatal' = ~next_xid
    /\ next_xid' = FALSE
    /\ SetPrivSyncFunction
    /\ local' = [local EXCEPT ![t].alloc = FALSE]
    /\ Goto(t, "Call")
    /\ UNCHANGED <<lockVars, lock_fns, seqVars, last_request_read, after,
                   serverVars>>

\* XSetAfterFunction
MutSetHandler(f) == synchandler' = f /\ UNCHANGED <<savedsynchandler, priv_sync>>

SetHandler(f) ==
    /\ IF priv_sync THEN savedsynchandler' = f /\ UNCHANGED synchandler
       ELSE synchandler' = f /\ UNCHANGED savedsynchandler
    /\ UNCHANGED priv_sync

SetAfterFunction(t) ==
    /\ At(t, "Call")
    /\ local[t].func # "keep"
    /\ SetHandler(local[t].func)
    /\ after' = local[t].func
    /\ Unlock(t)
    /\ Return(t)
    /\ UNCHANGED <<sleeping, lock_fns, userLockVars, ifeventVars, seqVars,
                   last_request_read, next_xid, fatal, serverVars>>

\* The end: _XReply's flush, or UnlockDisplay.
EndCall(t) ==
    /\ At(t, "Call")
    /\ local[t].left = 0 /\ local[t].func = "keep"
    /\ Unlock(t)
    /\ IF local[t].reply
          THEN /\ Flush(request)
               /\ local' = [local EXCEPT ![t].req = request]
               /\ Goto(t, "WaitForReply")
          ELSE /\ Goto(t, "SyncHandle")
               /\ UNCHANGED <<seqVars, handlerVars, local>>
    /\ UNCHANGED <<sleeping, lock_fns, userLockVars, ifeventVars,
                   last_request_read, next_xid, fatal, after, serverVars>>

-----------------------------------------------------------------------------
(***************************************************************************)
(* Reading.                                                                *)
(***************************************************************************)
\* poll_for_event and _XEnq: XCB's number of an event is widened, then the
\* packet's.
ReadEvent(t) ==
    /\ At(t, "WaitForReply")
    /\ mutex = NoThread
    /\ unread # <<>> /\ ~Head(unread).reply
    /\ LET seq == Widen(last_request_read, Head(unread).seq % Modulus32)
       IN /\ fatal' = (seq > request)
          /\ last_request_read' = NewSeq(seq, request, Head(unread).seq % Modulus16)
    /\ unread' = Tail(unread)
    /\ UNCHANGED <<lockVars, lock_fns, seqVars, handlerVars, next_xid, after,
                   served, pc, local>>

\* _XReply has its reply.  After the round trip of _XSeqSyncFunction comes
\* sync_while_locked.
GotReply(t) ==
    /\ At(t, "WaitForReply")
    /\ unread # <<>> /\ Head(unread) = ReplyTo(t)
    /\ Lock(t, TRUE)
    /\ unread' = Tail(unread)
    /\ last_request_read' = local[t].req
    /\ local' = [local EXCEPT ![t].req = 0]
    /\ Goto(t, IF local[t].syncing THEN "SyncLock" ELSE "Unlock")
    /\ UNCHANGED <<sleeping, lock_fns, userLockVars, ifeventVars, seqVars,
                   handlerVars, next_xid, fatal, after, served>>

SyncLock(t) ==
    /\ At(t, "SyncLock")
    /\ IF ~lock_fns THEN /\ Goto(t, "SyncHandle")
                         /\ UNCHANGED <<lockVars, local>>
       ELSE \/ /\ mutex = t /\ UserLockedByOther(t)
               /\ ConditionWait("cv", t)
               /\ UNCHANGED <<pc, local, userLockVars, ifeventVars>>
            \/ /\ mutex # t
               /\ Wakeup(t)
               /\ UNCHANGED <<pc, local, sleeping, userLockVars, ifeventVars>>
            \/ /\ mutex = t /\ UserLocked(t)
               /\ Released(t)
               /\ local' = [local EXCEPT ![t].back = "Call"]
               /\ Goto(t, "SyncHandle")
               /\ UNCHANGED <<sleeping, ifeventVars>>
    /\ UNCHANGED <<lock_fns, seqVars, last_request_read, handlerVars, next_xid,
                   fatal, after, serverVars>>

UnlockDisplay(t) ==
    /\ At(t, "Unlock")
    /\ Unlock(t)
    /\ Goto(t, "SyncHandle")
    /\ UNCHANGED <<sleeping, lock_fns, userLockVars, ifeventVars, seqVars,
                   last_request_read, handlerVars, next_xid, fatal, after,
                   serverVars, local>>

\* SyncHandle: nothing, the application's function, or _XPrivSyncFunction,
\* which puts the application's back, gets an id and sees to the numbers.
SyncHandle(t) ==
    /\ At(t, "SyncHandle")
    /\ IF synchandler = "priv"
          THEN /\ synchandler' = savedsynchandler
               /\ savedsynchandler' = "none"
               /\ priv_sync' = FALSE
               /\ next_xid' = TRUE
               /\ local' = [local EXCEPT ![t].syncing = FALSE]
               /\ Goto(t, "SeqSync")
          ELSE /\ IF lock_fns /\ local[t].syncing
                     THEN /\ local' = [local EXCEPT ![t].syncing = FALSE]
                          /\ Goto(t, "Relock")
                     ELSE Return(t)
               /\ UNCHANGED <<handlerVars, next_xid>>
    /\ UNCHANGED <<lockVars, lock_fns, seqVars, last_request_read, fatal, after,
                   serverVars>>

-----------------------------------------------------------------------------
Thread(t) ==
    \/ LockDisplay(t) \/ IDHandler(t) \/ GenerateId(t) \/ Relock(t) \/ SeqSync(t)
    \/ GetRequest(t) \/ AllocID(t) \/ SetAfterFunction(t) \/ EndCall(t)
    \/ ReadEvent(t) \/ GotReply(t) \/ SyncLock(t) \/ UnlockDisplay(t) \/ SyncHandle(t)

Stopped ==
    /\ fatal \/ request + CallRequests >= MaxRequest
    /\ \A t \in Threads : fatal \/ pc[t] = "Idle"
    /\ UNCHANGED vars

Next == (\E t \in Threads : Thread(t)) \/ ServerEvent \/ ServerReply \/ Stopped

Spec == Init /\ [][Next]_vars

-----------------------------------------------------------------------------
(***************************************************************************)
(* Properties.                                                             *)
(***************************************************************************)
\* "We have to keep dpy->request - dpy->last_request_read < 2^16 or else we
\* won't know for sure what value to use in events" (XlibInt.c).
SpanBelowModulus == request - last_request_read < Modulus16

\* "the following invariant: last_request_read <= rep->sequenceNumber <=
\* dpy->request" (XlibInt.c) is enough: every packet on its way would be given
\* the number it has, by the 32 bits of XCB as well as by its own 16.
NumbersAreTrue ==
    \A i \in DOMAIN unread :
        /\ Widen(last_request_read, unread[i].seq % Modulus32) = unread[i].seq
        /\ NewSeq(last_request_read, request, unread[i].seq % Modulus16) = unread[i].seq

\* An id is there whenever a call needs one ("assert (ret != inval_id)" in
\* _XAllocID), although the id is got before the round trip that may come
\* between, and at the end of an earlier call if there are no threads.
IdReady == \A t \in Threads : pc[t] = "AllocID" => next_xid

\* The after function the application has set last is the one installed, or
\* the one kept while the private one is, whatever the order in which the
\* two were set and however often the private one was asked for.
AfterFunctionKept ==
    /\ priv_sync = (synchandler = "priv")
    /\ after = IF priv_sync THEN savedsynchandler ELSE synchandler
=============================================================================
