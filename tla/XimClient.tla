------------------------------ MODULE XimClient ------------------------------
(***************************************************************************)
(* The client of an input method and its server.  The client forwards keys *)
(* to the server; the server swallows a key, commits text for it or sends  *)
(* it back.  Text and keys that come back are put back at the head of the  *)
(* event queue, and XFilterEvent, which sees them again, lets them pass    *)
(* because of a mark (FABRICATED).  The server's messages are events too:  *)
(* they are taken out of the queue in turn, or earlier by a call that      *)
(* waits for a reply of its own.                                           *)
(*                                                                         *)
(* A message is one event here; XimTransport shows how it becomes one.     *)
(* What the two exchange before an input context exists, the end of the    *)
(* connection, and messages that nobody expects (they are answered with    *)
(* XIM_ERROR) are left out.                                                *)
(***************************************************************************)
EXTENDS Integers, Sequences, FiniteSets, SequencesExt

CONSTANTS
    ICs,            \* input contexts, each with a focus window of its own
    FirstIC,        \* the one that has the focus at first
    NoIC,
    Modes,          \* how client and server synchronize: see Mode
    MaxKeys,        \* bound: keys that the user types
    MaxCalls,       \* bound: calls of the application besides the event loop
    MaxMoves        \* bound: changes of the focus

(***************************************************************************)
(* "full": the client waits for a SYNC_REPLY after each key that it        *)
(* forwards.  "demand": the server waits for one after each text or key    *)
(* that it sends.  "none": nobody waits.  "dynamic" is the dynamic event   *)
(* flow, in which keys are forwarded only after an on-key.  The server     *)
(* answers a key with up to "answers" messages.                            *)
(***************************************************************************)
Mode == [sync : {"full", "demand", "none"}, dynamic : BOOLEAN,
         answers : 0..2, calls : BOOLEAN, moves : BOOLEAN]

VARIABLES
    mode,
    event_queue,        \* the events the application has not taken, head first
    fabricated,         \* im->private.proto.flag & FABRICATED
    need_sync_reply,    \* im->private.proto.flag & NEED_SYNC_REPLY
    ics,                \* the input contexts
    caller,             \* the call that is waiting in _XimRead
    to_server,          \* messages to the server
    im_server,          \* what the server is at
    focus, typed,       \* the user's focus and the keys typed
    calls_made, moves_made,
    received,           \* the keys the server has been given
    looked_up,          \* the keys and texts the application has been given
    drawn               \* the preedit callbacks that were called

ximVars == <<mode, event_queue, fabricated, need_sync_reply, ics, caller, to_server,
             im_server, focus, typed, calls_made, moves_made, received, looked_up, drawn>>
userVars == <<focus, typed, calls_made, moves_made>>

\* What a key leads to: the key itself (n = 0), or text the server makes of it.
Item(key, n) == [key |-> key, n |-> n]
AppCalls == {"SetICValues", "Reset"}
NoCaller == [op |-> "none", ic |-> NoIC]

XimTypeOK ==
    /\ mode \in Modes /\ Modes \subseteq Mode
    /\ fabricated \in BOOLEAN /\ need_sync_reply \in BOOLEAN
    /\ \A x \in ICs : ics[x].registered \in BOOLEAN /\ ics[x].forward \in BOOLEAN
    /\ caller.op \in AppCalls \cup {"none", "Forward", "Trigger", "Unfocus", "Focus"}
    /\ im_server.waiting \in ICs \cup {NoIC}

XimInit ==
    /\ mode \in Modes
    /\ event_queue = <<>> /\ fabricated = FALSE /\ need_sync_reply = FALSE
    /\ ics = [x \in ICs |->
                [registered |-> x = FirstIC, forward |-> ~mode.dynamic,
                 commit_info |-> <<>>, waitCallback |-> FALSE, pend_cb_que |-> <<>>]]
    /\ caller = NoCaller
    /\ to_server = <<>>
    /\ im_server = [waiting |-> NoIC, awaited |-> Item(0, 0), todo |-> <<>>, preedit |-> 0, asked |-> 0]
    /\ focus = FirstIC /\ typed = 0 /\ calls_made = 0 /\ moves_made = 0
    /\ received = <<>> /\ looked_up = <<>> /\ drawn = <<>>

KeyEvent(x, key, kind) == [type |-> "key", ic |-> x, key |-> key, kind |-> kind]
Message(op, x, item, sync) ==
    [type |-> "message", op |-> op, ic |-> x, item |-> item, sync |-> sync]
Bare(op, x) == Message(op, x, Item(0, 0), FALSE)

(***************************************************************************)
(* The user.                                                               *)
(***************************************************************************)
Type ==
    /\ typed < MaxKeys
    /\ typed' = typed + 1
    /\ \E kind \in IF mode.dynamic THEN {"plain", "on", "off"} ELSE {"plain"} :
        event_queue' = Append(event_queue, KeyEvent(focus, typed + 1, kind))
    /\ UNCHANGED <<mode, fabricated, need_sync_reply, ics, caller, to_server, im_server,
                   focus, calls_made, moves_made, received, looked_up, drawn>>

MoveFocus ==
    /\ mode.moves /\ moves_made < MaxMoves
    /\ \E x \in ICs \ {focus} :
        /\ focus' = x
        /\ event_queue' = event_queue \o <<[type |-> "FocusOut", ic |-> focus],
                                           [type |-> "FocusIn", ic |-> x]>>
    /\ moves_made' = moves_made + 1
    /\ UNCHANGED <<mode, fabricated, need_sync_reply, ics, caller, to_server, im_server,
                   typed, calls_made, received, looked_up, drawn>>

(***************************************************************************)
(* Messages of the server: the callbacks of _XimTransportIntr and          *)
(* _XimCbDispatch.  "rest" is the queue without the message.               *)
(***************************************************************************)
MutNoMark(x) == FALSE

\* A commit is marked if a filter will see its event.
Marked(x) == ics[x].registered

MutNoReplyNeeded(msg) == UNCHANGED need_sync_reply

RespSyncReply(msg) == need_sync_reply' = (need_sync_reply \/ msg.sync)

ForwardEventCallback(msg, rest) ==
    /\ msg.op = "Forward"
    /\ fabricated' = TRUE
    /\ RespSyncReply(msg)
    /\ event_queue' = <<KeyEvent(msg.ic, msg.item.key, "plain")>> \o rest
    /\ UNCHANGED <<ics, to_server, drawn>>

\* The text is kept in the context; its event is a KeyPress of keycode 0.
CommitCallback(msg, rest) ==
    /\ msg.op = "Commit"
    /\ ics' = [ics EXCEPT ![msg.ic].commit_info = <<msg.item>> \o @]
    /\ fabricated' = (fabricated \/ Marked(msg.ic))
    /\ RespSyncReply(msg)
    /\ event_queue' = <<KeyEvent(msg.ic, 0, "plain")>> \o rest
    /\ UNCHANGED <<to_server, drawn>>

SetEventMaskCallback(msg, rest) ==
    /\ msg.op \in {"MaskOn", "MaskOff"}
    /\ ics' = [ics EXCEPT ![msg.ic].forward = (msg.op = "MaskOn")]
    /\ event_queue' = rest
    /\ UNCHANGED <<fabricated, need_sync_reply, to_server, drawn>>

SyncCallback(msg, rest) ==
    /\ msg.op = "Sync"
    /\ to_server' = Append(to_server, Bare("SyncReply", msg.ic))
    /\ event_queue' = rest
    /\ UNCHANGED <<fabricated, need_sync_reply, ics, drawn>>

MutPendingLast(msg) ==
    IF ics[msg.ic].waitCallback
    THEN ics' = [ics EXCEPT ![msg.ic].pend_cb_que = Append(@, msg.item.key)] /\ UNCHANGED drawn
    ELSE /\ drawn' = drawn \o <<msg.item.key>> \o ics[msg.ic].pend_cb_que
         /\ ics' = [ics EXCEPT ![msg.ic].pend_cb_que = <<>>]

\* A callback of the application is put off while a call waits for a reply,
\* until the next one comes after that.
CbDispatch(msg) ==
    IF ics[msg.ic].waitCallback
    THEN ics' = [ics EXCEPT ![msg.ic].pend_cb_que = Append(@, msg.item.key)] /\ UNCHANGED drawn
    ELSE /\ drawn' = Append(drawn \o ics[msg.ic].pend_cb_que, msg.item.key)
         /\ ics' = [ics EXCEPT ![msg.ic].pend_cb_que = <<>>]

PreeditDraw(msg, rest) ==
    /\ msg.op = "Draw"
    /\ CbDispatch(msg)
    /\ event_queue' = rest
    /\ UNCHANGED <<fabricated, need_sync_reply, to_server>>

CallDispatcher(msg, rest) ==
    /\ \/ ForwardEventCallback(msg, rest)
       \/ CommitCallback(msg, rest)
       \/ SetEventMaskCallback(msg, rest)
       \/ SyncCallback(msg, rest)
       \/ PreeditDraw(msg, rest)
    /\ UNCHANGED <<caller, looked_up>>

(***************************************************************************)
(* XmbLookupString of a KeyPress that was not filtered.                    *)
(***************************************************************************)
CommitInfo(x) == Head(ics[x].commit_info)

LookupString(e) ==
    \/ /\ e.key # 0
       /\ looked_up' = Append(looked_up, Item(e.key, 0))
       /\ UNCHANGED ics
    \/ /\ e.key = 0 /\ ics[e.ic].commit_info # <<>>
       /\ looked_up' = Append(looked_up, CommitInfo(e.ic))
       /\ ics' = [ics EXCEPT ![e.ic].commit_info = Tail(@)]
    \/ /\ e.key = 0 /\ ics[e.ic].commit_info = <<>>
       /\ UNCHANGED <<looked_up, ics>>

(***************************************************************************)
(* XFilterEvent and what the application does with an event that it does   *)
(* not filter.                                                             *)
(***************************************************************************)
PendingFilter(e) ==
    /\ to_server' = IF need_sync_reply THEN Append(to_server, Bare("SyncReply", e.ic)) ELSE to_server
    /\ need_sync_reply' = FALSE

NotFiltered(e) ==
    /\ LookupString(e)
    /\ UNCHANGED <<fabricated, need_sync_reply, caller, to_server>>

Fabricated(e) ==
    /\ fabricated
    /\ PendingFilter(e)
    /\ fabricated' = FALSE
    /\ LookupString(e)
    /\ UNCHANGED caller

TriggerNotify(e, op) ==
    /\ to_server' = Append(to_server, Message(op, e.ic, Item(e.key, 0), FALSE))
    /\ caller' = [op |-> "Trigger", ic |-> e.ic]
    /\ UNCHANGED <<fabricated, need_sync_reply, ics, looked_up>>

ForwardEvent(e) ==
    /\ to_server' = Append(to_server, Message("Key", e.ic, Item(e.key, 0), mode.sync = "full"))
    /\ caller' = IF mode.sync = "full" THEN [op |-> "Forward", ic |-> e.ic] ELSE caller
    /\ UNCHANGED <<fabricated, need_sync_reply, ics, looked_up>>

ProtoKeypressFilter(e) ==
    \/ Fabricated(e)
    \/ /\ ~fabricated /\ ~ics[e.ic].forward
       /\ IF mode.dynamic /\ e.kind = "on" THEN TriggerNotify(e, "TriggerOn") ELSE NotFiltered(e)
    \/ /\ ~fabricated /\ ics[e.ic].forward
       /\ IF mode.dynamic /\ e.kind = "off" THEN TriggerNotify(e, "TriggerOff") ELSE ForwardEvent(e)

\* BrokenSyncWithServer: a request whose reply comes after all that the server
\* has sent before.
SyncWithServer(op, x) ==
    /\ to_server' = Append(to_server, Bare("GetICValues", x))
    /\ caller' = [op |-> op, ic |-> x]
    /\ UNCHANGED <<fabricated, need_sync_reply, ics, looked_up, drawn>>

NextEvent ==
    /\ caller.op = "none" /\ event_queue # <<>>
    /\ LET e == Head(event_queue)
           rest == Tail(event_queue)
       IN  \/ e.type = "message" /\ CallDispatcher(e, rest)
           \/ /\ e.type = "key" /\ event_queue' = rest
              /\ IF ics[e.ic].registered THEN ProtoKeypressFilter(e) ELSE NotFiltered(e)
              /\ UNCHANGED drawn
           \/ e.type = "FocusOut" /\ event_queue' = rest /\ SyncWithServer("Unfocus", e.ic)
           \/ e.type = "FocusIn" /\ event_queue' = rest /\ SyncWithServer("Focus", e.ic)
    /\ UNCHANGED <<mode, im_server, userVars, received>>

(***************************************************************************)
(* XSetICValues and XmbResetIC.                                            *)
(***************************************************************************)
Call ==
    /\ mode.calls /\ calls_made < MaxCalls
    /\ caller.op = "none"
    /\ calls_made' = calls_made + 1
    /\ \E op \in AppCalls :
        /\ to_server' = Append(to_server, Bare(op, focus))
        /\ caller' = [op |-> op, ic |-> focus]
    /\ ics' = [ics EXCEPT ![focus].waitCallback = TRUE]
    /\ UNCHANGED <<mode, event_queue, fabricated, need_sync_reply, im_server, focus, typed,
                   moves_made, received, looked_up, drawn>>

\* _XimSyncCheck, _XimTriggerNotifyCheck, _XimGetICValuesCheck, ...
Reply == [op \in {"Forward", "Trigger", "Unfocus", "Focus", "SetICValues", "Reset"} |->
            CASE op = "Forward" -> "SyncReply"
              [] op = "Trigger" -> "TriggerReply"
              [] op \in {"Unfocus", "Focus"} -> "GetICValuesReply"
              [] op = "SetICValues" -> "SetICValuesReply"
              [] op = "Reset" -> "ResetReply"]

Check(msg) == msg.op = Reply[caller.op] /\ msg.ic = caller.ic

\* After the reply: the focus functions send their message and register or
\* remove the filter, XmbResetIC returns the texts that were kept and the
\* server's.
Finish(msg) ==
    /\ caller' = NoCaller
    /\ ics' = [ics EXCEPT
            ![caller.ic].registered = CASE caller.op = "Focus" -> TRUE
                                        [] caller.op = "Unfocus" -> FALSE
                                        [] OTHER -> @,
            ![caller.ic].waitCallback = FALSE,
            ![caller.ic].commit_info = IF caller.op = "Reset" THEN <<>> ELSE @]
    /\ to_server' = IF caller.op \in {"Focus", "Unfocus"}
                    THEN Append(to_server, Bare(caller.op, caller.ic)) ELSE to_server
    /\ looked_up' = IF caller.op = "Reset"
                    THEN looked_up \o ics[caller.ic].commit_info
                         \o (IF msg.item.key = 0 THEN <<>> ELSE <<msg.item>>)
                    ELSE looked_up
    /\ UNCHANGED <<fabricated, need_sync_reply, drawn>>

\* XIfEvent: the first message, wherever it is.
Read ==
    /\ caller.op # "none"
    /\ \E i \in DOMAIN event_queue :
        /\ event_queue[i].type = "message"
        /\ \A j \in 1..(i - 1) : event_queue[j].type # "message"
        /\ LET msg == event_queue[i]
               rest == RemoveAt(event_queue, i)
           IN  IF Check(msg) THEN Finish(msg) /\ event_queue' = rest
               ELSE CallDispatcher(msg, rest)
    /\ UNCHANGED <<mode, im_server, userVars, received>>

(***************************************************************************)
(* The server.  It sends what it has to, one message at a time, and waits  *)
(* for SYNC_REPLY after a text or a key in "demand"; until then it leaves  *)
(* keys in its queue, but handles everything else.                         *)
(***************************************************************************)
Input(op, item) == [op |-> op, item |-> item]

Answers(key) ==
    {<<>>, <<Input("Forward", Item(key, 0))>>, <<Input("Commit", Item(key, 1))>>,
     <<Input("Draw", Item(key, 0))>>,
     <<Input("Commit", Item(key, 1)), Input("Commit", Item(key, 2))>>}

Allowed(answer) == Len(SelectSeq(answer, LAMBDA a : a.op # "Draw")) <= mode.answers

Tell(op, x, item, sync) == event_queue' = Append(event_queue, Message(op, x, item, sync))

ServerSend ==
    /\ im_server.todo # <<>> /\ im_server.waiting = NoIC
    /\ LET msg == Head(im_server.todo)
           sync == mode.sync = "demand" /\ msg.op \in {"Forward", "Commit"}
       IN  /\ Tell(msg.op, msg.ic, msg.item, sync)
           /\ im_server' = [im_server EXCEPT
                    !.waiting = IF sync THEN msg.ic ELSE NoIC,
                    !.awaited = IF sync THEN msg.item ELSE @,
                    !.todo = Tail(@)]
    /\ UNCHANGED <<mode, fabricated, need_sync_reply, ics, caller, to_server, userVars,
                   received, looked_up, drawn>>

ServerKey(msg) ==
    /\ msg.op = "Key" /\ im_server.waiting = NoIC /\ im_server.todo = <<>>
    /\ received' = Append(received, msg.item.key)
    /\ \E answer \in Answers(msg.item.key) :
        /\ Allowed(answer)
        /\ im_server' = [im_server EXCEPT
                !.todo = [i \in DOMAIN answer |->
                            Message(answer[i].op, msg.ic, answer[i].item, FALSE)]
                         \o (IF msg.sync THEN <<Bare("SyncReply", msg.ic)>> ELSE <<>>),
                !.preedit = IF answer # <<>> /\ answer[1].op = "Draw" THEN msg.item.key ELSE 0]
    /\ UNCHANGED event_queue

ServerTrigger(msg) ==
    /\ msg.op \in {"TriggerOn", "TriggerOff"} /\ im_server.todo = <<>>
    /\ im_server' = [im_server EXCEPT !.todo =
            <<Bare(IF msg.op = "TriggerOn" THEN "MaskOn" ELSE "MaskOff", msg.ic),
              Bare("TriggerReply", msg.ic)>>]
    /\ UNCHANGED <<event_queue, received>>

ServerRequest(msg) ==
    /\ msg.op \in {"GetICValues", "SetICValues", "Reset"}
    /\ im_server.todo = <<>> \/ im_server.waiting # NoIC
    /\ Tell(msg.op \o "Reply", msg.ic,
            Item(IF msg.op = "Reset" THEN im_server.preedit ELSE 0, 3), FALSE)
    /\ im_server' = [im_server EXCEPT !.preedit = IF msg.op = "Reset" THEN 0 ELSE @]
    /\ UNCHANGED received

ServerNotified(msg) ==
    /\ msg.op \in {"SyncReply", "Focus", "Unfocus"}
    /\ im_server' = [im_server EXCEPT
            !.waiting = IF msg.op = "SyncReply" /\ msg.ic = @ THEN NoIC ELSE @,
            !.preedit = IF msg.op = "Unfocus" THEN 0 ELSE @]
    /\ UNCHANGED <<event_queue, received>>

\* The first message, or the first that is not a key while it waits.
ServerTakes ==
    /\ \E i \in DOMAIN to_server :
        /\ \A j \in 1..(i - 1) : to_server[j].op = "Key" /\ im_server.waiting # NoIC
        /\ LET msg == to_server[i]
           IN  ServerKey(msg) \/ ServerTrigger(msg) \/ ServerRequest(msg) \/ ServerNotified(msg)
        /\ to_server' = RemoveAt(to_server, i)
    /\ UNCHANGED <<mode, fabricated, need_sync_reply, ics, caller, userVars, looked_up, drawn>>

\* A server may ask whether the client has read all, here once after each key.
ServerSyncs ==
    /\ mode.sync = "none" /\ im_server.waiting = NoIC /\ im_server.todo = <<>>
    /\ im_server.asked < Len(received)
    /\ im_server' = [im_server EXCEPT !.waiting = focus, !.awaited = Item(0, 0),
                                      !.asked = Len(received)]
    /\ Tell("Sync", focus, Item(0, 0), FALSE)
    /\ UNCHANGED <<mode, fabricated, need_sync_reply, ics, caller, to_server, userVars,
                   received, looked_up, drawn>>

XimNext ==
    \/ Type \/ MoveFocus
    \/ NextEvent \/ Call \/ Read
    \/ ServerSend \/ ServerTakes \/ ServerSyncs

XimStopped ==
    /\ typed = MaxKeys /\ event_queue = <<>> /\ caller.op = "none"
    /\ to_server = <<>> /\ im_server.todo = <<>> /\ im_server.waiting = NoIC

-----------------------------------------------------------------------------
(***************************************************************************)
(* What the user types is taken in that order, with the texts the server   *)
(* makes of it in its order: no key goes past the server, none is given to *)
(* it twice, and what the server sends back is not taken for new input,    *)
(* although it goes through the same queue and the same filter, which tell *)
(* it by one mark for all.  Nor do the preedit callbacks change their      *)
(* order, though some are put off.                                         *)
(***************************************************************************)
Before(a, b) == a.key < b.key \/ (a.key = b.key /\ a.n < b.n)

InputInOrder ==
    /\ \A i, j \in DOMAIN received : i < j => received[i] < received[j]
    /\ \A i \in DOMAIN received : received[i] # 0
    /\ \A i, j \in DOMAIN looked_up : i < j => Before(looked_up[i], looked_up[j])
    /\ \A i \in DOMAIN looked_up :
            ~mode.dynamic => \E j \in DOMAIN received : received[j] = looked_up[i].key
    /\ \A i, j \in DOMAIN drawn : i < j => drawn[i] < drawn[j]
    /\ \A x \in ICs : Len(ics[x].commit_info) <=
            Cardinality({i \in DOMAIN event_queue :
                event_queue[i].type = "key" /\ event_queue[i].key = 0 /\ event_queue[i].ic = x})

(***************************************************************************)
(* A server that waits for SYNC_REPLY gets one, for the input context that *)
(* it asked about and only after the application has seen what it sent;    *)
(* and neither of the two waits when nothing is on its way to it.          *)
(***************************************************************************)
SyncReplied ==
    /\ \A i \in DOMAIN to_server : to_server[i].op = "SyncReply" =>
            /\ im_server.waiting = to_server[i].ic
            /\ im_server.awaited # Item(0, 0) =>
                    \E j \in DOMAIN looked_up : looked_up[j] = im_server.awaited
            /\ \A j \in DOMAIN to_server \ {i} : to_server[j].op # "SyncReply"
    /\ im_server.waiting # NoIC =>
            event_queue # <<>> \/ \E i \in DOMAIN to_server : to_server[i].op # "Key"
    /\ caller.op # "none" /\ im_server.waiting = NoIC =>
            \/ to_server # <<>> \/ im_server.todo # <<>>
            \/ \E i \in DOMAIN event_queue : event_queue[i].type = "message"
=============================================================================
