---------------------------- MODULE XimTransport ----------------------------
(***************************************************************************)
(* How the client of an input method reads the server's messages from the  *)
(* X event queue.  A message comes in ClientMessages of a fixed size, the  *)
(* last one filled up with zeros, or in a property that a ClientMessage    *)
(* names.  _XimReadData puts packets together from that; what it has read  *)
(* beyond a packet, or cannot return because the caller's buffer is too    *)
(* small, it holds for the next call.                                      *)
(*                                                                         *)
(* A message of n bytes is n, the header, and the message's number n - 1   *)
(* times; 0 is what fills a ClientMessage up.                              *)
(***************************************************************************)
EXTENDS Integers, Sequences, SequencesExt

CONSTANTS
    Chunk,          \* XIM_CM_DATA_SIZE: 20
    BufSize,        \* BUFSIZE: 2048
    MessageSizes,   \* of the messages in ClientMessages
    PropertySizes,  \* of the messages in properties
    MaxMessages     \* bound: messages of the server

VARIABLES
    xim_events,     \* the ClientMessages in the event queue, head first
    on_the_way,     \* those the server has not sent yet
    hold_data,      \* im->private.proto.hold_data
    reader,         \* the call in progress
    sent,           \* the server's messages
    got             \* the packets that were given to the dispatcher

transportVars == <<xim_events, on_the_way, hold_data, reader, sent, got>>

NoEvent == [form |-> "none", data |-> <<>>]

\* spec->ev is the event the filter was called with; "length" is the size of
\* the caller's buffer, "room" what is left of it.
NoReader == [at |-> "idle", ev |-> NoEvent, attempt |-> 1, length |-> BufSize,
             buf |-> <<>>, room |-> 0, packet_size |-> 0]

TransportTypeOK ==
    /\ \A i \in DOMAIN xim_events : xim_events[i].form \in {"cm", "property"}
    /\ reader.at \in {"idle", "begin", "read"} /\ reader.attempt \in {1, 2}
    /\ reader.room \in Nat /\ reader.packet_size \in Nat

TransportInit ==
    /\ xim_events = <<>> /\ on_the_way = <<>>
    /\ hold_data = <<>> /\ reader = NoReader
    /\ sent = <<>> /\ got = <<>>

Zeros(n) == [i \in 1..n |-> 0]
Message(i, n) == [j \in 1..n |-> IF j = 1 THEN n ELSE i]
Filled(data) == data \o Zeros(Chunk - Len(data))
MinOf(a, b) == IF a < b THEN a ELSE b

(***************************************************************************)
(* The server.                                                             *)
(***************************************************************************)
Parts(message) ==
    [i \in 1..((Len(message) + Chunk - 1) \div Chunk) |->
        [form |-> "cm",
         data |-> Filled(SubSeq(message, (i - 1) * Chunk + 1, MinOf(i * Chunk, Len(message))))]]

Sends(n, events) ==
    /\ Len(sent) < MaxMessages
    /\ sent' = Append(sent, Message(Len(sent) + 1, n))
    /\ on_the_way' = on_the_way \o events

Send ==
    /\ \/ \E n \in MessageSizes : Sends(n, Parts(Message(Len(sent) + 1, n)))
       \/ \E n \in PropertySizes :
            Sends(n, <<[form |-> "property", data |-> Message(Len(sent) + 1, n)]>>)
    /\ UNCHANGED <<xim_events, hold_data, reader, got>>

Arrive ==
    /\ on_the_way # <<>>
    /\ xim_events' = Append(xim_events, Head(on_the_way))
    /\ on_the_way' = Tail(on_the_way)
    /\ UNCHANGED <<hold_data, reader, sent, got>>

(***************************************************************************)
(* The callers of _XimReadData.  The filter has an event, _XimRead waits   *)
(* for one if it needs it.  Both try again with a buffer of the packet's   *)
(* size if it does not fit, and give up if it does not fit then.           *)
(***************************************************************************)
FilterWaitEvent ==
    /\ reader.at = "idle" /\ xim_events # <<>>
    /\ reader' = [NoReader EXCEPT !.at = "begin", !.ev = Head(xim_events)]
    /\ xim_events' = Tail(xim_events)
    /\ UNCHANGED <<on_the_way, hold_data, sent, got>>

Read ==
    /\ reader.at = "idle" /\ Len(got) < Len(sent)
    /\ reader' = [NoReader EXCEPT !.at = "begin"]
    /\ UNCHANGED <<xim_events, on_the_way, hold_data, sent, got>>

Overflow(packet_size, ev) ==
    /\ reader' = IF reader.attempt = 1
                 THEN [reader EXCEPT !.at = "begin", !.ev = ev, !.attempt = 2,
                                     !.length = packet_size]
                 ELSE NoReader
    /\ UNCHANGED got

(***************************************************************************)
(* _XimReadData.                                                           *)
(***************************************************************************)
CheckProtocolData(data) == IF data[1] = 0 THEN 1 ELSE data[1]

MutZerosKept(data) == data

\* What follows the packet, but for the zeros that fill up.
AfterZeros(data) ==
    LET rest == {i \in DOMAIN data : data[i] # 0}
    IN  IF rest = {} THEN <<>>
        ELSE SubSeq(data, CHOOSE i \in rest : \A j \in rest : i <= j, Len(data))

CallDispatcher(data, packet_size) ==
    /\ got' = Append(got, SubSeq(data, 1, packet_size))
    /\ hold_data' = AfterZeros(SubSeq(data, packet_size + 1, Len(data)))
    /\ reader' = NoReader

MutHeldLost(data, room, packet_size, ev) ==
    IF packet_size > room THEN hold_data' = <<>> /\ Overflow(packet_size, ev)
    ELSE IF packet_size <= Len(data) THEN CallDispatcher(data, packet_size)
    ELSE /\ hold_data' = <<>>
         /\ reader' = [reader EXCEPT !.at = "read", !.ev = ev, !.buf = data, !.room = room,
                                     !.packet_size = packet_size]
         /\ UNCHANGED got

\* With the size known: the packet is compared with the room that is left.
WithSize(data, room, packet_size, ev) ==
    \/ /\ packet_size > room
       /\ hold_data' = data
       /\ Overflow(packet_size, ev)
    \/ /\ packet_size <= room /\ packet_size <= Len(data)
       /\ CallDispatcher(data, packet_size)
    \/ /\ packet_size <= room /\ packet_size > Len(data)
       /\ hold_data' = <<>>
       /\ reader' = [reader EXCEPT !.at = "read", !.ev = ev, !.buf = data, !.room = room,
                                   !.packet_size = packet_size]
       /\ UNCHANGED got

BeginEmpty ==
    /\ hold_data = <<>>
    /\ reader' = [reader EXCEPT !.at = "read", !.buf = <<>>, !.room = reader.length,
                                !.packet_size = 0]
    /\ UNCHANGED <<hold_data, got>>

BeginHeld ==
    /\ hold_data # <<>>
    /\ LET packet_size == CheckProtocolData(hold_data)
           fits == packet_size <= reader.length /\ packet_size <= Len(hold_data)
       IN  IF fits THEN CallDispatcher(hold_data, packet_size)
           ELSE WithSize(hold_data, reader.length - Len(hold_data), packet_size, reader.ev)

Begin ==
    /\ reader.at = "begin"
    /\ BeginEmpty \/ BeginHeld
    /\ UNCHANGED <<xim_events, on_the_way, sent>>

(***************************************************************************)
(* One call of im->private.proto.read: of the event in spec->ev, or of the *)
(* first that XIfEvent finds.  What does not fit goes back to the queue.   *)
(***************************************************************************)
PutBack(rest, events) ==
    IF rest.data = <<>> THEN events
    ELSE <<IF rest.form = "cm" THEN [rest EXCEPT !.data = Filled(@)] ELSE rest>> \o events

GetReadData(ev, events) ==
    LET n == MinOf(reader.room, Len(ev.data))
        buf == reader.buf \o SubSeq(ev.data, 1, n)
        rest == [ev EXCEPT !.data = SubSeq(@, n + 1, Len(@))]
        room == reader.room - n
    IN  /\ xim_events' = PutBack(rest, events)
        /\ IF reader.packet_size = 0 THEN WithSize(buf, room, CheckProtocolData(buf), NoEvent)
           ELSE IF Len(buf) >= reader.packet_size THEN CallDispatcher(buf, reader.packet_size)
           ELSE /\ reader' = [reader EXCEPT !.ev = NoEvent, !.buf = buf, !.room = room]
                /\ UNCHANGED <<hold_data, got>>

ReadEvent ==
    /\ reader.at = "read"
    /\ \/ reader.ev # NoEvent /\ GetReadData(reader.ev, xim_events)
       \/ /\ reader.ev = NoEvent /\ xim_events # <<>>
          /\ GetReadData(Head(xim_events), Tail(xim_events))
    /\ UNCHANGED <<on_the_way, sent>>

TransportNext ==
    \/ Send \/ Arrive
    \/ FilterWaitEvent \/ Read \/ Begin \/ ReadEvent

TransportStopped ==
    /\ Len(sent) = MaxMessages /\ on_the_way = <<>>
    /\ xim_events = <<>> /\ reader.at = "idle"

(***************************************************************************)
(* The dispatcher gets the messages of the server, whole and in order,     *)
(* however they were cut into events and whoever reads them: the filter    *)
(* (one event, possibly the first of several) or a call that waits for its *)
(* reply.  Nothing stays behind: with no event left every message has been *)
(* given to the dispatcher, and no call waits for the rest of one.         *)
(***************************************************************************)
MessagesRead ==
    /\ IsPrefix(got, sent)
    /\ xim_events = <<>> /\ on_the_way = <<>> =>
            /\ reader.at = "idle" => got = sent
            /\ ~(reader.at = "read" /\ reader.ev = NoEvent)
=============================================================================
