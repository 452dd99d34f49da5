---------------------------- MODULE SeqSyncProofs ----------------------------
(***************************************************************************)
(* Proofs about SeqSync, for every set of threads, with and without the    *)
(* lock, and every size of the buffer: the numbers of the requests stay    *)
(* close enough together, so that every packet gets its own, the           *)
(* application's after function is kept, and an id is there when it is     *)
(* needed.                                                                 *)
(***************************************************************************)
EXTENDS SeqSync, TLAPS, SequenceTheorems, FiniteSetTheorems

-----------------------------------------------------------------------------
(***************************************************************************)
(* The numbers that Xlib works out are the right ones, for every modulus.  *)
(***************************************************************************)
\* What division leaves: a number is a multiple of m and a rest below m.
LEMMA Division ==
    ASSUME NEW a \in Nat, NEW m \in Nat \ {0}
    PROVE  /\ a \div m \in Nat /\ a % m \in Nat
           /\ a = m * (a \div m) + (a % m)
           /\ a % m < m
  BY SMT

\* Two multiples of m are the same, neighbours, or further apart.
LEMMA Multiples ==
    ASSUME NEW p \in Nat, NEW q \in Nat, NEW m \in Nat \ {0}
    PROVE  \/ p = q /\ m * p = m * q
           \/ p = q + 1 /\ m * p = m * q + m
           \/ p > q + 1 /\ m * p >= m * q + m + m
           \/ p < q /\ m * p + m <= m * q
  <1>1. CASE p > q + 1
    <2>1. PICK d \in Nat : p = q + 2 + d
      <3>1. p - (q + 2) \in Nat
        BY <1>1
      <3> QED
        BY <3>1
    <2>2. m * p = m * q + m + m + m * d /\ m * d \in Nat
      BY <2>1
    <2> QED
      BY <1>1, <2>2
  <1>2. CASE p < q
    <2>1. PICK d \in Nat : q = p + 1 + d
      <3>1. q - (p + 1) \in Nat
        BY <1>2
      <3> QED
        BY <3>1
    <2>2. m * q = m * p + m + m * d /\ m * d \in Nat
      BY <2>1
    <2> QED
      BY <1>2, <2>2
  <1>3. CASE p = q + 1
    BY <1>3
  <1>4. CASE p = q
    BY <1>4
  <1> QED
    BY <1>1, <1>2, <1>3, <1>4

\* A number less than m above another has the other's upper part or the next
\* one, and which of them it is shows in the low parts.
LEMMA UpperPart ==
    ASSUME NEW a \in Nat, NEW b \in Nat, NEW m \in Nat \ {0}, a <= b, b < a + m
    PROVE  \/ (a - (a % m)) + (b % m) = b
           \/ /\ (a - (a % m)) + (b % m) + m = b
              /\ (a - (a % m)) + (b % m) < a
  <1> DEFINE p == b \div m
             q == a \div m
  <1>1. /\ q \in Nat /\ a % m \in Nat /\ a = m * q + (a % m) /\ a % m < m
        /\ p \in Nat /\ b % m \in Nat /\ b = m * p + (b % m) /\ b % m < m
    BY Division
  <1> HIDE DEF p, q
  <1>2. m * p \in Nat /\ m * q \in Nat
    BY <1>1
  <1>3. \/ m * p = m * q \/ m * p = m * q + m
    BY <1>1, <1>2, Multiples
  <1> QED
    BY <1>1, <1>2, <1>3

\* widen: a number from the last one read up to 2^31 - 1 above it is found
\* from its low 32 bits.
THEOREM WidenIsTrue ==
    ASSUME NEW wide \in Nat, NEW seq \in Nat,
           wide <= seq, seq < wide + Modulus32 \div 2
    PROVE  Widen(wide, seq % Modulus32) = seq
  <1> DEFINE new == (wide - (wide % Modulus32)) + (seq % Modulus32)
             half == Modulus32 \div 2
  <1>1. /\ Modulus32 \in Nat \ {0} /\ half \in Nat /\ half + half = Modulus32
    BY ModulusAssumption
  <1>2. wide % Modulus32 \in Nat /\ seq % Modulus32 \in Nat
    BY <1>1, Division
  <1>3. new = seq \/ (new + Modulus32 = seq /\ new < wide)
    <2>1. seq < wide + Modulus32
      BY <1>1
    <2> QED
      BY <1>1, <2>1, UpperPart
  <1>4. Widen(wide, seq % Modulus32) =
            IF new + half < wide THEN new + Modulus32 ELSE new
    BY DEF Widen
  <1> HIDE DEF new, half
  <1>5. new \in Int
    BY <1>2 DEF new
  <1>6. seq < wide + half
    BY DEF half
  <1> QED
    BY <1>1, <1>3, <1>4, <1>5, <1>6

\* _XSetLastRequestRead: a number from the last one read up to the last
\* request made is found from its low 16 bits while the two are less than
\* 2^16 apart.
THEOREM NewSeqIsTrue ==
    ASSUME NEW last \in Nat, NEW made \in Nat, NEW seq \in Nat,
           last <= seq, seq <= made, made < last + Modulus16
    PROVE  NewSeq(last, made, seq % Modulus16) = seq
  <1> DEFINE new == (last - (last % Modulus16)) + (seq % Modulus16)
  <1>1. Modulus16 \in Nat \ {0}
    BY ModulusAssumption
  <1>2. last % Modulus16 \in Nat /\ seq % Modulus16 \in Nat
    BY <1>1, Division
  <1>3. new = seq \/ (new + Modulus16 = seq /\ new < last)
    <2>1. seq < last + Modulus16
      BY <1>1
    <2> QED
      BY <1>1, <2>1, UpperPart
  <1>4. NewSeq(last, made, seq % Modulus16) =
            IF new < last /\ new + Modulus16 <= made THEN new + Modulus16 ELSE new
    BY DEF NewSeq
  <1> HIDE DEF new
  <1> QED
    BY <1>1, <1>3, <1>4

-----------------------------------------------------------------------------
(***************************************************************************)
(* The inductive invariant.                                                *)
(***************************************************************************)
\* With threads: t has still to pass the test of _XSeqSyncFunction.
Unchecked(t) ==
    \/ pc[t] \in {"Idle", "IDHandler", "GenerateId", "SeqSync"}
    \/ pc[t] = "Relock" /\ local[t].back = "SeqSync"

\* The requests t may make before it comes to wait for a reply: one in
\* _XSeqSyncFunction, and after its test those of the call as well.
MayMake(t) == IF Unchecked(t) THEN 1 ELSE local[t].left + 1

Waits(t) == pc[t] = "WaitForReply"

\* A ticket is a request that a thread may make.  Tickets are counted instead
\* of adding up MayMake(t).
AllTickets == Threads \X (1..CallRequests + 1)
Tickets == {k \in AllTickets : k[2] <= MayMake(k[1])}

\* The requests that may be made before any packet is read ...
Live == {k \in Tickets : ~Waits(k[1])}

\* ... and after the reply to request r is.
LiveAfter(r) == {k \in Tickets : Waits(k[1]) => local[k[1]].req <= r}

\* With threads, there is room for all that may be made, whoever's reply is
\* read next.
SpanRoom ==
    lock_fns => request - last_request_read + Cardinality(Live) < Modulus16

ReplyRoom ==
    lock_fns => \A t \in Threads : Waits(t) =>
        request - local[t].req + Cardinality(LiveAfter(local[t].req)) < Modulus16

\* Packets come in order, and the next one is not older than the last.
PacketsInOrder ==
    /\ last_request_read <= served
    /\ \A i \in 1..Len(unread) : unread[i].seq \in last_request_read..served
    /\ \A i, j \in 1..Len(unread) : i < j => unread[i].seq <= unread[j].seq

\* The reply that a thread waits for comes before packets of later requests.
RepliesInOrder ==
    \A t \in Threads : Waits(t) =>
        /\ local[t].req \in last_request_read..last_flushed
        /\ served <= local[t].req \/ \E i \in 1..Len(unread) : unread[i] = ReplyTo(t)

\* The number of requests from which on a flush installs the private function.
Hazard == Modulus16 - 1 - MinOf(BufferReqs, Modulus16 - 1 - Margin) - Margin

\* Without threads: either the private function is installed, and the test
\* comes at the end of the call, or the requests that were flushed leave room
\* for a full buffer.
AloneRoom ==
    ~lock_fns =>
        /\ \A t \in Threads : t # MainThread => pc[t] = "Idle"
        /\ pc[MainThread] \in {"Idle", "Call", "AllocID", "WaitForReply", "Unlock",
                               "SyncLock", "SyncHandle", "SeqSync"}
        /\ pc[MainThread] \notin {"Call", "AllocID"} => local[MainThread].left = 0
        /\ request - last_flushed <= BufferReqs
        /\ pc[MainThread] # "SeqSync" /\ ~priv_sync => last_flushed - last_request_read < Hazard
        /\ local[MainThread].func # "keep" => pc[MainThread] = "Call" /\ local[MainThread].left = 0
        /\ (pc[MainThread] = "Idle" \/ local[MainThread].func # "keep") /\ priv_sync =>
              request - last_request_read < Modulus16 - 1 - BufsizeReqs
        /\ Waits(MainThread) => local[MainThread].req = request
        /\ request - last_request_read + local[MainThread].left
              + (IF Waits(MainThread) THEN 0 ELSE 1) < Modulus16

\* The private function is for programs without threads.
PrivateAlone == lock_fns => ~priv_sync

\* Where _XAllocIDs and sync_while_locked go on.
Returns ==
    \A t \in Threads :
        /\ pc[t] = "GenerateId" => local[t].back = "SeqSync"
        /\ lock_fns /\ local[t].syncing => pc[t] \in {"WaitForReply", "SyncLock", "SyncHandle"}
        /\ lock_fns /\ pc[t] = "SyncHandle" /\ local[t].syncing => local[t].back = "Call"

\* With threads, a call is made by one thread at a time.
CallsAlone ==
    /\ in_ifevent = 0
    /\ lock_fns => \A t \in Threads :
          pc[t] \in {"IDHandler", "SeqSync", "Call", "AllocID", "Unlock"} => mutex = t

\* With threads, no two of them wait for the same reply: a call that waits for
\* one has made a request of its own.
RepliesApart ==
    lock_fns => \A t, u \in Threads :
        /\ local[t].reply
              /\ (local[t].syncing \/ pc[t] \in {"IDHandler", "GenerateId", "Relock", "SeqSync"})
              => local[t].left > 0
        /\ pc[t] \in {"Call", "AllocID"} /\ local[t].reply /\ local[t].left = 0 /\ Waits(u)
              => local[u].req < request
        /\ t # u /\ Waits(t) /\ Waits(u) => local[t].req # local[u].req

Inv ==
    /\ TypeOK
    /\ AfterFunctionKept
    /\ PrivateAlone
    /\ Returns
    /\ CallsAlone
    /\ RepliesApart
    /\ PacketsInOrder
    /\ RepliesInOrder
    /\ SpanRoom
    /\ ReplyRoom
    /\ AloneRoom

-----------------------------------------------------------------------------
(***************************************************************************)
(* Type correctness.                                                       *)
(***************************************************************************)

\* The lock's variables keep their types whatever a step does with the lock.
LEMMA LockTypes ==
    ASSUME LockTypeOK, NEW t \in Threads,
           \/ UNCHANGED <<locking_level, locking_thread>>
           \/ UserLocked(t)
           \/ UserUnlocked,
           \/ UNCHANGED mutex \/ Acquired(t, TRUE) \/ Acquired(t, FALSE)
           \/ Released(t) \/ Wakeup(t) \/ mutex' = NoThread,
           \/ UNCHANGED sleeping \/ UserUnlocked
           \/ sleeping' = [sleeping EXCEPT !["cv"] = @ \cup {t}],
           UNCHANGED <<in_ifevent, ifevent_thread>>
    PROVE  LockTypeOK'
<1>1. mutex' \in Threads \cup {NoThread}
  BY DEF LockTypeOK, Acquired, Released, Wakeup
<1>2. locking_level' \in Nat /\ locking_thread' \in Threads \cup {NoThread}
  BY DEF LockTypeOK, UserLocked, UserUnlocked
<1>3. sleeping' \in [CondVars -> SUBSET Threads]
  BY DEF LockTypeOK, UserUnlocked, ConditionBroadcast
<1> QED BY <1>1, <1>2, <1>3 DEF LockTypeOK

\* The types of a thread's variables.
LEMMA ThreadTypes ==
    ASSUME TypeOK, NEW t \in Threads, NEW label \in Labels, NEW l \in Locals
    PROVE  /\ [pc EXCEPT ![t] = label] \in [Threads -> Labels]
           /\ [local EXCEPT ![t] = l] \in [Threads -> Locals]
BY DEF TypeOK

\* Updating one field of a thread's locals keeps their type.
LEMMA LocalUpdates ==
    ASSUME NEW l \in Locals
    PROVE  /\ NoCall \in Locals
           /\ [l EXCEPT !.back = "SeqSync"] \in Locals
           /\ [l EXCEPT !.back = "Call"] \in Locals
           /\ [l EXCEPT !.syncing = FALSE] \in Locals
           /\ [l EXCEPT !.alloc = FALSE] \in Locals
           /\ l.left > 0 => [l EXCEPT !.left = l.left - 1] \in Locals
           /\ \A r \in Nat : [l EXCEPT !.req = r] \in Locals
           /\ \A r \in Nat : [l EXCEPT !.req = r, !.syncing = TRUE] \in Locals
           /\ \A n \in 0..CallRequests, alloc, reply \in BOOLEAN,
                f \in Functions \cup {"keep"} :
                 [NoCall EXCEPT !.left = n, !.alloc = alloc, !.reply = reply, !.func = f]
                     \in Locals
<1>1. CallRequests \in Nat \ {0}
  BY SizeAssumption
<1>2. NoCall \in Locals
  BY <1>1 DEF Locals, NoCall
<1>3. /\ [l EXCEPT !.back = "SeqSync"] \in Locals
      /\ [l EXCEPT !.back = "Call"] \in Locals
      /\ [l EXCEPT !.syncing = FALSE] \in Locals
      /\ [l EXCEPT !.alloc = FALSE] \in Locals
  BY DEF Locals
<1>4. l.left > 0 => [l EXCEPT !.left = l.left - 1] \in Locals
  BY <1>1 DEF Locals
<1>5. /\ \A r \in Nat : [l EXCEPT !.req = r] \in Locals
      /\ \A r \in Nat : [l EXCEPT !.req = r, !.syncing = TRUE] \in Locals
  BY DEF Locals
<1>6. ASSUME NEW n \in 0..CallRequests, NEW alloc \in BOOLEAN, NEW reply \in BOOLEAN,
             NEW f \in Functions \cup {"keep"}
      PROVE  [NoCall EXCEPT !.left = n, !.alloc = alloc, !.reply = reply, !.func = f] \in Locals
  BY DEF Locals, NoCall
<1> QED BY <1>2, <1>3, <1>4, <1>5, <1>6

\* The sizes are numbers.
LEMMA Sizes ==
    /\ CallRequests \in Nat \ {0} /\ BufsizeReqs \in Nat \ {0} /\ BufferReqs \in Nat \ {0}
    /\ Margin \in Nat \ {0} /\ Modulus16 \in Nat \ {0} /\ Modulus32 \in Nat \ {0}
    /\ FirstRequest \in Nat /\ IsFiniteSet(Threads) /\ MainThread \in Threads
    /\ BufsizeReqs + 1 < Modulus16
BY SizeAssumption, ModulusAssumption, SpanAssumption, MainAssumption

\* The private function and its bookkeeping.
LEMMA HandlerTypes ==
    ASSUME TypeOK, UNCHANGED handlerVars \/ SetPrivSyncFunction, AfterFunctionKept
    PROVE  /\ synchandler' \in Functions \cup {"priv"} /\ savedsynchandler' \in Functions
           /\ priv_sync' \in BOOLEAN
           /\ priv_sync' = (synchandler' = "priv")
           /\ after = IF priv_sync' THEN savedsynchandler' ELSE synchandler'
           /\ lock_fns => priv_sync' = priv_sync
           /\ priv_sync => priv_sync'
<1>0. /\ synchandler \in Functions \cup {"priv"} /\ savedsynchandler \in Functions
      /\ priv_sync \in BOOLEAN /\ "priv" \notin Functions
  BY DEF TypeOK, Functions
<1>1. CASE UNCHANGED handlerVars
  BY <1>0, <1>1 DEF handlerVars, AfterFunctionKept
<1>2. CASE SetPrivSyncFunction /\ (lock_fns \/ priv_sync)
  BY <1>0, <1>2 DEF SetPrivSyncFunction, handlerVars, AfterFunctionKept
<1>3. CASE SetPrivSyncFunction /\ ~(lock_fns \/ priv_sync)
  <2>1. savedsynchandler' = synchandler /\ synchandler' = "priv" /\ priv_sync' = TRUE
    BY <1>3 DEF SetPrivSyncFunction
  <2>2. synchandler # "priv" /\ after = synchandler
    BY <1>3 DEF AfterFunctionKept
  <2> QED BY <1>0, <1>3, <2>1, <2>2
<1> QED BY <1>1, <1>2, <1>3

LEMMA FlushHandlers ==
    ASSUME NEW made, Flush(made) PROVE UNCHANGED handlerVars \/ SetPrivSyncFunction
BY DEF Flush

\* The initial state has the types.
LEMMA InitType == Init => TypeOK
<1> SUFFICES ASSUME Init PROVE TypeOK
  OBVIOUS
<1>1. LockTypeOK
  BY DEF Init, LockInit, LockTypeOK, CondVars
<1>2. NoCall \in Locals
  BY Sizes DEF Locals, NoCall
<1>3. local \in [Threads -> Locals] /\ pc \in [Threads -> Labels]
  BY <1>2 DEF Init, Labels
<1>4. synchandler \in Functions \cup {"priv"} /\ savedsynchandler \in Functions /\ priv_sync \in BOOLEAN
  BY DEF Init, Functions
<1>5. lock_fns \in BOOLEAN /\ next_xid \in BOOLEAN /\ fatal \in BOOLEAN
  BY ModeAssumption DEF Init
<1>6. unread \in Seq(Packets)
  BY DEF Init
<1>7. request = FirstRequest /\ last_request_read = FirstRequest /\ last_flushed = FirstRequest
      /\ served = FirstRequest /\ after = "none"
  BY DEF Init
<1>8. after \in Functions
  BY <1>7 DEF Functions
<1> QED
  BY <1>1, <1>3, <1>4, <1>5, <1>6, <1>7, <1>8, Sizes DEF TypeOK

\* Head and tail of the packets.
LEMMA UnreadHead ==
    ASSUME TypeOK, unread # <<>>
    PROVE  /\ Head(unread) = unread[1] /\ 1 \in 1..Len(unread)
           /\ unread[1] \in Packets /\ Tail(unread) \in Seq(Packets)
           /\ Len(Tail(unread)) = Len(unread) - 1 /\ Len(unread) \in Nat
           /\ \A i \in 1..Len(unread) - 1 : Tail(unread)[i] = unread[i + 1] /\ i + 1 \in 1..Len(unread)
<1>1. unread \in Seq(Packets) /\ Len(unread) \in Nat \ {0}
  BY LenProperties, EmptySeq DEF TypeOK
<1> QED BY <1>1, HeadTailProperties

-----------------------------------------------------------------------------
(***************************************************************************)
(* Counting tickets.                                                       *)
(***************************************************************************)

\* There are not more tickets than _XSeqSyncFunction leaves requests.
LEMMA TicketBound ==
    /\ IsFiniteSet(AllTickets) /\ Cardinality(AllTickets) \in Nat
    /\ Cardinality(AllTickets) <= BufsizeReqs + 1
<1>1. IsFiniteSet(1..CallRequests + 1) /\ Cardinality(1..CallRequests + 1) = CallRequests + 1
  BY Sizes, FS_Interval
<1>2. /\ IsFiniteSet(AllTickets)
      /\ Cardinality(AllTickets) = Cardinality(Threads) * Cardinality(1..CallRequests + 1)
  BY <1>1, Sizes, FS_Product DEF AllTickets
<1>3. Cardinality(AllTickets) = Cardinality(Threads) * (CallRequests + 1)
  BY <1>1, <1>2
<1>4. Cardinality(AllTickets) \in Nat
  BY <1>2, FS_CardinalityType
<1> QED BY <1>2, <1>3, <1>4, RoomAssumption

\* Sets of tickets are finite.
LEMMA TicketSets ==
    ASSUME NEW A \in SUBSET AllTickets
    PROVE  /\ IsFiniteSet(A) /\ Cardinality(A) \in Nat /\ Cardinality(A) <= BufsizeReqs + 1
           /\ \A B \in SUBSET A : Cardinality(B) \in Nat /\ Cardinality(B) <= Cardinality(A)
           /\ \A k \in A : Cardinality(A \ {k}) = Cardinality(A) - 1
<1>1. IsFiniteSet(A) /\ Cardinality(A) \in Nat /\ Cardinality(A) <= Cardinality(AllTickets)
  BY TicketBound, FS_Subset, FS_CardinalityType
<1>2. \A B \in SUBSET A : Cardinality(B) \in Nat /\ Cardinality(B) <= Cardinality(A)
  BY <1>1, FS_Subset, FS_CardinalityType
<1>3. \A k \in A : Cardinality(A \ {k}) = Cardinality(A) - 1
  BY <1>1, FS_RemoveElement
<1> QED BY <1>1, <1>2, <1>3, TicketBound, Sizes

\* The sets that are counted.
LEMMA LiveFinite ==
    /\ Live \in SUBSET AllTickets /\ Cardinality(Live) \in Nat
    /\ \A r : LiveAfter(r) \in SUBSET AllTickets /\ Cardinality(LiveAfter(r)) \in Nat
<1>1. Live \in SUBSET AllTickets /\ \A r : LiveAfter(r) \in SUBSET AllTickets
  BY DEF Live, LiveAfter, Tickets
<1> QED BY <1>1, TicketSets

-----------------------------------------------------------------------------
(***************************************************************************)
(* What reading a packet and waiting for one do to the numbers.            *)
(***************************************************************************)

\* While the numbers are close, every packet gets the number it has.
LEMMA PacketNumbers ==
    ASSUME TypeOK, PacketsInOrder, SpanBelowModulus, NEW i \in 1..Len(unread)
    PROVE  /\ Widen(last_request_read, unread[i].seq % Modulus32) = unread[i].seq
           /\ NewSeq(last_request_read, request, unread[i].seq % Modulus16) = unread[i].seq
<1> DEFINE s == unread[i].seq
<1>1. /\ s \in Nat /\ last_request_read \in Nat /\ request \in Nat
      /\ last_request_read <= s /\ s <= request
  <2>1. unread[i] \in Packets
    BY DEF TypeOK
  <2> QED BY <2>1 DEF TypeOK, PacketsInOrder, Packets
<1>2. request < last_request_read + Modulus16
  BY <1>1, Sizes DEF SpanBelowModulus
<1>3. Modulus16 <= Modulus32 \div 2
  BY Sizes, SpanAssumption
<1>4. s < last_request_read + Modulus32 \div 2
  BY <1>1, <1>2, <1>3, Sizes
<1> HIDE DEF s
<1>5. Widen(last_request_read, s % Modulus32) = s
  BY <1>1, <1>4, WidenIsTrue
<1>6. NewSeq(last_request_read, request, s % Modulus16) = s
  BY <1>1, <1>2, NewSeqIsTrue
<1> QED BY <1>5, <1>6 DEF s

\* The room left says that the numbers are close.
LEMMA SpanFollows == Inv => SpanBelowModulus
<1> SUFFICES ASSUME Inv PROVE SpanBelowModulus
  OBVIOUS
<1>1. request \in Nat /\ last_request_read \in Nat
  BY DEF Inv, TypeOK
<1>2. CASE lock_fns
  <2>1. Cardinality(Live) \in Nat
    BY LiveFinite
  <2> QED BY <1>1, <1>2, <2>1, Sizes DEF Inv, SpanRoom, SpanBelowModulus
<1>3. CASE ~lock_fns
  <2>1. local[MainThread].left \in Nat
    BY Sizes DEF Inv, TypeOK, Locals
  <2> QED BY <1>1, <1>3, <2>1, Sizes DEF Inv, AloneRoom, SpanBelowModulus
<1> QED BY <1>2, <1>3

\* The first packet is not newer than what any thread waits for.
LEMMA HeadNotAhead ==
    ASSUME Inv, unread # <<>>, NEW t \in Threads, Waits(t)
    PROVE  Head(unread).seq <= local[t].req
<1>1. /\ Head(unread) = unread[1] /\ 1 \in 1..Len(unread)
      /\ \A i \in 1..Len(unread) : unread[i].seq \in Nat
      /\ served \in Nat /\ local[t].req \in Nat
  <2>1. \A i \in 1..Len(unread) : unread[i] \in Packets
    BY DEF Inv, TypeOK
  <2> QED BY <2>1, UnreadHead DEF Inv, TypeOK, Packets, Locals
<1>2. CASE served <= local[t].req
  BY <1>1, <1>2 DEF Inv, PacketsInOrder
<1>3. CASE \E i \in 1..Len(unread) : unread[i] = ReplyTo(t)
  <2>1. PICK i \in 1..Len(unread) : unread[i].seq = local[t].req
    BY <1>3 DEF ReplyTo
  <2>2. i = 1 \/ (1 < i /\ unread[1].seq <= unread[i].seq)
    BY <1>1 DEF Inv, PacketsInOrder
  <2> QED BY <1>1, <2>1, <2>2
<1> QED BY <1>2, <1>3 DEF Inv, RepliesInOrder

-----------------------------------------------------------------------------
(***************************************************************************)
(* What a step leaves alone.                                               *)
(***************************************************************************)

\* A step of one thread leaves the others where they are.
LEMMA OthersKeep ==
    ASSUME TypeOK, NEW t \in Threads, Thread(t), NEW u \in Threads, u # t
    PROVE  pc'[u] = pc[u] /\ local'[u] = local[u] /\ lock_fns' = lock_fns
<1>1. pc \in [Threads -> Labels] /\ local \in [Threads -> Locals]
  BY DEF TypeOK
<1>2. CASE LockDisplay(t) \/ IDHandler(t) \/ GenerateId(t) \/ Relock(t)
  BY <1>1, <1>2 DEF LockDisplay, IDHandler, GenerateId, Relock, Goto
<1>3. CASE SeqSync(t) \/ SyncLock(t) \/ UnlockDisplay(t) \/ SyncHandle(t)
  BY <1>1, <1>3 DEF SeqSync, SyncLock, UnlockDisplay, SyncHandle, Goto, Return
<1>4. CASE GetRequest(t) \/ AllocID(t) \/ SetAfterFunction(t) \/ EndCall(t)
  BY <1>1, <1>4 DEF GetRequest, AllocID, SetAfterFunction, EndCall, Goto, Return
<1>5. CASE ReadEvent(t) \/ GotReply(t)
  BY <1>1, <1>5 DEF ReadEvent, GotReply, Goto
<1> QED BY <1>2, <1>3, <1>4, <1>5 DEF Thread

-----------------------------------------------------------------------------
(***************************************************************************)
(* The after functions.                                                    *)
(***************************************************************************)

HandlerInv ==
    /\ AfterFunctionKept /\ PrivateAlone
    /\ synchandler \in Functions \cup {"priv"} /\ savedsynchandler \in Functions
    /\ priv_sync \in BOOLEAN /\ after \in Functions

\* Each step keeps the application's function, and installs the private one
\* only without threads.
LEMMA HandlersStep == Inv /\ [Next]_vars => HandlerInv' /\ lock_fns' = lock_fns
<1> SUFFICES ASSUME Inv, [Next]_vars PROVE HandlerInv' /\ lock_fns' = lock_fns
  OBVIOUS
<1>0. /\ TypeOK /\ AfterFunctionKept /\ PrivateAlone
      /\ synchandler \in Functions \cup {"priv"} /\ savedsynchandler \in Functions
      /\ priv_sync \in BOOLEAN /\ after \in Functions /\ "priv" \notin Functions
  BY DEF Inv, TypeOK, Functions
<1>1. ASSUME UNCHANGED <<handlerVars, after, lock_fns>>
      PROVE  HandlerInv'
  BY <1>0, <1>1 DEF HandlerInv, handlerVars, AfterFunctionKept, PrivateAlone
<1>2. ASSUME UNCHANGED handlerVars \/ SetPrivSyncFunction, UNCHANGED <<after, lock_fns>>
      PROVE  HandlerInv'
  BY <1>0, <1>2, HandlerTypes DEF HandlerInv, AfterFunctionKept, PrivateAlone
<1>3. ASSUME NEW t \in Threads, Thread(t) PROVE HandlerInv' /\ lock_fns' = lock_fns
  <2>1. CASE LockDisplay(t) \/ IDHandler(t) \/ GenerateId(t) \/ Relock(t)
    BY <1>1, <2>1 DEF LockDisplay, IDHandler, GenerateId, Relock
  <2>2. CASE ReadEvent(t) \/ GotReply(t) \/ SyncLock(t) \/ UnlockDisplay(t)
    BY <1>1, <2>2 DEF ReadEvent, GotReply, SyncLock, UnlockDisplay
  <2>3. CASE SeqSync(t)
    <3>1. (UNCHANGED handlerVars \/ SetPrivSyncFunction) /\ UNCHANGED <<after, lock_fns>>
      BY <2>3, FlushHandlers DEF SeqSync
    <3> QED BY <1>2, <3>1
  <2>4. CASE GetRequest(t)
    <3>1. (UNCHANGED handlerVars \/ SetPrivSyncFunction) /\ UNCHANGED <<after, lock_fns>>
      BY <2>4, FlushHandlers DEF GetRequest, handlerVars
    <3> QED BY <1>2, <3>1
  <2>5. CASE AllocID(t)
    BY <1>2, <2>5 DEF AllocID
  <2>6. CASE EndCall(t)
    <3>1. (UNCHANGED handlerVars \/ SetPrivSyncFunction) /\ UNCHANGED <<after, lock_fns>>
      BY <2>6, FlushHandlers DEF EndCall
    <3> QED BY <1>2, <3>1
  <2>7. CASE SetAfterFunction(t)
    <3>1. /\ local[t].func \in Functions /\ after' = local[t].func
          /\ SetHandler(local[t].func) /\ lock_fns' = lock_fns
      <4>1. local[t] \in Locals
        BY <1>0 DEF TypeOK
      <4> QED BY <2>7, <4>1 DEF SetAfterFunction, Locals
    <3>2. CASE priv_sync
      BY <1>0, <3>1, <3>2 DEF SetHandler, HandlerInv, AfterFunctionKept, PrivateAlone
    <3>3. CASE ~priv_sync
      <4>1. /\ synchandler' = local[t].func /\ savedsynchandler' = savedsynchandler
            /\ priv_sync' = priv_sync
        BY <3>1, <3>3 DEF SetHandler
      <4> QED BY <1>0, <3>1, <3>3, <4>1 DEF HandlerInv, AfterFunctionKept, PrivateAlone
    <3> QED BY <3>1, <3>2, <3>3
  <2>8. CASE SyncHandle(t)
    <3>1. CASE synchandler = "priv"
      <4>1. /\ synchandler' = savedsynchandler /\ savedsynchandler' = "none" /\ priv_sync' = FALSE
            /\ after' = after /\ lock_fns' = lock_fns
        BY <2>8, <3>1 DEF SyncHandle
      <4>2. savedsynchandler # "priv" /\ after = savedsynchandler /\ "none" \in Functions
        BY <1>0, <3>1 DEF AfterFunctionKept, Functions
      <4> QED BY <1>0, <4>1, <4>2 DEF HandlerInv, AfterFunctionKept, PrivateAlone
    <3>2. CASE synchandler # "priv"
      BY <1>1, <2>8, <3>2 DEF SyncHandle
    <3> QED BY <3>1, <3>2
  <2> QED BY <1>3, <2>1, <2>2, <2>3, <2>4, <2>5, <2>6, <2>7, <2>8 DEF Thread
<1>4. CASE ServerEvent \/ ServerReply
  BY <1>1, <1>4 DEF ServerEvent, ServerReply, ServerSends
<1>5. CASE UNCHANGED vars \/ Stopped
  BY <1>1, <1>5 DEF vars, Stopped
<1> QED BY <1>3, <1>4, <1>5 DEF Next

-----------------------------------------------------------------------------
(***************************************************************************)
(* Where threads go on.                                                    *)
(***************************************************************************)
LEMMA ReturnsStep == Inv /\ [Next]_vars => Returns'
<1> SUFFICES ASSUME Inv, [Next]_vars PROVE Returns'
  OBVIOUS
<1>0. /\ TypeOK /\ Returns /\ pc \in [Threads -> Labels] /\ local \in [Threads -> Locals]
      /\ lock_fns' = lock_fns
  BY HandlersStep DEF Inv, TypeOK
<1>1. ASSUME UNCHANGED <<pc, local>> PROVE Returns'
  BY <1>0, <1>1 DEF Returns
<1>3. ASSUME NEW t \in Threads, Thread(t) PROVE Returns'
  <2>0. ASSUME pc'[t] = "GenerateId" => local'[t].back = "SeqSync",
               lock_fns /\ local'[t].syncing =>
                  \/ pc'[t] \in {"WaitForReply", "SyncLock"}
                  \/ pc'[t] = "SyncHandle" /\ local'[t].back = "Call"
        PROVE  Returns'
    BY <1>0, <1>3, <2>0, OthersKeep DEF Returns
  <2>l. local[t] \in Locals /\ NoCall.syncing = FALSE
    BY <1>0 DEF NoCall
  <2>1. CASE LockDisplay(t)
    <3>1. CASE UNCHANGED <<pc, local>>
      BY <1>1, <3>1
    <3>2. CASE pc'[t] \in {"IDHandler", "Call"} /\ local'[t].syncing = FALSE
      BY <2>0, <3>2
    <3> QED BY <1>0, <2>1, <2>l, <3>1, <3>2 DEF LockDisplay, Goto, At, NoCall
  <2>2. CASE IDHandler(t)
    BY <1>0, <2>0, <2>2, <2>l DEF IDHandler, Goto, Locals, Returns, At
  <2>3. CASE GenerateId(t) \/ GetRequest(t) \/ AllocID(t) \/ ReadEvent(t)
    BY <1>0, <2>0, <2>3, <2>l DEF GenerateId, GetRequest, AllocID, ReadEvent, Goto, At, Returns, Locals
  <2>4. CASE Relock(t)
    <3>1. local[t].back \in {"SeqSync", "Call"}
      BY <2>l DEF Locals
    <3> QED BY <1>0, <2>0, <2>4, <3>1 DEF Relock, Goto, At, Returns
  <2>5. CASE SeqSync(t) \/ SetAfterFunction(t)
    BY <1>0, <2>0, <2>5, <2>l DEF SeqSync, SetAfterFunction, Goto, Return, At, Returns, Locals
  <2>9. CASE SyncHandle(t)
    <3>1. CASE synchandler = "priv"
      <4>1. ~lock_fns
        BY <3>1 DEF Inv, AfterFunctionKept, PrivateAlone
      <4>2. pc'[t] = "SeqSync"
        BY <1>0, <2>9, <3>1 DEF SyncHandle, Goto
      <4> QED BY <2>0, <4>1, <4>2
    <3>2. CASE synchandler # "priv" /\ lock_fns /\ local[t].syncing
      <4>1. local'[t].syncing = FALSE /\ pc'[t] = "Relock"
        BY <1>0, <2>9, <2>l, <3>2 DEF SyncHandle, Goto, Locals
      <4> QED BY <2>0, <4>1
    <3>3. CASE synchandler # "priv" /\ ~(lock_fns /\ local[t].syncing)
      <4>1. local'[t].syncing = FALSE /\ pc'[t] = "Idle"
        BY <1>0, <2>9, <2>l, <3>3 DEF SyncHandle, Return, Goto
      <4> QED BY <2>0, <4>1
    <3> QED BY <3>1, <3>2, <3>3
  <2>10. CASE GotReply(t)
    <3>1. /\ pc'[t] = IF local[t].syncing THEN "SyncLock" ELSE "Unlock"
          /\ local'[t].syncing = local[t].syncing
      BY <1>0, <2>10, <2>l DEF GotReply, Goto, Locals
    <3> QED BY <2>0, <3>1
  <2>6. CASE EndCall(t)
    BY <1>0, <2>0, <2>6, <2>l DEF EndCall, Goto, At, Returns, Locals
  <2>7. CASE UnlockDisplay(t)
    BY <1>0, <2>0, <2>7, <2>l DEF UnlockDisplay, Goto, At, Returns
  <2>8. CASE SyncLock(t)
    BY <1>0, <1>1, <2>0, <2>8, <2>l DEF SyncLock, Goto, Locals, At, Returns
  <2> QED BY <1>3, <2>1, <2>2, <2>3, <2>4, <2>5, <2>6, <2>7, <2>8, <2>9, <2>10 DEF Thread
<1>4. CASE ServerEvent \/ ServerReply
  BY <1>1, <1>4 DEF ServerEvent, ServerReply, ServerSends
<1>5. CASE UNCHANGED vars \/ Stopped
  BY <1>1, <1>5 DEF vars, Stopped
<1> QED BY <1>3, <1>4, <1>5 DEF Next

-----------------------------------------------------------------------------
(***************************************************************************)
(* With threads, one call at a time.                                       *)
(***************************************************************************)
LEMMA CallsAloneStep == Inv /\ [Next]_vars => CallsAlone'
<1> SUFFICES ASSUME Inv, [Next]_vars PROVE CallsAlone'
  OBVIOUS
<1> DEFINE Holding == {"IDHandler", "SeqSync", "Call", "AllocID", "Unlock"}
<1>0. /\ pc \in [Threads -> Labels] /\ lock_fns' = lock_fns /\ in_ifevent = 0
      /\ \A u \in Threads : ~InIfEvent(u)
      /\ lock_fns => \A u \in Threads : pc[u] \in Holding => mutex = u
  BY HandlersStep DEF Inv, TypeOK, CallsAlone, InIfEvent
<1>1. ASSUME UNCHANGED <<pc, mutex, in_ifevent>> PROVE CallsAlone'
  BY <1>0, <1>1 DEF CallsAlone
<1>3. ASSUME NEW t \in Threads, Thread(t) PROVE CallsAlone'
  <2>0. ASSUME lock_fns =>
                 \/ pc'[t] \in Holding /\ mutex' = t /\ (mutex = NoThread \/ mutex = t)
                 \/ pc'[t] \notin Holding /\ (mutex' = mutex \/ mutex = NoThread \/ mutex = t),
               in_ifevent' = in_ifevent
        PROVE  CallsAlone'
    <3>1. \A u \in Threads : u # t => pc'[u] = pc[u]
      BY <1>3, OthersKeep DEF Inv
    <3>2. \A u \in Threads : u # NoThread
      BY NoThreadAssumption
    <3> QED BY <1>0, <2>0, <3>1, <3>2 DEF CallsAlone
  <2>1. CASE LockDisplay(t)
    <3>1. CASE Lock(t, FALSE) /\ Goto(t, IF lock_fns THEN "IDHandler" ELSE "Call")
      BY <1>0, <2>0, <2>1, <3>1 DEF LockDisplay, Lock, Acquired, Goto, ifeventVars
    <3>2. CASE MustWait(t) /\ UNCHANGED pc
      BY <1>0, <2>0, <2>1, <3>2 DEF LockDisplay, MustWait, ConditionWait, At, ifeventVars
    <3> QED BY <2>1, <3>1, <3>2 DEF LockDisplay
  <2>2. CASE IDHandler(t)
    BY <1>0, <2>0, <2>2 DEF IDHandler, Unlock, Released, Goto, At, ifeventVars
  <2>3. CASE GenerateId(t)
    BY <1>0, <2>0, <2>3 DEF GenerateId, Goto, lockVars
  <2>4. CASE Relock(t)
    BY <1>0, <2>0, <2>4 DEF Relock, Lock, Acquired, Goto, ifeventVars
  <2>5. CASE SeqSync(t)
    BY <1>0, <2>0, <2>5 DEF SeqSync, Unlock, Released, Goto, Return, At, ifeventVars
  <2>6. CASE GetRequest(t)
    BY <1>0, <2>0, <2>6 DEF GetRequest, Goto, At, lockVars
  <2>7. CASE AllocID(t)
    BY <1>0, <2>0, <2>7 DEF AllocID, Goto, At, lockVars
  <2>8. CASE SetAfterFunction(t)
    BY <1>0, <2>0, <2>8 DEF SetAfterFunction, Unlock, Released, Return, Goto, At, ifeventVars
  <2>9. CASE EndCall(t)
    BY <1>0, <2>0, <2>9 DEF EndCall, Unlock, Released, Goto, At, ifeventVars
  <2>10. CASE ReadEvent(t)
    BY <1>0, <2>0, <2>10 DEF ReadEvent, At, lockVars
  <2>11. CASE GotReply(t)
    BY <1>0, <2>0, <2>11 DEF GotReply, Lock, Acquired, Goto, ifeventVars
  <2>12. CASE SyncLock(t)
    BY <1>0, <2>0, <2>12 DEF SyncLock, ConditionWait, Wakeup, Released, Goto, At, lockVars, ifeventVars
  <2>13. CASE UnlockDisplay(t)
    BY <1>0, <2>0, <2>13 DEF UnlockDisplay, Unlock, Released, Goto, At, ifeventVars
  <2>14. CASE SyncHandle(t)
    <3>1. lock_fns => pc'[t] \notin Holding
      <4>1. lock_fns => synchandler # "priv"
        BY DEF Inv, AfterFunctionKept, PrivateAlone
      <4> QED BY <1>0, <2>14, <4>1 DEF SyncHandle, Goto, Return
    <3> QED BY <2>0, <2>14, <3>1 DEF SyncHandle, lockVars
  <2> QED BY <1>3, <2>1, <2>2, <2>3, <2>4, <2>5, <2>6, <2>7, <2>8, <2>9, <2>10, <2>11, <2>12,
            <2>13, <2>14 DEF Thread
<1>4. CASE ServerEvent \/ ServerReply
  BY <1>1, <1>4 DEF ServerEvent, ServerReply, ServerSends, lockVars
<1>5. CASE UNCHANGED vars \/ Stopped
  BY <1>1, <1>5 DEF vars, Stopped, lockVars
<1> QED BY <1>3, <1>4, <1>5 DEF Next

-----------------------------------------------------------------------------
(***************************************************************************)
(* Requests are made and flushed; a thread waits for the reply to the last *)
(* of them.                                                                *)
(***************************************************************************)
StaysWaiting(t) == Waits(t) /\ Waits(t)' /\ local'[t] = local[t] /\ request' = request

StartsToWait(t) ==
    /\ ~Waits(t) /\ Waits(t)'
    /\ local'[t].req = request' /\ last_flushed' = request'
    /\ local'[t].reply = local[t].reply /\ local'[t].left = local[t].left
    /\ \/ pc[t] = "SeqSync" /\ request' = request + 1 /\ SyncDue
       \/ /\ pc[t] = "Call" /\ request' = request
          /\ local[t].reply /\ local[t].left = 0 /\ local'[t].syncing = local[t].syncing

LEMMA RequestsStep ==
    ASSUME Inv, NEW t \in Threads, Thread(t)
    PROVE  /\ request' \in Nat /\ request <= request'
           /\ last_flushed' \in Nat /\ last_flushed <= last_flushed' /\ last_flushed' <= request'
           /\ ~Waits(t)' \/ StaysWaiting(t) \/ StartsToWait(t)
<1>0. /\ pc \in [Threads -> Labels] /\ local \in [Threads -> Locals] /\ local[t] \in Locals
      /\ request \in Nat /\ last_flushed \in Nat /\ last_flushed <= request
  BY DEF Inv, TypeOK
<1>1. ASSUME UNCHANGED seqVars, ~Waits(t)' \/ (Waits(t) /\ local'[t] = local[t])
      PROVE  /\ request' \in Nat /\ request <= request'
             /\ last_flushed' \in Nat /\ last_flushed <= last_flushed' /\ last_flushed' <= request'
             /\ ~Waits(t)' \/ StaysWaiting(t) \/ StartsToWait(t)
  BY <1>0, <1>1 DEF seqVars, StaysWaiting
<1>2. CASE LockDisplay(t) \/ IDHandler(t) \/ GenerateId(t)
  BY <1>0, <1>1, <1>2 DEF LockDisplay, IDHandler, GenerateId, Goto, Waits, At
<1>3. CASE Relock(t)
  <2>1. local[t].back # "WaitForReply"
    BY <1>0 DEF Locals
  <2> QED BY <1>0, <1>1, <1>3, <2>1 DEF Relock, Goto, Waits, At
<1>4. CASE AllocID(t) \/ SetAfterFunction(t) \/ SyncLock(t) \/ UnlockDisplay(t) \/ SyncHandle(t)
  BY <1>0, <1>1, <1>4 DEF AllocID, SetAfterFunction, SyncLock, UnlockDisplay, SyncHandle, Goto, Return,
       Waits, At
<1>5. CASE ReadEvent(t) \/ GotReply(t)
  BY <1>0, <1>1, <1>5 DEF ReadEvent, GotReply, Goto, Waits, At
<1>6. CASE SeqSync(t) /\ SyncDue
  <2>1. /\ request' = request + 1 /\ last_flushed' = request + 1 /\ pc[t] = "SeqSync"
        /\ pc' = [pc EXCEPT ![t] = "WaitForReply"]
        /\ local' = [local EXCEPT ![t].req = request + 1, ![t].syncing = TRUE]
    BY <1>6 DEF SeqSync, Flush, Goto, At
  <2>2. /\ local'[t].req = request' /\ local'[t].reply = local[t].reply /\ local'[t].left = local[t].left
    BY <1>0, <2>1 DEF Locals
  <2>3. StartsToWait(t)
    BY <1>0, <1>6, <2>1, <2>2 DEF StartsToWait, Waits
  <2> QED BY <1>0, <2>1, <2>3
<1>7. CASE SeqSync(t) /\ ~SyncDue
  BY <1>0, <1>1, <1>7 DEF SeqSync, Goto, Return, Waits, At
<1>8. CASE GetRequest(t)
  <2>1. ~Waits(t)'
    BY <1>0, <1>8 DEF GetRequest, Goto, Waits, At
  <2>2. CASE BufferFull
    BY <1>0, <1>8, <2>1, <2>2 DEF GetRequest, Flush
  <2>3. CASE ~BufferFull
    BY <1>0, <1>8, <2>1, <2>3 DEF GetRequest
  <2> QED BY <2>2, <2>3
<1>9. CASE EndCall(t) /\ local[t].reply
  <2>1. /\ request' = request /\ last_flushed' = request /\ pc[t] = "Call" /\ local[t].left = 0
        /\ pc' = [pc EXCEPT ![t] = "WaitForReply"]
        /\ local' = [local EXCEPT ![t].req = request]
    BY <1>9 DEF EndCall, Flush, Goto, At
  <2>2. /\ local'[t].req = request' /\ local'[t].reply = local[t].reply /\ local'[t].left = local[t].left
        /\ local'[t].syncing = local[t].syncing
    BY <1>0, <2>1 DEF Locals
  <2>3. StartsToWait(t)
    BY <1>0, <1>9, <2>1, <2>2 DEF StartsToWait, Waits
  <2> QED BY <1>0, <2>1, <2>3
<1>10. CASE EndCall(t) /\ ~local[t].reply
  BY <1>0, <1>1, <1>10 DEF EndCall, Goto, Waits, At
<1> QED BY <1>2, <1>3, <1>4, <1>5, <1>6, <1>7, <1>8, <1>9, <1>10 DEF Thread

\* Two threads never wait for the same reply.
LEMMA RepliesApartStep == Inv /\ [Next]_vars => RepliesApart'
<1> SUFFICES ASSUME Inv, [Next]_vars, lock_fns PROVE RepliesApart'
  BY HandlersStep DEF RepliesApart
<1> DEFINE Early == {"IDHandler", "GenerateId", "Relock", "SeqSync"}
<1>0. /\ pc \in [Threads -> Labels] /\ local \in [Threads -> Locals] /\ lock_fns' = lock_fns
      /\ RepliesApart /\ CallsAlone /\ request \in Nat /\ last_flushed \in 0..request
  BY HandlersStep DEF Inv, TypeOK
<1>w. ASSUME NEW u \in Threads, Waits(u) PROVE local[u].req \in Nat /\ local[u].req <= last_flushed
  <2>1. last_request_read \in Nat /\ last_flushed \in Nat
    BY DEF Inv, TypeOK
  <2> QED BY <1>w, <2>1 DEF Inv, RepliesInOrder
<1>1. ASSUME UNCHANGED <<pc, local, request>> PROVE RepliesApart'
  BY <1>0, <1>1 DEF RepliesApart, Waits
<1>3. ASSUME NEW t \in Threads, Thread(t) PROVE RepliesApart'
  <2>1. \A u \in Threads : u # t => pc'[u] = pc[u] /\ local'[u] = local[u]
    BY <1>3, OthersKeep DEF Inv
  <2>2. /\ request' \in Nat /\ request <= request'
        /\ ~Waits(t)' \/ StaysWaiting(t) \/ StartsToWait(t)
    BY <1>3, RequestsStep
  <2>l. local[t] \in Locals /\ NoCall.reply = FALSE /\ NoCall.syncing = FALSE
    BY <1>0 DEF NoCall
  <2>n. ~Waits(t)' => ~StartsToWait(t) /\ ~StaysWaiting(t)
    BY DEF StartsToWait, StaysWaiting
  <2>o. /\ local[t].reply /\ (local[t].syncing \/ pc[t] \in Early) => local[t].left > 0
        /\ local[t].syncing => pc[t] \in {"WaitForReply", "SyncLock", "SyncHandle"}
    BY <1>0 DEF RepliesApart, Inv, Returns
  <2>3. /\ local'[t].reply /\ (local'[t].syncing \/ pc'[t] \in Early) => local'[t].left > 0
        /\ pc'[t] \in {"Call", "AllocID"} /\ local'[t].reply /\ local'[t].left = 0
             => \/ request' = request /\ pc[t] \in {"Call", "AllocID"}
                    /\ local[t].reply /\ local[t].left = 0
                \/ request' = request + 1
    <3>1. CASE LockDisplay(t)
      <4>1. CASE UNCHANGED <<pc, local>>
        BY <2>o, <3>1, <4>1 DEF LockDisplay, At
      <4>2. ASSUME NEW n \in 0..CallRequests, NEW alloc \in BOOLEAN, NEW reply \in BOOLEAN,
                   NEW f \in Functions \cup {"keep"}, reply => n > 0,
                   local' = [local EXCEPT ![t] =
                      [NoCall EXCEPT !.left = n, !.alloc = alloc, !.reply = reply, !.func = f]]
            PROVE  local'[t].reply => local'[t].left > 0
        BY <1>0, <4>2, Sizes DEF NoCall
      <4>3. ~UNCHANGED <<pc, local>> => (local'[t].reply => local'[t].left > 0)
        BY <3>1, <4>2 DEF LockDisplay
      <4> QED BY <4>1, <4>3, Sizes
    <3>2. CASE IDHandler(t) \/ GenerateId(t)
      BY <1>0, <2>l, <2>o, <3>2 DEF IDHandler, GenerateId, Goto, At, Locals
    <3>3. CASE Relock(t)
      BY <1>0, <2>l, <2>o, <3>3 DEF Relock, Goto, At, Locals
    <3>4. CASE SeqSync(t) /\ SyncDue
      BY <1>0, <2>l, <2>o, <3>4 DEF SeqSync, Goto, At, Locals
    <3>5. CASE SeqSync(t) /\ ~SyncDue
      BY <1>0, <2>l, <2>o, <3>5 DEF SeqSync, Goto, At, Locals
    <3>6. CASE GetRequest(t) /\ BufferFull
      BY <1>0, <2>l, <2>o, <3>6 DEF GetRequest, At, Flush
    <3>7. CASE GetRequest(t) /\ ~BufferFull
      BY <1>0, <2>l, <2>o, <3>7 DEF GetRequest, Goto, At, Locals
    <3>8. CASE AllocID(t)
      BY <1>0, <2>l, <2>o, <3>8 DEF AllocID, Goto, At, Locals, seqVars
    <3>9. CASE SetAfterFunction(t)
      BY <1>0, <2>l, <3>9 DEF SetAfterFunction, Return, Goto
    <3>10. CASE EndCall(t)
      BY <1>0, <2>l, <2>o, <3>10 DEF EndCall, Goto, At, Locals
    <3>11. CASE ReadEvent(t)
      BY <2>o, <3>11 DEF ReadEvent, At
    <3>12. CASE GotReply(t)
      BY <1>0, <2>l, <2>o, <3>12 DEF GotReply, Goto, At, Locals
    <3>13. CASE SyncLock(t)
      BY <1>0, <2>l, <2>o, <3>13 DEF SyncLock, Goto, At, Locals
    <3>14. CASE UnlockDisplay(t)
      BY <1>0, <2>l, <2>o, <3>14 DEF UnlockDisplay, Goto, At, Locals
    <3>15. CASE SyncHandle(t)
      <4>1. synchandler # "priv"
        BY DEF Inv, AfterFunctionKept, PrivateAlone
      <4>2. CASE local[t].syncing
        BY <1>0, <2>l, <2>o, <3>15, <4>1, <4>2 DEF SyncHandle, Goto, At, Locals
      <4>3. CASE ~local[t].syncing
        BY <1>0, <2>l, <3>15, <4>1, <4>3 DEF SyncHandle, Return, Goto
      <4> QED BY <4>2, <4>3
    <3> QED BY <1>3, <3>1, <3>2, <3>3, <3>4, <3>5, <3>6, <3>7, <3>8, <3>9, <3>10, <3>11, <3>12,
              <3>13, <3>14, <3>15 DEF Thread
  <2>4. ASSUME NEW u \in Threads, NEW v \in Threads, pc'[u] \in {"Call", "AllocID"},
               local'[u].reply, local'[u].left = 0, Waits(v)'
        PROVE  local'[v].req < request'
    <3>1. ~Waits(u)' /\ u # v
      BY <2>4 DEF Waits
    <3>2. CASE u = t
      <4>1. Waits(v) /\ local'[v] = local[v]
        BY <2>1, <2>4, <3>1, <3>2 DEF Waits
      <4>2. CASE request' = request + 1
        BY <1>0, <1>w, <4>1, <4>2
      <4>3. CASE request' = request /\ pc[t] \in {"Call", "AllocID"} /\ local[t].reply /\ local[t].left = 0
        BY <1>0, <4>1, <4>3 DEF RepliesApart
      <4> QED BY <2>3, <2>4, <3>2, <4>2, <4>3
    <3>3. CASE u # t
      <4>0. pc[u] \in {"Call", "AllocID"} /\ local[u].reply /\ local[u].left = 0 /\ mutex = u
        BY <1>0, <2>1, <2>4, <3>3 DEF CallsAlone
      <4>1. \A w \in Threads : Waits(w) => local[w].req < request
        BY <1>0, <4>0 DEF RepliesApart
      <4>2. ~StartsToWait(t)
        BY <1>0, <3>3, <4>0 DEF CallsAlone, StartsToWait
      <4>3. Waits(v) /\ local'[v] = local[v]
        BY <2>1, <2>2, <2>4, <4>2 DEF Waits, StaysWaiting
      <4> QED BY <1>0, <1>w, <2>2, <4>1, <4>3
    <3> QED BY <3>2, <3>3
  <2>5. ASSUME NEW u \in Threads, NEW v \in Threads, u # v, Waits(u)', Waits(v)'
        PROVE  local'[u].req # local'[v].req
    <3>1. ASSUME NEW w \in Threads, w # t, Waits(t)', Waits(w)' PROVE local'[w].req # local'[t].req
      <4>1. Waits(w) /\ local'[w] = local[w]
        BY <2>1, <3>1 DEF Waits
      <4>2. CASE StaysWaiting(t)
        BY <1>0, <3>1, <4>1, <4>2 DEF RepliesApart, StaysWaiting
      <4>3. CASE StartsToWait(t)
        <5>1. local[w].req < request'
          BY <1>0, <1>w, <4>1, <4>3 DEF StartsToWait, RepliesApart
        <5> QED BY <1>w, <2>2, <4>1, <4>3, <5>1 DEF StartsToWait
      <4> QED BY <2>2, <3>1, <4>2, <4>3
    <3>2. CASE u = t \/ v = t
      BY <2>5, <3>1, <3>2
    <3>3. CASE u # t /\ v # t
      BY <1>0, <2>1, <2>5, <3>3 DEF RepliesApart, Waits
    <3> QED BY <3>2, <3>3
  <2>6. ASSUME NEW u \in Threads, local'[u].reply, local'[u].syncing \/ pc'[u] \in Early
        PROVE  local'[u].left > 0
    BY <1>0, <2>1, <2>3, <2>6 DEF RepliesApart
  <2> QED BY <1>0, <2>4, <2>5, <2>6 DEF RepliesApart
<1>4. CASE ServerEvent \/ ServerReply
  BY <1>1, <1>4 DEF ServerEvent, ServerReply, ServerSends, seqVars
<1>5. CASE UNCHANGED vars \/ Stopped
  BY <1>1, <1>5 DEF vars, Stopped, seqVars
<1> QED BY <1>3, <1>4, <1>5 DEF Next

-----------------------------------------------------------------------------
(***************************************************************************)
(* Packets and replies stay in order.                                      *)
(***************************************************************************)
Ordered ==
    /\ PacketsInOrder /\ RepliesInOrder
    /\ unread \in Seq(Packets)
    /\ request \in Nat /\ last_request_read \in 0..request
    /\ last_flushed \in 0..request /\ served \in 0..last_flushed

\* The numbers in the packets.
LEMMA PacketTypes ==
    ASSUME Inv
    PROVE  /\ Len(unread) \in Nat /\ unread \in Seq(Packets)
           /\ \A i \in 1..Len(unread) : unread[i] \in Packets /\ unread[i].seq \in Nat
           /\ request \in Nat /\ last_flushed \in Nat /\ last_flushed <= request
           /\ served \in Nat /\ served <= last_flushed
           /\ last_request_read \in Nat /\ last_request_read <= served
           /\ \A t \in Threads : local[t].req \in Nat
<1>1. unread \in Seq(Packets) /\ Len(unread) \in Nat
  BY LenProperties DEF Inv, TypeOK
<1>2. ASSUME NEW i \in 1..Len(unread) PROVE unread[i] \in Packets /\ unread[i].seq \in Nat
  <2>1. unread[i] \in Packets
    BY <1>1
  <2> QED BY <2>1 DEF Packets
<1>3. \A t \in Threads : local[t].req \in Nat
  BY DEF Inv, TypeOK, Locals
<1> QED BY <1>1, <1>2, <1>3 DEF Inv, TypeOK, PacketsInOrder

\* Steps that read nothing.
LEMMA NothingRead ==
    ASSUME Inv, NEW t \in Threads, Thread(t),
           UNCHANGED <<last_request_read, unread, served>>
    PROVE  Ordered'
<1>0. /\ request' \in Nat /\ request <= request'
      /\ last_flushed' \in Nat /\ last_flushed <= last_flushed' /\ last_flushed' <= request'
      /\ ~Waits(t)' \/ StaysWaiting(t) \/ StartsToWait(t)
  BY RequestsStep
<1>1. PacketsInOrder'
  BY DEF Inv, PacketsInOrder
<1>2. ASSUME NEW u \in Threads, Waits(u), Waits(u)', local'[u] = local[u]
      PROVE  /\ local'[u].req \in last_request_read'..last_flushed'
             /\ served' <= local'[u].req \/ \E i \in 1..Len(unread') : unread'[i] = ReplyTo(u)'
  <2>1. local[u].req \in last_request_read..last_flushed
    BY <1>2 DEF Inv, RepliesInOrder
  <2>2. served <= local[u].req \/ \E i \in 1..Len(unread) : unread[i] = ReplyTo(u)
    BY <1>2 DEF Inv, RepliesInOrder
  <2>3. ReplyTo(u)' = ReplyTo(u)
    BY <1>2 DEF ReplyTo
  <2> QED BY <1>0, <1>2, <2>1, <2>2, <2>3, PacketTypes
<1>3. ASSUME NEW u \in Threads, Waits(u)'
      PROVE  /\ local'[u].req \in last_request_read'..last_flushed'
             /\ served' <= local'[u].req \/ \E i \in 1..Len(unread') : unread'[i] = ReplyTo(u)'
  <2>1. CASE u # t
    <3>1. Waits(u) /\ local'[u] = local[u]
      BY <1>3, <2>1, OthersKeep DEF Inv, Waits
    <3> QED BY <1>2, <1>3, <3>1
  <2>2. CASE u = t /\ StaysWaiting(t)
    BY <1>2, <1>3, <2>2 DEF StaysWaiting
  <2>3. CASE u = t /\ StartsToWait(t)
    BY <1>0, <2>3, PacketTypes DEF StartsToWait
  <2> QED BY <1>0, <1>3, <2>1, <2>2, <2>3
<1>4. RepliesInOrder'
  BY <1>3 DEF RepliesInOrder
<1> QED BY <1>0, <1>1, <1>4, PacketTypes DEF Ordered

\* The first packet is read.
LEMMA HeadRead ==
    ASSUME Inv, unread # <<>>, unread' = Tail(unread), last_request_read' = Head(unread).seq,
           UNCHANGED <<served, request, last_flushed>>,
           \A u \in Threads : Waits(u)' => Waits(u) /\ local'[u] = local[u] /\ ReplyTo(u) # Head(unread)
    PROVE  Ordered' /\ last_request_read <= last_request_read'
<1>1. /\ Head(unread) = unread[1] /\ 1 \in 1..Len(unread) /\ unread' \in Seq(Packets)
      /\ Len(unread') = Len(unread) - 1
      /\ \A i \in 1..Len(unread) - 1 : unread'[i] = unread[i + 1] /\ i + 1 \in 1..Len(unread)
  BY UnreadHead DEF Inv
<1>2. /\ last_request_read' \in Nat /\ last_request_read <= last_request_read'
      /\ last_request_read' <= served
  BY <1>1, PacketTypes DEF Inv, PacketsInOrder
<1>3. ASSUME NEW i \in 1..Len(unread')
      PROVE  unread'[i].seq \in last_request_read'..served'
  <2>1. i + 1 \in 1..Len(unread) /\ unread'[i] = unread[i + 1] /\ 1 < i + 1
    BY <1>1, PacketTypes
  <2>2. unread[1].seq <= unread[i + 1].seq /\ unread[i + 1].seq <= served
    BY <1>1, <2>1, PacketTypes DEF Inv, PacketsInOrder
  <2> QED BY <1>1, <2>1, <2>2, PacketTypes
<1>4. ASSUME NEW i \in 1..Len(unread'), NEW j \in 1..Len(unread'), i < j
      PROVE  unread'[i].seq <= unread'[j].seq
  <2>1. /\ i + 1 \in 1..Len(unread) /\ unread'[i] = unread[i + 1]
        /\ j + 1 \in 1..Len(unread) /\ unread'[j] = unread[j + 1]
    BY <1>1, PacketTypes
  <2>2. i + 1 < j + 1
    BY <1>4, PacketTypes
  <2> QED BY <2>1, <2>2 DEF Inv, PacketsInOrder
<1>5. ASSUME NEW u \in Threads, Waits(u)'
      PROVE  /\ local'[u].req \in last_request_read'..last_flushed'
             /\ served' <= local'[u].req \/ \E i \in 1..Len(unread') : unread'[i] = ReplyTo(u)'
  <2>1. Waits(u) /\ local'[u] = local[u] /\ ReplyTo(u) # unread[1] /\ ReplyTo(u)' = ReplyTo(u)
    BY <1>1, <1>5 DEF ReplyTo
  <2>2. local[u].req \in last_request_read..last_flushed /\ last_request_read' <= local[u].req
    BY <2>1, HeadNotAhead DEF Inv, RepliesInOrder
  <2>3. local'[u].req \in last_request_read'..last_flushed'
    BY <1>2, <2>1, <2>2, PacketTypes
  <2>4. ASSUME NEW i \in 1..Len(unread), unread[i] = ReplyTo(u)
        PROVE  i - 1 \in 1..Len(unread') /\ unread'[i - 1] = ReplyTo(u)'
    <3>1. i # 1
      BY <2>1, <2>4
    <3>2. i - 1 \in 1..Len(unread) - 1 /\ (i - 1) + 1 = i
      BY <3>1, PacketTypes
    <3>3. unread'[i - 1] = unread[(i - 1) + 1]
      BY <1>1, <3>2
    <3>4. unread'[i - 1] = unread[i]
      BY <3>2, <3>3
    <3> QED BY <1>1, <2>1, <2>4, <3>2, <3>4
  <2>5. served <= local[u].req \/ \E i \in 1..Len(unread) : unread[i] = ReplyTo(u)
    BY <2>1 DEF Inv, RepliesInOrder
  <2>6. served' <= local'[u].req \/ \E i \in 1..Len(unread') : unread'[i] = ReplyTo(u)'
    BY <2>1, <2>4, <2>5
  <2> QED BY <2>3, <2>6
<1>6. PacketsInOrder' /\ RepliesInOrder'
  BY <1>2, <1>3, <1>4, <1>5 DEF PacketsInOrder, RepliesInOrder
<1> QED BY <1>1, <1>2, <1>6, PacketTypes DEF Ordered

\* A packet is sent, of a request not older than the last one's, and not newer
\* than what a thread waits for.
LEMMA PacketSent ==
    ASSUME Inv, NEW p \in Packets, ServerSends(p), served <= p.seq, p.seq <= last_flushed,
           \A u \in Threads : AwaitsReply(u) => p.seq <= local[u].req
    PROVE  Ordered'
<1>1. /\ unread' = Append(unread, p) /\ served' = p.seq /\ p.seq \in Nat
      /\ UNCHANGED <<request, last_flushed, last_request_read, pc, local>>
  BY DEF ServerSends, seqVars, Packets
<1>2. /\ unread' \in Seq(Packets) /\ Len(unread') = Len(unread) + 1
      /\ \A i \in 1..Len(unread) : unread'[i] = unread[i]
      /\ unread'[Len(unread) + 1] = p
  BY <1>1, PacketTypes, AppendProperties
<1>3. ASSUME NEW i \in 1..Len(unread')
      PROVE  unread'[i].seq \in last_request_read'..served'
  BY <1>1, <1>2, PacketTypes DEF Inv, PacketsInOrder
<1>4. ASSUME NEW i \in 1..Len(unread'), NEW j \in 1..Len(unread'), i < j
      PROVE  unread'[i].seq <= unread'[j].seq
  <2>1. i \in 1..Len(unread) /\ unread'[i] = unread[i]
    BY <1>2, <1>4, PacketTypes
  <2>2. CASE j = Len(unread) + 1
    <3>1. unread[i].seq <= served
      BY <2>1, PacketTypes DEF Inv, PacketsInOrder
    <3>2. unread'[j] = p
      BY <1>2, <2>2
    <3> QED BY <1>1, <2>1, <3>1, <3>2, PacketTypes
  <2>3. CASE j # Len(unread) + 1
    <3>1. j \in 1..Len(unread) /\ unread'[j] = unread[j]
      BY <1>2, <2>3, PacketTypes
    <3> QED BY <1>4, <2>1, <3>1 DEF Inv, PacketsInOrder
  <2> QED BY <2>2, <2>3
<1>5. ASSUME NEW u \in Threads, Waits(u)'
      PROVE  /\ local'[u].req \in last_request_read'..last_flushed'
             /\ served' <= local'[u].req \/ \E i \in 1..Len(unread') : unread'[i] = ReplyTo(u)'
  <2>1. Waits(u) /\ local'[u] = local[u] /\ ReplyTo(u)' = ReplyTo(u)
    BY <1>1, <1>5 DEF Waits, ReplyTo
  <2>2. local[u].req \in last_request_read..last_flushed
    BY <2>1 DEF Inv, RepliesInOrder
  <2>3. CASE AwaitsReply(u)
    BY <1>1, <2>1, <2>2, <2>3
  <2>4. CASE ~AwaitsReply(u)
    <3>1. PICK i \in 1..Len(unread) : unread[i] = ReplyTo(u)
      BY <2>1, <2>4 DEF AwaitsReply, Waits
    <3>2. i \in 1..Len(unread') /\ unread'[i] = ReplyTo(u)'
      BY <1>2, <2>1, <3>1, PacketTypes
    <3> QED BY <1>1, <2>1, <2>2, <3>2
  <2> QED BY <2>3, <2>4
<1>6. PacketsInOrder'
  <2>1. last_request_read' <= served'
    BY <1>1, PacketTypes
  <2> QED BY <1>3, <1>4, <2>1 DEF PacketsInOrder
<1>7. RepliesInOrder'
  BY <1>5 DEF RepliesInOrder
<1> QED BY <1>1, <1>2, <1>6, <1>7, PacketTypes DEF Ordered

LEMMA OrderedStep == Inv /\ [Next]_vars => Ordered' /\ last_request_read <= last_request_read'
<1> SUFFICES ASSUME Inv, [Next]_vars PROVE Ordered' /\ last_request_read <= last_request_read'
  OBVIOUS
<1>1. ASSUME NEW t \in Threads, Thread(t)
      PROVE  Ordered' /\ last_request_read <= last_request_read'
  <2>1. CASE ReadEvent(t)
    <3>1. unread # <<>> /\ ~Head(unread).reply /\ unread' = Tail(unread)
          /\ UNCHANGED <<served, request, last_flushed, pc, local>>
          /\ last_request_read' = NewSeq(Widen(last_request_read, Head(unread).seq % Modulus32), request,
                                         Head(unread).seq % Modulus16)
      BY <2>1 DEF ReadEvent, seqVars
    <3>2. 1 \in 1..Len(unread) /\ Head(unread) = unread[1] /\ SpanBelowModulus
      BY <3>1, UnreadHead, SpanFollows DEF Inv
    <3>3. Widen(last_request_read, Head(unread).seq % Modulus32) = Head(unread).seq
      BY <3>2, PacketNumbers DEF Inv
    <3>4. NewSeq(Head(unread).seq, request, Head(unread).seq % Modulus16) = Head(unread).seq
      <4>1. /\ Head(unread).seq \in Nat /\ Head(unread).seq <= request
            /\ last_request_read <= Head(unread).seq
        BY <3>2, PacketTypes DEF Inv, PacketsInOrder
      <4>2. request < Head(unread).seq + Modulus16
        BY <3>2, <4>1, PacketTypes, Sizes DEF SpanBelowModulus
      <4> QED BY <4>1, <4>2, NewSeqIsTrue, PacketTypes
    <3>5. \A u \in Threads : Waits(u)' => Waits(u) /\ local'[u] = local[u] /\ ReplyTo(u) # Head(unread)
      BY <3>1 DEF Waits, ReplyTo
    <3> QED BY <3>1, <3>3, <3>4, <3>5, HeadRead
  <2>2. CASE GotReply(t)
    <3>1. /\ unread # <<>> /\ Head(unread) = ReplyTo(t) /\ unread' = Tail(unread) /\ Waits(t)
          /\ UNCHANGED <<served, request, last_flushed>>
          /\ last_request_read' = Head(unread).seq
      BY <2>2 DEF GotReply, seqVars, Waits, At, ReplyTo
    <3>2. ~Waits(t)'
      BY <2>2 DEF GotReply, Waits, Goto, Inv, TypeOK
    <3>3. ASSUME NEW u \in Threads, Waits(u)'
          PROVE  Waits(u) /\ local'[u] = local[u] /\ ReplyTo(u) # Head(unread)
      <4>1. u # t /\ Waits(u) /\ local'[u] = local[u]
        BY <1>1, <3>2, <3>3, OthersKeep DEF Inv, Waits
      <4>2. CASE lock_fns
        BY <3>1, <4>1, <4>2 DEF Inv, RepliesApart, ReplyTo
      <4>3. CASE ~lock_fns
        BY <3>1, <4>1, <4>3 DEF Inv, AloneRoom, Waits
      <4> QED BY <4>1, <4>2, <4>3
    <3> QED BY <3>1, <3>3, HeadRead
  <2>3. UNCHANGED <<last_request_read, unread, served>> \/ ReadEvent(t) \/ GotReply(t)
    BY <1>1 DEF Thread, LockDisplay, IDHandler, GenerateId, Relock, SeqSync, GetRequest, AllocID,
       SetAfterFunction, EndCall, SyncLock, UnlockDisplay, SyncHandle, serverVars
  <2> QED BY <1>1, <2>1, <2>2, <2>3, NothingRead, PacketTypes
<1>2. CASE ServerEvent
  <2>1. PICK s \in served..last_flushed :
            /\ \A t \in Threads : AwaitsReply(t) => s <= local[t].req
            /\ ServerSends([seq |-> s, reply |-> FALSE])
    BY <1>2 DEF ServerEvent
  <2>2. [seq |-> s, reply |-> FALSE] \in Packets /\ s \in Nat
    BY PacketTypes DEF Packets
  <2> QED BY <2>1, <2>2, PacketSent, PacketTypes DEF ServerSends
<1>3. CASE ServerReply
  <2>1. PICK t \in Threads :
            /\ AwaitsReply(t)
            /\ \A u \in Threads : AwaitsReply(u) => local[u].req >= local[t].req
            /\ ServerSends(ReplyTo(t))
    BY <1>3 DEF ServerReply
  <2>2. ReplyTo(t) \in Packets /\ ReplyTo(t).seq = local[t].req
    BY PacketTypes DEF ReplyTo, Packets
  <2>3. served <= local[t].req /\ local[t].req <= last_flushed
    <3>1. Waits(t) /\ ~ \E i \in 1..Len(unread) : unread[i] = ReplyTo(t)
      BY <2>1 DEF AwaitsReply, Waits
    <3>2. served <= local[t].req /\ local[t].req \in last_request_read..last_flushed
      BY <3>1 DEF Inv, RepliesInOrder
    <3> QED BY <3>2, PacketTypes
  <2> QED BY <2>1, <2>2, <2>3, PacketSent, PacketTypes DEF ServerSends
<1>4. CASE UNCHANGED vars \/ Stopped
  <2>1. UNCHANGED <<unread, served, request, last_flushed, last_request_read, pc, local>>
    BY <1>4 DEF vars, Stopped, seqVars, serverVars
  <2> QED BY <2>1, PacketTypes DEF Inv, TypeOK, Ordered, PacketsInOrder, RepliesInOrder, Waits, ReplyTo
<1> QED BY <1>1, <1>2, <1>3, <1>4 DEF Next

-----------------------------------------------------------------------------
(***************************************************************************)
(* With threads: room for all that may be requested.                       *)
(***************************************************************************)

\* Taking tickets away.
LEMMA TicketSpent ==
    ASSUME NEW A \in SUBSET AllTickets, NEW B \in SUBSET AllTickets
    PROVE  /\ Cardinality(A) \in Nat /\ Cardinality(B) \in Nat
           /\ B \subseteq A => Cardinality(B) <= Cardinality(A)
           /\ \A k \in A : B \subseteq A \ {k} => Cardinality(B) + 1 <= Cardinality(A)
<1>1. Cardinality(A) \in Nat /\ Cardinality(B) \in Nat
  BY TicketSets
<1>2. B \subseteq A => Cardinality(B) <= Cardinality(A)
  BY TicketSets
<1>3. ASSUME NEW k \in A, B \subseteq A \ {k} PROVE Cardinality(B) + 1 <= Cardinality(A)
  <2>1. Cardinality(A \ {k}) = Cardinality(A) - 1 /\ A \ {k} \in SUBSET AllTickets
    BY TicketSets
  <2>2. Cardinality(B) <= Cardinality(A \ {k})
    BY <1>3, <2>1, TicketSets
  <2> QED BY <1>1, <2>1, <2>2
<1> QED BY <1>1, <1>2, <1>3

\* Tickets are of the threads, and there are at least as many requests left.
LEMMA MayMakeTypes ==
    ASSUME Inv, NEW t \in Threads
    PROVE  /\ MayMake(t) \in Nat /\ <<t, MayMake(t)>> \in Tickets
           /\ local[t].left \in Nat /\ local[t].left <= CallRequests /\ local[t].req \in Nat
<1>1. local[t].left \in 0..CallRequests /\ local[t].req \in Nat
  BY DEF Inv, TypeOK, Locals
<1>2. MayMake(t) \in 1..CallRequests + 1
  BY <1>1, Sizes DEF MayMake
<1> QED BY <1>1, <1>2, Sizes DEF Tickets, AllTickets

\* What is left of the tickets after a step that does not add any, and may
\* take the last of the thread's.
LEMMA TicketsShrink ==
    ASSUME Inv, NEW t \in Threads, Thread(t), MayMake(t)' \in Int, MayMake(t)' <= MayMake(t)
    PROVE  /\ Tickets' \subseteq Tickets
           /\ MayMake(t)' < MayMake(t) => Tickets' \subseteq Tickets \ {<<t, MayMake(t)>>}
<1>0. MayMake(t) \in Nat
  BY ONLY Inv, t \in Threads, MayMakeTypes
<1>1. ASSUME NEW k \in Tickets'
      PROVE  k \in Tickets /\ (MayMake(t)' < MayMake(t) => k # <<t, MayMake(t)>>)
  <2>1. k \in AllTickets /\ k[2] <= MayMake(k[1])'
    BY <1>1 DEF Tickets, AllTickets
  <2>2. k[1] \in Threads /\ k[2] \in Nat
    BY <2>1, Sizes DEF AllTickets
  <2>3. CASE k[1] = t
    <3>1. k[2] <= MayMake(t)'
      BY <2>1, <2>3 DEF MayMake, Unchecked
    <3> QED BY <1>0, <2>1, <2>2, <2>3, <3>1 DEF Tickets
  <2>4. CASE k[1] # t
    <3>1. MayMake(k[1])' = MayMake(k[1])
      BY <2>2, <2>4, OthersKeep DEF Inv, MayMake, Unchecked
    <3> QED BY <2>1, <2>4, <3>1 DEF Tickets
  <2> QED BY <2>3, <2>4
<1> QED BY <1>1

\* A step that makes no request, or makes one for a ticket.
LEMMA RoomKept ==
    ASSUME Inv, lock_fns, NEW t \in Threads, Thread(t), UNCHANGED last_request_read,
           Waits(t) => Waits(t)',
           \/ request' = request /\ MayMake(t)' \in Int /\ MayMake(t)' <= MayMake(t)
           \/ /\ request' = request + 1 /\ ~Waits(t)
              /\ \/ MayMake(t)' \in Int /\ MayMake(t)' < MayMake(t)
                 \/ Waits(t)'
    PROVE  SpanRoom' /\ ReplyRoom'
<1> DEFINE k == <<t, MayMake(t)>>
<1>0. /\ request \in Nat /\ last_request_read \in Nat /\ request' \in Nat
      /\ ~Waits(t)' \/ StaysWaiting(t) \/ StartsToWait(t)
      /\ \A u \in Threads : u # t => Waits(u)' = Waits(u) /\ local'[u] = local[u]
      /\ \A u \in Threads : Waits(u) => local[u].req \in Nat /\ local[u].req <= request
      /\ k \in Tickets /\ MayMake(t) \in Int /\ lock_fns' = lock_fns
  <2>1. \A u \in Threads : Waits(u) => local[u].req \in Nat /\ local[u].req <= request
    BY PacketTypes DEF Inv, RepliesInOrder
  <2>2. ~Waits(t)' \/ StaysWaiting(t) \/ StartsToWait(t)
    BY RequestsStep
  <2>3. /\ request \in Nat /\ last_request_read \in Nat /\ request' \in Nat
        /\ k \in Tickets /\ MayMake(t) \in Int
    BY RequestsStep, PacketTypes, MayMakeTypes, Sizes
  <2>4. ASSUME NEW u \in Threads, u # t
        PROVE  pc'[u] = pc[u] /\ local'[u] = local[u] /\ lock_fns' = lock_fns
    BY <2>4, OthersKeep DEF Inv
  <2>5. lock_fns' = lock_fns
    BY HandlersStep DEF Next
  <2>6. \A u \in Threads : u # t => Waits(u)' = Waits(u) /\ local'[u] = local[u]
    BY <2>4 DEF Waits
  <2> QED BY <2>1, <2>2, <2>3, <2>5, <2>6
<1>1. \A j \in Tickets' : j \in AllTickets /\ j[1] \in Threads
  BY DEF Tickets, AllTickets
<1>2. \A j \in Tickets' : j[1] # t => j \in Tickets /\ j # k
  <2> SUFFICES ASSUME NEW j \in Tickets', j[1] # t PROVE j \in Tickets /\ j # k
    OBVIOUS
  <2>1. MayMake(j[1])' = MayMake(j[1])
    BY <1>1, OthersKeep DEF Inv, MayMake, Unchecked
  <2> QED BY <1>1, <2>1 DEF Tickets
<1>3. \/ request' = request /\ Tickets' \subseteq Tickets
      \/ request' = request + 1 /\ ~Waits(t) /\ (Tickets' \subseteq Tickets \ {k} \/ Waits(t)')
  BY <1>0, TicketsShrink
<1>4. SpanRoom'
  <2>1. Live \in SUBSET AllTickets /\ Live' \in SUBSET AllTickets
    BY DEF Live, Tickets
  <2>2. \A j \in Live' : ~Waits(j[1]) /\ j \in Tickets' /\ (j[1] = t => ~Waits(t)')
    BY <1>0, <1>1 DEF Live
  <2>3. \/ request' = request /\ Live' \subseteq Live
        \/ request' = request + 1 /\ k \in Live /\ Live' \subseteq Live \ {k}
    <3>1. CASE request' = request /\ Tickets' \subseteq Tickets
      BY <2>2, <3>1 DEF Live
    <3>2. CASE request' = request + 1 /\ ~Waits(t)
      <4>1. k \in Live
        BY <1>0, <3>2 DEF Live
      <4>2. ASSUME NEW j \in Live' PROVE j \in Live \ {k}
        <5>1. CASE j[1] # t
          BY <1>2, <2>2, <5>1 DEF Live
        <5>2. CASE j[1] = t
          BY <1>0, <1>3, <2>2, <3>2, <5>2 DEF Live
        <5> QED BY <5>1, <5>2
      <4> QED BY <3>2, <4>1, <4>2
    <3> QED BY <1>3, <3>1, <3>2
  <2>4. request - last_request_read + Cardinality(Live) < Modulus16
    BY DEF Inv, SpanRoom
  <2>5. request' - last_request_read + Cardinality(Live') < Modulus16
    <3>1. /\ Cardinality(Live) \in Nat /\ Cardinality(Live') \in Nat
          /\ Live' \subseteq Live => Cardinality(Live') <= Cardinality(Live)
          /\ k \in Live /\ Live' \subseteq Live \ {k} => Cardinality(Live') + 1 <= Cardinality(Live)
      BY <2>1, TicketSpent
    <3> QED BY <1>0, <2>3, <2>4, <3>1, Sizes
  <2> QED BY <2>5 DEF SpanRoom
<1>5. ASSUME NEW u \in Threads, Waits(u)'
      PROVE  request' - local'[u].req + Cardinality(LiveAfter(local[u].req)') < Modulus16
  <2>0. /\ LiveAfter(local[u].req)' \in SUBSET AllTickets
        /\ LiveAfter(local[u].req) \in SUBSET AllTickets
    BY DEF LiveAfter, Tickets
  <2>1. CASE u = t /\ StartsToWait(t)
    <3>1. local'[u].req = request'
      BY <2>1 DEF StartsToWait
    <3>2. Cardinality(LiveAfter(local[u].req)') \in Nat
          /\ Cardinality(LiveAfter(local[u].req)') <= BufsizeReqs + 1
      BY <2>0, TicketSets
    <3> QED BY <1>0, <3>1, <3>2, Sizes
  <2>2. CASE Waits(u) /\ local'[u] = local[u] /\ (u = t => StaysWaiting(t))
    <3> DEFINE A == LiveAfter(local[u].req)
               B == LiveAfter(local[u].req)'
    <3>1. \A j \in B : /\ j \in Tickets'
                       /\ Waits(j[1])' => local'[j[1]].req <= local[u].req
      BY <2>2 DEF LiveAfter, Waits
    <3>2. ASSUME NEW j \in B, j[1] # t PROVE j \in A \ {k}
      BY <1>0, <1>1, <1>2, <3>1, <3>2 DEF LiveAfter
    <3>3. \/ request' = request /\ B \subseteq A
          \/ request' = request + 1 /\ k \in A /\ B \subseteq A \ {k}
      <4>1. CASE request' = request /\ Tickets' \subseteq Tickets
        <5>1. ASSUME NEW j \in B, j[1] = t PROVE j \in A
          <6>1. CASE Waits(t)
            BY <1>0, <3>1, <4>1, <5>1, <6>1 DEF StartsToWait, StaysWaiting, LiveAfter
          <6>2. CASE ~Waits(t)
            BY <3>1, <4>1, <5>1, <6>2 DEF LiveAfter
          <6> QED BY <6>1, <6>2
        <5> QED BY <3>2, <4>1, <5>1
      <4>2. CASE request' = request + 1 /\ ~Waits(t)
        <5>1. k \in A
          BY <1>0, <4>2 DEF LiveAfter
        <5>2. ASSUME NEW j \in B, j[1] = t PROVE j \in A \ {k}
          <6>1. CASE Waits(t)'
            <7>1. local'[t].req = request + 1
              BY <1>0, <4>2, <6>1 DEF StartsToWait, StaysWaiting
            <7>2. local'[t].req <= local[u].req
              BY <3>1, <5>2, <6>1
            <7> QED BY <1>0, <2>2, <7>1, <7>2
          <6>2. CASE Tickets' \subseteq Tickets \ {k}
            BY <3>1, <4>2, <5>2, <6>2 DEF LiveAfter
          <6> QED BY <1>0, <1>3, <4>2, <6>1, <6>2
        <5> QED BY <3>2, <4>2, <5>1, <5>2
      <4> QED BY <1>3, <4>1, <4>2
    <3>4. request - local[u].req + Cardinality(A) < Modulus16
      BY <2>2 DEF Inv, ReplyRoom
    <3>5. local[u].req \in Nat
      BY <1>0, <2>2
    <3> HIDE DEF A, B
    <3>6. A \in SUBSET AllTickets /\ B \in SUBSET AllTickets
      BY <2>0 DEF A, B
    <3>7. request' - local[u].req + Cardinality(B) < Modulus16
      <4>1. /\ Cardinality(A) \in Nat /\ Cardinality(B) \in Nat
            /\ B \subseteq A => Cardinality(B) <= Cardinality(A)
            /\ k \in A /\ B \subseteq A \ {k} => Cardinality(B) + 1 <= Cardinality(A)
        BY <3>6, TicketSpent
      <4> QED BY <1>0, <3>3, <3>4, <3>5, <4>1, Sizes
    <3> QED BY <2>2, <3>7 DEF B
  <2> QED BY <1>0, <1>5, <2>1, <2>2 DEF StaysWaiting
<1>6. ReplyRoom'
  BY <1>5 DEF ReplyRoom
<1> QED BY <1>4, <1>6

\* With threads, whether a thread has still to pass the test changes only in
\* _XSeqSyncFunction and at the end of a call.
LEMMA MayMakeStep ==
    ASSUME Inv, lock_fns, NEW t \in Threads, Thread(t)
    PROVE  \/ request' = request /\ MayMake(t)' \in Int /\ MayMake(t)' <= MayMake(t)
           \/ request' = request + 1 /\ ~Waits(t) /\ (Waits(t)' \/ (MayMake(t)' \in Int /\ MayMake(t)' < MayMake(t)))
           \/ SeqSync(t) /\ ~SyncDue
<1> DEFINE Early == {"Idle", "IDHandler", "GenerateId", "SeqSync"}
<1>0. /\ pc \in [Threads -> Labels] /\ local \in [Threads -> Locals] /\ local[t] \in Locals
      /\ local[t].left \in Nat /\ request \in Nat
      /\ pc[t] = "GenerateId" => local[t].back = "SeqSync"
      /\ pc[t] = "SyncHandle" /\ local[t].syncing => local[t].back = "Call"
      /\ synchandler # "priv"
  <2>1. synchandler # "priv"
    BY DEF Inv, AfterFunctionKept, PrivateAlone
  <2> QED BY <2>1, MayMakeTypes DEF Inv, TypeOK, Returns
<1>1. ASSUME request' = request,
             \/ Unchecked(t)'
             \/ ~Unchecked(t) /\ ~Unchecked(t)' /\ local'[t].left = local[t].left
      PROVE  request' = request /\ MayMake(t)' \in Int /\ MayMake(t)' <= MayMake(t)
  <2>1. CASE Unchecked(t)'
    BY <1>0, <1>1, <2>1 DEF MayMake
  <2>2. CASE ~Unchecked(t) /\ ~Unchecked(t)' /\ local'[t].left = local[t].left
    BY <1>0, <1>1, <2>2 DEF MayMake
  <2> QED BY <1>1, <2>1, <2>2
<1>2. CASE LockDisplay(t)
  BY <1>0, <1>1, <1>2 DEF LockDisplay, Goto, At, Unchecked, seqVars
<1>3. CASE IDHandler(t)
  BY <1>0, <1>1, <1>3 DEF IDHandler, Goto, At, Unchecked, seqVars
<1>4. CASE GenerateId(t)
  BY <1>0, <1>1, <1>4 DEF GenerateId, Goto, At, Unchecked, seqVars
<1>5. CASE Relock(t)
  <2>1. local[t].back \in {"SeqSync", "Call"}
    BY <1>0 DEF Locals
  <2> QED BY <1>0, <1>1, <1>5, <2>1 DEF Relock, Goto, At, Unchecked, seqVars
<1>6. CASE SeqSync(t) /\ SyncDue
  BY <1>0, <1>6 DEF SeqSync, Flush, Goto, At, Waits
<1>7. CASE GetRequest(t) /\ BufferFull
  BY <1>0, <1>1, <1>7 DEF GetRequest, Flush, At, Unchecked
<1>8. CASE GetRequest(t) /\ ~BufferFull
  <2>1. /\ request' = request + 1 /\ pc[t] = "Call" /\ pc'[t] \in {"AllocID", "Call"}
        /\ local'[t].left = local[t].left - 1
    BY <1>0, <1>8 DEF GetRequest, Goto, At, Locals
  <2>2. MayMake(t) = local[t].left + 1 /\ MayMake(t)' = local'[t].left + 1
    BY <2>1 DEF MayMake, Unchecked
  <2> QED BY <1>0, <2>1, <2>2 DEF Waits
<1>9. CASE AllocID(t)
  BY <1>0, <1>1, <1>9 DEF AllocID, Goto, At, Unchecked, seqVars, Locals
<1>10. CASE SetAfterFunction(t)
  BY <1>0, <1>1, <1>10 DEF SetAfterFunction, Goto, Return, Unchecked, seqVars
<1>11. CASE EndCall(t)
  <2>1. /\ request' = request /\ pc[t] = "Call" /\ pc'[t] \in {"WaitForReply", "SyncHandle"}
        /\ local'[t].left = local[t].left
    BY <1>0, <1>11 DEF EndCall, Flush, Goto, At, Locals, seqVars
  <2> QED BY <1>1, <2>1 DEF Unchecked
<1>12. CASE ReadEvent(t)
  BY <1>0, <1>1, <1>12 DEF ReadEvent, At, Unchecked, seqVars
<1>13. CASE GotReply(t)
  <2>1. /\ request' = request /\ pc[t] = "WaitForReply" /\ pc'[t] \in {"SyncLock", "Unlock"}
        /\ local'[t].left = local[t].left
    BY <1>0, <1>13 DEF GotReply, Goto, At, Locals, seqVars
  <2> QED BY <1>1, <2>1 DEF Unchecked
<1>14. CASE SyncLock(t)
  BY <1>0, <1>1, <1>14 DEF SyncLock, Goto, At, Unchecked, seqVars, Locals
<1>15. CASE UnlockDisplay(t)
  BY <1>0, <1>1, <1>15 DEF UnlockDisplay, Goto, At, Unchecked, seqVars
<1>16. CASE SyncHandle(t) /\ local[t].syncing
  <2>1. /\ request' = request /\ pc[t] = "SyncHandle" /\ pc'[t] = "Relock"
        /\ local'[t].left = local[t].left /\ local'[t].back = "Call"
    BY <1>0, <1>16 DEF SyncHandle, Goto, At, Locals, seqVars
  <2> QED BY <1>1, <2>1 DEF Unchecked
<1>17. CASE SyncHandle(t) /\ ~local[t].syncing
  BY <1>0, <1>1, <1>17 DEF SyncHandle, Goto, Return, Unchecked, seqVars
<1>18. CASE SeqSync(t) /\ ~SyncDue
  BY <1>18
<1> QED BY <1>2, <1>3, <1>4, <1>5, <1>6, <1>7, <1>8, <1>9, <1>10, <1>11, <1>12, <1>13, <1>14, <1>15,
          <1>16, <1>17, <1>18 DEF Thread

\* The sets that are counted, after a step.
LEMMA LiveNext ==
    /\ Live' \in SUBSET AllTickets /\ Cardinality(Live') \in Nat
    /\ Cardinality(Live') <= BufsizeReqs + 1
    /\ \A t \in Threads :
          LET A == LiveAfter(local[t].req)'
          IN  /\ A \in SUBSET AllTickets /\ Cardinality(A) \in Nat
              /\ Cardinality(A) <= BufsizeReqs + 1
<1>1. Live' \in SUBSET AllTickets
  BY DEF Live, Tickets
<1>2. \A t \in Threads : LiveAfter(local[t].req)' \in SUBSET AllTickets
  BY DEF LiveAfter, Tickets
<1> QED BY <1>1, <1>2, TicketSets

LEMMA RoomStep == Inv /\ [Next]_vars => SpanRoom' /\ ReplyRoom'
<1> SUFFICES ASSUME Inv, [Next]_vars, lock_fns PROVE SpanRoom' /\ ReplyRoom'
  BY HandlersStep DEF SpanRoom, ReplyRoom
<1>0. /\ request \in Nat /\ last_request_read \in Nat /\ lock_fns' = lock_fns
      /\ last_request_read' \in Nat /\ last_request_read <= last_request_read'
      /\ last_request_read' <= request' /\ request' \in Nat
  <2>1. lock_fns' = lock_fns
    BY HandlersStep
  <2>2. Ordered' /\ last_request_read <= last_request_read'
    BY OrderedStep
  <2>3. request' \in Nat /\ last_request_read' \in 0..request'
    BY <2>2 DEF Ordered
  <2> QED BY <2>1, <2>2, <2>3, PacketTypes
<1>1. ASSUME NEW t \in Threads, Thread(t) PROVE SpanRoom' /\ ReplyRoom'
  <2>0. /\ \A u \in Threads : u # t => Waits(u)' = Waits(u) /\ local'[u] = local[u]
        /\ \A u \in Threads : Waits(u) => /\ local[u].req \in Nat /\ last_request_read <= local[u].req
        /\ \A u \in Threads : local[u].req \in Nat
    <3>1. ASSUME NEW u \in Threads, u # t PROVE Waits(u)' = Waits(u) /\ local'[u] = local[u]
      BY <1>1, <3>1, OthersKeep DEF Inv, Waits
    <3>2. \A u \in Threads : local[u].req \in Nat
      BY PacketTypes
    <3>3. ASSUME NEW u \in Threads, Waits(u) PROVE last_request_read <= local[u].req
      <4>1. local[u].req \in last_request_read..last_flushed
        BY <3>3 DEF Inv, RepliesInOrder
      <4> QED BY <4>1, PacketTypes
    <3> QED BY <3>1, <3>2, <3>3
  <2>1. CASE GotReply(t)
    <3>1. /\ Waits(t) /\ ~Waits(t)' /\ request' = request /\ last_request_read' = local[t].req
          /\ unread # <<>> /\ Head(unread).seq = local[t].req
      BY <2>1 DEF GotReply, Waits, At, Goto, Inv, TypeOK, seqVars, ReplyTo
    <3>2. Tickets' \subseteq Tickets
      <4>1. MayMake(t)' \in Int /\ MayMake(t)' <= MayMake(t)
        BY <1>0, <1>1, <3>1, MayMakeStep DEF SeqSync, At, Waits
      <4> QED BY <1>1, <4>1, TicketsShrink
    <3>3. SpanRoom'
      <4>1. \A j \in Live' : j \in Tickets /\ j[1] \in Threads /\ ~Waits(j[1])'
        BY <3>2 DEF Live, Waits, Tickets, AllTickets
      <4>2. Live' \subseteq LiveAfter(local[t].req)
        <5> SUFFICES ASSUME NEW j \in Live' PROVE j \in LiveAfter(local[t].req)
          OBVIOUS
        <5>1. CASE j[1] = t
          BY <2>0, <4>1, <5>1 DEF LiveAfter
        <5>2. CASE j[1] # t
          <6>1. ~Waits(j[1])
            BY <2>0, <4>1, <5>2
          <6> QED BY <4>1, <6>1 DEF LiveAfter
        <5> QED BY <5>1, <5>2
      <4>3. Cardinality(Live') <= Cardinality(LiveAfter(local[t].req))
        BY <4>2, LiveFinite, LiveNext, TicketSpent
      <4>4. request - local[t].req + Cardinality(LiveAfter(local[t].req)) < Modulus16
        BY <3>1 DEF Inv, ReplyRoom
      <4>5. Cardinality(Live') \in Nat /\ Cardinality(LiveAfter(local[t].req)) \in Nat
        BY LiveFinite, LiveNext
      <4>6. request' - last_request_read' + Cardinality(Live') < Modulus16
        BY <1>0, <2>0, <3>1, <4>3, <4>4, <4>5, Sizes
      <4> QED BY <4>6 DEF SpanRoom
    <3>4. ASSUME NEW u \in Threads, Waits(u)'
          PROVE  request' - local'[u].req + Cardinality(LiveAfter(local[u].req)') < Modulus16
      <4>1. u # t /\ Waits(u) /\ local'[u] = local[u] /\ local[t].req <= local[u].req
        BY <2>0, <3>1, <3>4, HeadNotAhead
      <4> DEFINE A == LiveAfter(local[u].req)
                 B == LiveAfter(local[u].req)'
      <4>2. \A j \in B : /\ j \in Tickets /\ j[1] \in Threads
                         /\ Waits(j[1])' => local'[j[1]].req <= local[u].req
        BY <3>2, <4>1 DEF LiveAfter, Waits, Tickets, AllTickets
      <4>3. B \subseteq A
        <5> SUFFICES ASSUME NEW j \in B PROVE j \in A
          OBVIOUS
        <5>1. CASE j[1] = t
          BY <4>1, <4>2, <5>1 DEF LiveAfter
        <5>2. CASE j[1] # t
          <6>1. Waits(j[1]) => local[j[1]].req <= local[u].req
            BY <2>0, <4>2, <5>2
          <6> QED BY <4>2, <6>1 DEF LiveAfter
        <5> QED BY <5>1, <5>2
      <4>4. request - local[u].req + Cardinality(A) < Modulus16
        BY <4>1 DEF Inv, ReplyRoom
      <4>5. /\ A \in SUBSET AllTickets /\ B \in SUBSET AllTickets
            /\ Cardinality(A) \in Nat /\ Cardinality(B) \in Nat
        BY LiveFinite, LiveNext
      <4> HIDE DEF A, B
      <4>6. Cardinality(B) <= Cardinality(A)
        BY <4>3, <4>5, TicketSpent
      <4>7. request' - local'[u].req + Cardinality(B) < Modulus16
        BY <1>0, <2>0, <3>1, <4>1, <4>4, <4>5, <4>6, Sizes
      <4> QED BY <4>7 DEF B
    <3> QED BY <3>3, <3>4 DEF ReplyRoom
  <2>2. CASE ReadEvent(t)
    <3>1. UNCHANGED <<pc, local, request>>
      BY <2>2 DEF ReadEvent, seqVars
    <3>2. Live' = Live
      BY <3>1 DEF Live, Tickets, MayMake, Unchecked, Waits
    <3>3. ASSUME NEW u \in Threads PROVE LiveAfter(local[u].req)' = LiveAfter(local[u].req)
      BY <3>1 DEF LiveAfter, Tickets, MayMake, Unchecked, Waits
    <3>4. request - last_request_read + Cardinality(Live) < Modulus16
      BY DEF Inv, SpanRoom
    <3>5. request' - last_request_read' + Cardinality(Live') < Modulus16
      BY <1>0, <3>1, <3>2, <3>4, LiveFinite, Sizes
    <3>6. SpanRoom'
      BY <3>5 DEF SpanRoom
    <3>7. ReplyRoom'
      BY <1>0, <3>1, <3>3 DEF Inv, ReplyRoom, Waits
    <3> QED BY <3>6, <3>7
  <2>3. CASE SeqSync(t) /\ ~SyncDue
    <3>1. /\ request' = request /\ last_request_read' = last_request_read
          /\ request - last_request_read < Modulus16 - 1 - BufsizeReqs
          /\ ~Waits(t)'
      <4>1. request - last_request_read < Modulus16 - 1 - BufsizeReqs
        BY <1>0, <2>3, Sizes DEF SyncDue
      <4> QED BY <2>3, <4>1 DEF SeqSync, Goto, Return, Waits, seqVars, Inv, TypeOK
    <3>2. request' - last_request_read' + Cardinality(Live') < Modulus16
      BY <1>0, <3>1, LiveNext, Sizes
    <3>3. ASSUME NEW u \in Threads, Waits(u)'
          PROVE  request' - local'[u].req + Cardinality(LiveAfter(local[u].req)') < Modulus16
      <4>1. u # t /\ Waits(u) /\ local'[u] = local[u] /\ last_request_read <= local[u].req
        BY <2>0, <3>1, <3>3
      <4>2. /\ Cardinality(LiveAfter(local[u].req)') \in Nat
            /\ Cardinality(LiveAfter(local[u].req)') <= BufsizeReqs + 1
        BY LiveNext
      <4> QED BY <1>0, <2>0, <3>1, <4>1, <4>2, Sizes
    <3> QED BY <3>2, <3>3 DEF SpanRoom, ReplyRoom
  <2>4. CASE ~(GotReply(t) \/ ReadEvent(t) \/ (SeqSync(t) /\ ~SyncDue))
    <3>1. UNCHANGED last_request_read /\ ~Waits(t)
      BY <1>1, <2>4 DEF Thread, LockDisplay, IDHandler, GenerateId, Relock, SeqSync, GetRequest, AllocID,
         SetAfterFunction, EndCall, SyncLock, UnlockDisplay, SyncHandle, At, Waits
    <3>2. \/ request' = request /\ MayMake(t)' \in Int /\ MayMake(t)' <= MayMake(t)
          \/ /\ request' = request + 1 /\ ~Waits(t)
             /\ Waits(t)' \/ (MayMake(t)' \in Int /\ MayMake(t)' < MayMake(t))
      BY <1>1, <2>4, MayMakeStep
    <3> QED BY <1>1, <3>1, <3>2, RoomKept
  <2> QED BY <2>1, <2>2, <2>3, <2>4
<1>2. CASE ServerEvent \/ ServerReply \/ UNCHANGED vars \/ Stopped
  <2>1. UNCHANGED <<request, last_request_read, lock_fns, pc, local>>
    BY <1>2 DEF ServerEvent, ServerReply, ServerSends, Stopped, vars, seqVars
  <2>2. Live' = Live
    BY <2>1 DEF Live, Tickets, MayMake, Unchecked, Waits
  <2>3. ASSUME NEW t \in Threads PROVE LiveAfter(local[t].req)' = LiveAfter(local[t].req)
    BY <2>1 DEF LiveAfter, Tickets, MayMake, Unchecked, Waits
  <2>4. SpanRoom'
    BY <2>1, <2>2 DEF Inv, SpanRoom
  <2>5. ReplyRoom'
    BY <2>1, <2>3 DEF Inv, ReplyRoom, Waits
  <2> QED BY <2>4, <2>5
<1> QED BY <1>1, <1>2 DEF Next

-----------------------------------------------------------------------------
(***************************************************************************)
(* Without threads: room for a call, because either its end has the test   *)
(* or the last flush left enough.                                          *)
(***************************************************************************)

\* When a call begins, its requests and one for the round trip have room.
LEMMA AloneSpan ==
    ASSUME Inv, ~lock_fns, pc[MainThread] = "Idle"
    PROVE  request - last_request_read + CallRequests + 1 < Modulus16
<1>0. /\ request \in Nat /\ last_request_read \in Nat /\ last_flushed \in Nat
      /\ last_request_read <= last_flushed
      /\ CallRequests \in Nat /\ BufsizeReqs \in Nat /\ BufferReqs \in Nat /\ Margin \in Nat
      /\ Modulus16 \in Nat
  BY PacketTypes, Sizes
<1>1. CallRequests <= BufsizeReqs
  <2>1. Cardinality(Threads) \in Nat /\ Cardinality(Threads) # 0
    BY Sizes, FS_EmptySet, FS_CardinalityType
  <2>2. CallRequests + 1 <= Cardinality(Threads) * (CallRequests + 1)
    <3> DEFINE n == Cardinality(Threads)
               k == CallRequests + 1
    <3>1. n \in Nat /\ n >= 1 /\ k \in Nat
      BY <1>0, <2>1
    <3> HIDE DEF n, k
    <3>2. n * k = k + (n - 1) * k
      BY <3>1
    <3>3. (n - 1) * k >= 0
      BY <3>1
    <3>4. k <= n * k
      BY <3>1, <3>2, <3>3
    <3> QED BY <3>4 DEF n, k
  <2>3. Cardinality(Threads) * (CallRequests + 1) \in Int
    BY <1>0, <2>1
  <2> QED BY <1>0, <2>2, <2>3, RoomAssumption
<1>2. CASE priv_sync
  <2>1. request - last_request_read < Modulus16 - 1 - BufsizeReqs
    BY <1>2 DEF Inv, AloneRoom
  <2> QED BY <1>0, <1>1, <2>1
<1>3. CASE ~priv_sync
  <2>1. last_flushed - last_request_read < Hazard /\ request - last_flushed <= BufferReqs
    BY <1>3 DEF Inv, AloneRoom
  <2>2. BufferReqs < Modulus16 - 1 - Margin /\ Hazard = Modulus16 - 1 - BufferReqs - Margin
    <3>1. Hazard > 0
      BY <1>0, <2>1 DEF Hazard, MinOf
    <3> QED BY <1>0, <3>1 DEF Hazard, MinOf
  <2> QED BY <1>0, <2>1, <2>2, SpanAssumption
<1> QED BY <1>2, <1>3

\* A flush either finds room for another buffer or installs the private function.
LEMMA FlushRoom ==
    ASSUME Inv, ~lock_fns, NEW made \in Nat,
           IF SyncHazard(made) THEN SetPrivSyncFunction ELSE UNCHANGED handlerVars
    PROVE  priv_sync' \/ made - last_request_read < Hazard
<1>1. CASE SyncHazard(made)
  BY <1>1 DEF SetPrivSyncFunction, handlerVars, Inv, TypeOK
<1>2. CASE ~SyncHazard(made)
  BY <1>2, PacketTypes, Sizes DEF SyncHazard, Hazard, MinOf
<1> QED BY <1>1, <1>2

\* Reading brings the numbers closer together.
LEMMA LaterRead ==
    ASSUME NEW made \in Int, NEW read \in Int, NEW later \in Int, NEW room \in Int,
           read <= later, made - read < room
    PROVE  made - later < room
OBVIOUS

LEMMA AloneStep == Inv /\ [Next]_vars => AloneRoom'
<1> SUFFICES ASSUME Inv, [Next]_vars, ~lock_fns PROVE AloneRoom'
  BY HandlersStep DEF AloneRoom
<1> DEFINE m == MainThread
           Rest == \A t \in Threads : t # m => pc[t] = "Idle"
           Room == request - last_request_read + local[m].left + (IF Waits(m) THEN 0 ELSE 1) < Modulus16
           Early == request - last_request_read < Modulus16 - 1 - BufsizeReqs
<1>0. /\ pc \in [Threads -> Labels] /\ local \in [Threads -> Locals] /\ local[m] \in Locals
      /\ m \in Threads /\ lock_fns' = lock_fns /\ local[m].left \in Nat
      /\ request \in Nat /\ last_flushed \in Nat /\ last_request_read \in Nat
      /\ last_flushed <= request /\ last_request_read <= last_flushed
      /\ NoCall.left = 0 /\ NoCall.func = "keep"
  <2>1. m \in Threads
    BY Sizes
  <2>2. pc \in [Threads -> Labels] /\ local \in [Threads -> Locals]
    BY DEF Inv, TypeOK
  <2>3. local[m].left \in Nat
    BY <2>1, MayMakeTypes
  <2>4. lock_fns' = lock_fns
    BY HandlersStep
  <2> QED BY <2>1, <2>2, <2>3, <2>4, PacketTypes DEF NoCall
<1>z. /\ Modulus16 \in Nat /\ BufsizeReqs \in Nat /\ BufferReqs \in Nat \ {0} /\ CallRequests \in Nat
      /\ BufsizeReqs + 1 < Modulus16 /\ Hazard \in Int
  BY Sizes DEF Hazard, MinOf
<1>a. /\ Rest
      /\ pc[m] \in {"Idle", "Call", "AllocID", "WaitForReply", "Unlock",
                    "SyncLock", "SyncHandle", "SeqSync"}
      /\ pc[m] \notin {"Call", "AllocID"} => local[m].left = 0
      /\ request - last_flushed <= BufferReqs
      /\ pc[m] # "SeqSync" /\ ~priv_sync => last_flushed - last_request_read < Hazard
      /\ local[m].func # "keep" => pc[m] = "Call" /\ local[m].left = 0
      /\ (pc[m] = "Idle" \/ local[m].func # "keep") /\ priv_sync => Early
      /\ Waits(m) => local[m].req = request
      /\ Room
  BY DEF Inv, AloneRoom
<1>b. ASSUME NEW t \in Threads, Thread(t) PROVE t = m /\ Rest'
  <2>1. t = m
    <3>1. t # m => pc[t] = "Idle"
      BY <1>a
    <3> QED BY <1>b, <3>1 DEF Thread, LockDisplay, IDHandler, GenerateId, Relock, SeqSync, GetRequest,
         AllocID, SetAfterFunction, EndCall, ReadEvent, GotReply, SyncLock, UnlockDisplay, SyncHandle, At
  <2>2. \A u \in Threads : u # m => pc'[u] = pc[u]
    BY <1>b, <2>1, OthersKeep DEF Inv
  <2> QED BY <1>a, <2>1, <2>2
<1>1. CASE Thread(m)
  <2>r. Rest'
    BY <1>0, <1>1, <1>b
  <2>0. ASSUME /\ pc'[m] \in {"Idle", "Call", "AllocID", "WaitForReply", "Unlock",
                            "SyncLock", "SyncHandle", "SeqSync"}
               /\ pc'[m] \notin {"Call", "AllocID"} => local'[m].left = 0
               /\ request' - last_flushed' <= BufferReqs
               /\ pc'[m] # "SeqSync" /\ ~priv_sync' => last_flushed' - last_request_read' < Hazard
               /\ local'[m].func # "keep" => pc'[m] = "Call" /\ local'[m].left = 0
               /\ (pc'[m] = "Idle" \/ local'[m].func # "keep") /\ priv_sync' => Early'
               /\ Waits(m)' => local'[m].req = request'
               /\ Room'
        PROVE  AloneRoom'
    BY <2>r, <2>0 DEF AloneRoom, Hazard
  <2> HIDE DEF Rest
  <2>1. CASE LockDisplay(m)
    <3>1. /\ pc[m] = "Idle" /\ pc'[m] = "Call"
          /\ UNCHANGED <<request, last_flushed, last_request_read, priv_sync>>
      BY <1>0, <2>1 DEF LockDisplay, At, Goto, seqVars, handlerVars
    <3>2. /\ local'[m].left \in 0..CallRequests
          /\ local'[m].func # "keep" => local'[m].left = 0
      <4>1. ASSUME NEW n \in 0..CallRequests, NEW alloc \in BOOLEAN, NEW reply \in BOOLEAN,
                   NEW f \in Functions \cup {"keep"}, n = 0 <=> f # "keep",
                   local' = [local EXCEPT ![m] =
                      [NoCall EXCEPT !.left = n, !.alloc = alloc, !.reply = reply, !.func = f]]
            PROVE  /\ local'[m].left \in 0..CallRequests
                   /\ local'[m].func # "keep" => local'[m].left = 0
        BY <1>0, <4>1 DEF NoCall
      <4> QED BY <2>1, <4>1 DEF LockDisplay
    <3>3. request - last_request_read + CallRequests + 1 < Modulus16
      BY <3>1, AloneSpan
    <3>4. ~Waits(m)' /\ Room'
      BY <1>0, <1>z, <3>1, <3>2, <3>3 DEF Waits
    <3>5. (local'[m].func # "keep") /\ priv_sync' => Early'
      BY <1>a, <3>1
    <3> QED BY <1>a, <2>0, <3>1, <3>2, <3>4, <3>5
  <2>2. CASE IDHandler(m) \/ GenerateId(m) \/ Relock(m)
    BY <1>a, <2>2 DEF IDHandler, GenerateId, Relock, At
  <2>3. CASE SeqSync(m) /\ SyncDue
    <3>1. /\ pc[m] = "SeqSync" /\ pc'[m] = "WaitForReply"
          /\ request' = request + 1 /\ last_flushed' = request + 1
          /\ last_request_read' = last_request_read
          /\ local'[m].req = request + 1 /\ local'[m].left = local[m].left /\ local'[m].func = local[m].func
      BY <1>0, <2>3 DEF SeqSync, Flush, At, Goto, Locals
    <3>2. priv_sync' \/ request + 1 - last_request_read < Hazard
      BY <1>0, <2>3, FlushRoom DEF SeqSync, Flush
    <3>3. Waits(m)' /\ ~Waits(m)
      BY <3>1 DEF Waits
    <3>4. local[m].left = 0 /\ local[m].func = "keep" /\ Room'
      BY <1>0, <1>a, <1>z, <3>1, <3>3
    <3> QED BY <1>0, <1>z, <2>0, <3>1, <3>2, <3>3, <3>4
  <2>4. CASE SeqSync(m) /\ ~SyncDue
    <3>1. /\ pc[m] = "SeqSync" /\ pc'[m] = "Idle" /\ local'[m].left = 0 /\ local'[m].func = "keep"
          /\ UNCHANGED <<request, last_flushed, last_request_read>>
      BY <1>0, <2>4 DEF SeqSync, At, Return, Goto, seqVars
    <3>2. priv_sync' \/ request - last_request_read < Hazard
      BY <1>0, <2>4, FlushRoom DEF SeqSync
    <3>3. Early'
      BY <1>0, <1>z, <2>4, <3>1 DEF SyncDue
    <3>4. ~Waits(m) /\ ~Waits(m)' /\ local[m].left = 0
      BY <1>a, <3>1 DEF Waits
    <3>5. Room'
      BY <1>0, <1>a, <3>1, <3>4
    <3>6. ~priv_sync' => last_flushed' - last_request_read' < Hazard
      BY <1>0, <1>z, <3>1, <3>2
    <3> QED BY <1>a, <2>0, <3>1, <3>3, <3>4, <3>5, <3>6
  <2>5. CASE GetRequest(m) /\ BufferFull
    <3>1. /\ pc[m] = "Call" /\ pc' = pc /\ local' = local /\ local[m].left > 0
          /\ request' = request /\ last_flushed' = request /\ last_request_read' = last_request_read
      BY <2>5 DEF GetRequest, Flush, At
    <3>2. priv_sync' \/ request - last_request_read < Hazard
      BY <1>0, <2>5, FlushRoom DEF GetRequest, Flush
    <3>3. ~Waits(m) /\ ~Waits(m)' /\ Room'
      BY <1>a, <3>1 DEF Waits
    <3>4. local[m].func = "keep"
      BY <1>0, <1>a, <3>1
    <3> QED BY <1>0, <1>a, <1>z, <2>0, <3>1, <3>2, <3>3, <3>4
  <2>6. CASE GetRequest(m) /\ ~BufferFull
    <3>1. /\ pc[m] = "Call" /\ pc'[m] \in {"Call", "AllocID"} /\ local[m].left > 0
          /\ local'[m].left = local[m].left - 1 /\ local'[m].func = local[m].func
          /\ request' = request + 1 /\ last_flushed' = last_flushed
          /\ last_request_read' = last_request_read /\ priv_sync' = priv_sync
      BY <1>0, <2>6 DEF GetRequest, At, Goto, Locals, handlerVars
    <3>2. request - last_flushed < BufferReqs
      BY <1>0, <1>z, <2>6 DEF BufferFull
    <3>3. ~Waits(m) /\ ~Waits(m)'
      BY <3>1 DEF Waits
    <3>4. Room' /\ local[m].func = "keep"
      BY <1>0, <1>a, <1>z, <3>1, <3>3
    <3>5. request' - last_flushed' <= BufferReqs
      BY <1>0, <1>z, <3>1, <3>2
    <3> QED BY <1>a, <2>0, <3>1, <3>3, <3>4, <3>5
  <2>7. CASE AllocID(m)
    <3>1. /\ pc[m] = "AllocID" /\ pc'[m] = "Call"
          /\ local'[m].left = local[m].left /\ local'[m].func = local[m].func
          /\ UNCHANGED <<request, last_flushed, last_request_read>>
      BY <1>0, <2>7 DEF AllocID, At, Goto, Locals, seqVars
    <3>2. priv_sync'
      BY <2>7 DEF AllocID, SetPrivSyncFunction, handlerVars, Inv, TypeOK
    <3>3. ~Waits(m) /\ ~Waits(m)' /\ local[m].func = "keep"
      BY <1>a, <3>1 DEF Waits
    <3>4. Room'
      BY <1>0, <1>a, <3>1, <3>3
    <3> QED BY <1>a, <2>0, <3>1, <3>2, <3>3, <3>4
  <2>8. CASE SetAfterFunction(m)
    <3>1. /\ pc[m] = "Call" /\ pc'[m] = "Idle" /\ local[m].func # "keep"
          /\ local'[m].left = 0 /\ local'[m].func = "keep" /\ priv_sync' = priv_sync
          /\ UNCHANGED <<request, last_flushed, last_request_read>>
      BY <1>0, <2>8 DEF SetAfterFunction, SetHandler, At, Return, Goto, seqVars
    <3>2. ~Waits(m) /\ ~Waits(m)' /\ local[m].left = 0
      BY <1>a, <3>1 DEF Waits
    <3>3. Room'
      BY <1>0, <1>a, <3>1, <3>2
    <3> QED BY <1>a, <2>0, <3>1, <3>2, <3>3
  <2>9. CASE EndCall(m) /\ local[m].reply
    <3>1. /\ pc[m] = "Call" /\ pc'[m] = "WaitForReply" /\ local[m].left = 0 /\ local[m].func = "keep"
          /\ local'[m].left = 0 /\ local'[m].func = "keep" /\ local'[m].req = request
          /\ request' = request /\ last_flushed' = request /\ last_request_read' = last_request_read
      BY <1>0, <2>9 DEF EndCall, Flush, At, Goto, Locals
    <3>2. priv_sync' \/ request - last_request_read < Hazard
      BY <1>0, <2>9, FlushRoom DEF EndCall, Flush
    <3>3. Waits(m)' /\ ~Waits(m)
      BY <3>1 DEF Waits
    <3>4. Room'
      BY <1>0, <1>a, <1>z, <3>1, <3>3
    <3> QED BY <1>0, <1>z, <2>0, <3>1, <3>2, <3>3, <3>4
  <2>10. CASE EndCall(m) /\ ~local[m].reply
    <3>1. /\ pc[m] = "Call" /\ pc'[m] = "SyncHandle" /\ local' = local /\ local[m].left = 0
          /\ local[m].func = "keep" /\ priv_sync' = priv_sync
          /\ UNCHANGED <<request, last_flushed, last_request_read>>
      BY <1>0, <2>10 DEF EndCall, At, Goto, seqVars, handlerVars
    <3>2. ~Waits(m) /\ ~Waits(m)'
      BY <3>1 DEF Waits
    <3>3. Room'
      BY <1>0, <1>a, <3>1, <3>2
    <3> QED BY <1>a, <2>0, <3>1, <3>2, <3>3
  <2>11. CASE ReadEvent(m)
    <3>1. /\ pc[m] = "WaitForReply" /\ UNCHANGED <<pc, local, request, last_flushed, priv_sync>>
      BY <2>11 DEF ReadEvent, At, seqVars, handlerVars
    <3>2. last_request_read' \in Nat /\ last_request_read <= last_request_read'
      BY OrderedStep DEF Ordered
    <3>3. Waits(m) /\ Waits(m)'
      BY <3>1 DEF Waits
    <3>4. Room'
      BY <1>0, <1>a, <1>z, <3>1, <3>2, <3>3
    <3>5. ASSUME ~priv_sync' PROVE last_flushed' - last_request_read' < Hazard
      <4>1. last_flushed - last_request_read < Hazard
        BY <1>a, <3>1, <3>5
      <4>2. last_flushed' = last_flushed /\ last_request_read <= last_request_read' /\ last_request_read' \in Nat
        BY <1>0, <3>1, <3>2
      <4>3. last_flushed - last_request_read' < Hazard
        <5>1. last_flushed \in Int /\ last_request_read \in Int /\ last_request_read' \in Int /\ Hazard \in Int
          BY <1>0, <1>z, <4>2
        <5> QED BY ONLY <5>1, <4>1, <4>2, LaterRead
      <4> QED BY <4>2, <4>3
    <3> QED BY <1>a, <2>0, <3>1, <3>3, <3>4, <3>5
  <2>12. CASE GotReply(m)
    <3>1. /\ pc[m] = "WaitForReply" /\ pc'[m] \in {"SyncLock", "Unlock"}
          /\ last_request_read' = local[m].req
          /\ local'[m].left = local[m].left /\ local'[m].func = local[m].func
          /\ UNCHANGED <<request, last_flushed, priv_sync>>
      BY <1>0, <2>12 DEF GotReply, At, Goto, Locals, seqVars, handlerVars
    <3>2. Waits(m) /\ ~Waits(m)' /\ last_request_read' = request
      BY <1>a, <3>1 DEF Waits
    <3>3. local[m].left = 0 /\ local[m].func = "keep"
      BY <1>a, <3>1
    <3>4. Room'
      BY <1>0, <1>z, <3>1, <3>2, <3>3
    <3>5. ASSUME ~priv_sync' PROVE last_flushed' - last_request_read' < Hazard
      <4>1. last_flushed - last_request_read < Hazard
        BY <1>a, <3>1, <3>5
      <4>2. last_flushed' = last_flushed /\ last_request_read <= last_request_read' /\ last_request_read' \in Nat
        BY <1>0, <3>1, <3>2
      <4>3. last_flushed - last_request_read' < Hazard
        <5>1. last_flushed \in Int /\ last_request_read \in Int /\ last_request_read' \in Int /\ Hazard \in Int
          BY <1>0, <1>z, <4>2
        <5> QED BY ONLY <5>1, <4>1, <4>2, LaterRead
      <4> QED BY <4>2, <4>3
    <3> QED BY <1>a, <2>0, <3>1, <3>2, <3>3, <3>4, <3>5
  <2>13. CASE SyncLock(m) \/ UnlockDisplay(m)
    <3>1. /\ pc[m] \in {"SyncLock", "Unlock"} /\ pc'[m] = "SyncHandle" /\ local' = local
          /\ UNCHANGED <<request, last_flushed, last_request_read, priv_sync>>
      BY <1>0, <2>13 DEF SyncLock, UnlockDisplay, At, Goto, seqVars, handlerVars
    <3>2. ~Waits(m) /\ ~Waits(m)'
      BY <3>1 DEF Waits
    <3>3. Room' /\ local[m].left = 0 /\ local[m].func = "keep"
      BY <1>0, <1>a, <3>1, <3>2
    <3> QED BY <1>a, <2>0, <3>1, <3>2, <3>3
  <2>14. CASE SyncHandle(m) /\ synchandler = "priv"
    <3>1. /\ pc[m] = "SyncHandle" /\ pc'[m] = "SeqSync" /\ priv_sync' = FALSE
          /\ local'[m].left = local[m].left /\ local'[m].func = local[m].func
          /\ UNCHANGED <<request, last_flushed, last_request_read>>
      BY <1>0, <2>14 DEF SyncHandle, At, Goto, Locals, seqVars
    <3>2. ~Waits(m) /\ ~Waits(m)'
      BY <3>1 DEF Waits
    <3>3. Room' /\ local[m].left = 0 /\ local[m].func = "keep"
      BY <1>0, <1>a, <3>1, <3>2
    <3> QED BY <1>a, <2>0, <3>1, <3>2, <3>3
  <2>15. CASE SyncHandle(m) /\ synchandler # "priv"
    <3>1. /\ pc[m] = "SyncHandle" /\ pc'[m] = "Idle" /\ local'[m].left = 0 /\ local'[m].func = "keep"
          /\ UNCHANGED <<request, last_flushed, last_request_read, priv_sync>>
      BY <1>0, <2>15 DEF SyncHandle, At, Return, Goto, seqVars, handlerVars
    <3>2. ~Waits(m) /\ ~Waits(m)' /\ local[m].left = 0
      BY <1>a, <3>1 DEF Waits
    <3>3. ~priv_sync'
      BY <2>15, <3>1 DEF Inv, AfterFunctionKept
    <3>4. Room'
      BY <1>0, <1>a, <3>1, <3>2
    <3> QED BY <1>a, <2>0, <3>1, <3>2, <3>3, <3>4
  <2> QED BY <1>1, <2>1, <2>2, <2>3, <2>4, <2>5, <2>6, <2>7, <2>8, <2>9, <2>10, <2>11, <2>12, <2>13,
            <2>14, <2>15 DEF Thread
<1>2. CASE ServerEvent \/ ServerReply \/ UNCHANGED vars \/ Stopped
  <2>1. UNCHANGED <<request, last_request_read, last_flushed, priv_sync, lock_fns, pc, local>>
    BY <1>2 DEF ServerEvent, ServerReply, ServerSends, Stopped, vars, seqVars, handlerVars
  <2> QED BY <2>1 DEF Inv, AloneRoom, Waits
<1> QED BY <1>b, <1>1, <1>2 DEF Next

-----------------------------------------------------------------------------
(***************************************************************************)
(* The types of the variables, and the invariant.                          *)
(***************************************************************************)
LEMMA TypeStep == Inv /\ [Next]_vars => TypeOK'
<1> SUFFICES ASSUME Inv, [Next]_vars PROVE TypeOK'
  OBVIOUS
<1>0. /\ TypeOK /\ LockTypeOK /\ lock_fns \in BOOLEAN /\ next_xid \in BOOLEAN /\ fatal \in BOOLEAN
      /\ pc \in [Threads -> Labels] /\ local \in [Threads -> Locals]
  BY DEF Inv, TypeOK
<1>h. /\ lock_fns' \in BOOLEAN
      /\ synchandler' \in Functions \cup {"priv"} /\ savedsynchandler' \in Functions
      /\ priv_sync' \in BOOLEAN /\ after' \in Functions
  BY <1>0, HandlersStep DEF HandlerInv
<1>o. /\ request' \in Nat /\ last_request_read' \in 0..request' /\ last_flushed' \in 0..request'
      /\ unread' \in Seq(Packets) /\ served' \in 0..last_flushed'
  BY OrderedStep DEF Ordered
<1>1. ASSUME LockTypeOK', next_xid' \in BOOLEAN, fatal' \in BOOLEAN,
             pc' \in [Threads -> Labels], local' \in [Threads -> Locals]
      PROVE  TypeOK'
  BY <1>h, <1>o, <1>1 DEF TypeOK
<1>2. ASSUME UNCHANGED lockVars PROVE LockTypeOK'
  BY <1>0, <1>2 DEF lockVars, LockTypeOK
<1>3. ASSUME NEW t \in Threads, Thread(t)
      PROVE  /\ LockTypeOK' /\ next_xid' \in BOOLEAN /\ fatal' \in BOOLEAN
             /\ pc' \in [Threads -> Labels] /\ local' \in [Threads -> Locals]
  <2>l. local[t] \in Locals /\ t \in Threads
    BY <1>0
  <2>u. /\ \A label \in Labels : [pc EXCEPT ![t] = label] \in [Threads -> Labels]
        /\ \A l \in Locals : [local EXCEPT ![t] = l] \in [Threads -> Locals]
    BY <1>0, ThreadTypes
  <2>0. /\ NoCall \in Locals
        /\ [local[t] EXCEPT !.back = "SeqSync"] \in Locals
        /\ [local[t] EXCEPT !.back = "Call"] \in Locals
        /\ [local[t] EXCEPT !.syncing = FALSE] \in Locals
        /\ [local[t] EXCEPT !.alloc = FALSE] \in Locals
        /\ local[t].left > 0 => [local[t] EXCEPT !.left = local[t].left - 1] \in Locals
        /\ \A r \in Nat : [local[t] EXCEPT !.req = r] \in Locals
        /\ \A r \in Nat : [local[t] EXCEPT !.req = r, !.syncing = TRUE] \in Locals
        /\ \A n \in 0..CallRequests, alloc, reply \in BOOLEAN, f \in Functions \cup {"keep"} :
             [NoCall EXCEPT !.left = n, !.alloc = alloc, !.reply = reply, !.func = f] \in Locals
    BY <2>l, LocalUpdates
  <2>1. CASE LockDisplay(t)
    <3>1. pc' \in [Threads -> Labels]
      BY <1>0, <2>1, <2>u DEF LockDisplay, Goto, Labels
    <3>2. local' \in [Threads -> Locals]
      <4>1. CASE UNCHANGED local
        BY <1>0, <4>1
      <4>2. ASSUME NEW n \in 0..CallRequests, NEW alloc \in BOOLEAN, NEW reply \in BOOLEAN,
                   NEW f \in Functions \cup {"keep"},
                   local' = [local EXCEPT ![t] =
                      [NoCall EXCEPT !.left = n, !.alloc = alloc, !.reply = reply, !.func = f]]
            PROVE  local' \in [Threads -> Locals]
        BY <2>0, <2>u, <4>2
      <4> QED BY <2>1, <4>1, <4>2 DEF LockDisplay
    <3>3. LockTypeOK'
      <4>1. UNCHANGED <<locking_level, locking_thread, in_ifevent, ifevent_thread>>
        BY <2>1 DEF LockDisplay, userLockVars, ifeventVars
      <4>2. CASE Lock(t, FALSE) /\ UNCHANGED sleeping
        BY <1>0, <4>1, <4>2, LockTypes DEF Lock
      <4>3. CASE MustWait(t)
        BY <1>0, <4>1, <4>3, LockTypes DEF MustWait, ConditionWait
      <4> QED BY <2>1, <4>2, <4>3 DEF LockDisplay
    <3> QED BY <1>0, <2>1, <3>1, <3>2, <3>3 DEF LockDisplay
  <2>2. CASE IDHandler(t)
    <3>1. pc' \in [Threads -> Labels]
      BY <2>2, <2>u DEF IDHandler, Goto, Labels
    <3>2. local' \in [Threads -> Locals]
      BY <1>0, <2>0, <2>2, <2>u DEF IDHandler
    <3>3. LockTypeOK'
      BY <1>0, <2>2, LockTypes DEF IDHandler, Unlock, userLockVars, ifeventVars
    <3> QED BY <1>0, <2>2, <3>1, <3>2, <3>3 DEF IDHandler
  <2>3. CASE GenerateId(t)
    BY <1>0, <1>2, <2>3, <2>u DEF GenerateId, Goto, Labels
  <2>4. CASE Relock(t)
    <3>1. local[t].back \in Labels
      BY <2>l DEF Locals, Labels
    <3>2. pc' \in [Threads -> Labels] /\ local' \in [Threads -> Locals]
      BY <1>0, <2>4, <2>u, <3>1 DEF Relock, Goto
    <3>3. LockTypeOK'
      BY <1>0, <2>4, LockTypes DEF Relock, Lock, ifeventVars
    <3> QED BY <1>0, <2>4, <3>2, <3>3 DEF Relock
  <2>5. CASE SeqSync(t)
    <3>1. request + 1 \in Nat
      BY <1>0 DEF TypeOK
    <3>2. pc' \in [Threads -> Labels] /\ local' \in [Threads -> Locals]
      <4>1. pc' \in [Threads -> Labels]
        BY <2>5, <2>u DEF SeqSync, Goto, Return, Labels
      <4>2. CASE SyncDue
        <5>1. local' = [local EXCEPT ![t] = [local[t] EXCEPT !.req = request + 1, !.syncing = TRUE]]
          BY <1>0, <2>5, <4>2 DEF SeqSync
        <5> QED BY <2>0, <2>u, <3>1, <4>1, <5>1
      <4>3. CASE ~SyncDue
        <5>1. UNCHANGED local \/ local' = [local EXCEPT ![t] = NoCall]
          BY <2>5, <4>3 DEF SeqSync, Return
        <5> QED BY <1>0, <2>0, <2>u, <4>1, <5>1
      <4> QED BY <4>2, <4>3
    <3>3. LockTypeOK'
      BY <1>0, <2>5, LockTypes DEF SeqSync, Unlock, userLockVars, ifeventVars
    <3> QED BY <1>0, <2>5, <3>2, <3>3 DEF SeqSync
  <2>6. CASE GetRequest(t)
    <3>1. local' \in [Threads -> Locals]
      BY <1>0, <2>0, <2>6, <2>u DEF GetRequest
    <3>2. pc' \in [Threads -> Labels]
      BY <1>0, <2>6, <2>u DEF GetRequest, Goto, Labels
    <3> QED BY <1>0, <1>2, <2>6, <3>1, <3>2 DEF GetRequest
  <2>7. CASE AllocID(t)
    <3>1. fatal' \in BOOLEAN /\ next_xid' \in BOOLEAN
      BY <1>0, <2>7 DEF AllocID
    <3> QED BY <1>2, <2>0, <2>7, <2>u, <3>1 DEF AllocID, Goto, Labels
  <2>8. CASE SetAfterFunction(t)
    <3>1. LockTypeOK'
      BY <1>0, <2>8, LockTypes DEF SetAfterFunction, Unlock, userLockVars, ifeventVars
    <3> QED BY <1>0, <2>0, <2>8, <2>u, <3>1 DEF SetAfterFunction, Return, Goto, Labels
  <2>9. CASE EndCall(t)
    <3>1. LockTypeOK'
      BY <1>0, <2>9, LockTypes DEF EndCall, Unlock, userLockVars, ifeventVars
    <3>2. request \in Nat
      BY <1>0 DEF TypeOK
    <3>3. local' \in [Threads -> Locals]
      BY <1>0, <2>0, <2>9, <2>u, <3>2 DEF EndCall
    <3>4. pc' \in [Threads -> Labels]
      BY <2>9, <2>u DEF EndCall, Goto, Labels
    <3> QED BY <1>0, <2>9, <3>1, <3>3, <3>4 DEF EndCall
  <2>10. CASE ReadEvent(t)
    <3>1. fatal' \in BOOLEAN
      BY <2>10 DEF ReadEvent
    <3> QED BY <1>0, <1>2, <2>10, <3>1 DEF ReadEvent
  <2>11. CASE GotReply(t)
    <3>1. LockTypeOK'
      BY <1>0, <2>11, LockTypes DEF GotReply, Lock, userLockVars, ifeventVars
    <3>2. local' \in [Threads -> Locals]
      BY <2>0, <2>11, <2>u DEF GotReply
    <3>3. pc' \in [Threads -> Labels]
      BY <2>11, <2>u DEF GotReply, Goto, Labels
    <3> QED BY <1>0, <2>11, <3>1, <3>2, <3>3 DEF GotReply
  <2>12. CASE SyncLock(t)
    <3>1. LockTypeOK'
      <4>1. CASE UNCHANGED lockVars
        BY <1>2, <4>1
      <4>2. CASE ConditionWait("cv", t) /\ UNCHANGED <<userLockVars, ifeventVars>>
        BY <1>0, <4>2, LockTypes DEF ConditionWait, userLockVars, ifeventVars
      <4>3. CASE Wakeup(t) /\ UNCHANGED <<sleeping, userLockVars, ifeventVars>>
        BY <1>0, <4>3, LockTypes DEF userLockVars, ifeventVars
      <4>4. CASE UserLocked(t) /\ Released(t) /\ UNCHANGED <<sleeping, ifeventVars>>
        BY <1>0, <4>4, LockTypes DEF ifeventVars
      <4> QED BY <2>12, <4>1, <4>2, <4>3, <4>4 DEF SyncLock
    <3>2. local' \in [Threads -> Locals]
      BY <1>0, <2>0, <2>12, <2>u DEF SyncLock
    <3>3. pc' \in [Threads -> Labels]
      BY <1>0, <2>12, <2>u DEF SyncLock, Goto, Labels
    <3> QED BY <1>0, <2>12, <3>1, <3>2, <3>3 DEF SyncLock
  <2>13. CASE UnlockDisplay(t)
    <3>1. LockTypeOK'
      BY <1>0, <2>13, LockTypes DEF UnlockDisplay, Unlock, userLockVars, ifeventVars
    <3> QED BY <1>0, <2>13, <2>u, <3>1 DEF UnlockDisplay, Goto, Labels
  <2>14. CASE SyncHandle(t)
    <3>1. local' \in [Threads -> Locals]
      BY <1>0, <2>0, <2>14, <2>u DEF SyncHandle, Return
    <3>2. pc' \in [Threads -> Labels]
      BY <1>0, <2>14, <2>u DEF SyncHandle, Return, Goto, Labels
    <3>3. next_xid' \in BOOLEAN
      BY <1>0, <2>14 DEF SyncHandle
    <3> QED BY <1>0, <1>2, <2>14, <3>1, <3>2, <3>3 DEF SyncHandle
  <2> QED BY <1>3, <2>1, <2>2, <2>3, <2>4, <2>5, <2>6, <2>7, <2>8, <2>9, <2>10, <2>11, <2>12, <2>13,
            <2>14 DEF Thread
<1>4. CASE ServerEvent \/ ServerReply
  BY <1>0, <1>1, <1>2, <1>4 DEF ServerEvent, ServerReply, ServerSends
<1>5. CASE UNCHANGED vars \/ Stopped
  BY <1>0, <1>1, <1>2, <1>5 DEF vars, Stopped
<1> QED BY <1>1, <1>3, <1>4, <1>5 DEF Next

LEMMA InitInv == Init => Inv
<1> SUFFICES ASSUME Init PROVE Inv
  OBVIOUS
<1>1. TypeOK
  BY InitType
<1>2. /\ request = FirstRequest /\ last_request_read = FirstRequest /\ last_flushed = FirstRequest
      /\ served = FirstRequest /\ unread = <<>> /\ FirstRequest \in Nat
      /\ \A t \in Threads : pc[t] = "Idle" /\ local[t] = NoCall
      /\ MainThread \in Threads
  BY Sizes DEF Init
<1>3. AfterFunctionKept /\ PrivateAlone
  <2>1. CASE priv_sync
    BY <2>1 DEF Init, AfterFunctionKept, PrivateAlone
  <2>2. CASE ~priv_sync
    BY <2>2 DEF Init, AfterFunctionKept, PrivateAlone
  <2> QED BY <2>1, <2>2
<1>4. Returns
  BY <1>2 DEF Returns, NoCall
<1>5. CallsAlone /\ RepliesApart
  BY <1>2 DEF Init, LockInit, CallsAlone, RepliesApart, NoCall, Waits
<1>6. PacketsInOrder /\ RepliesInOrder
  BY <1>2 DEF PacketsInOrder, RepliesInOrder, Waits
<1>7. SpanRoom
  <2>1. Cardinality(Live) \in Nat /\ Cardinality(Live) <= BufsizeReqs + 1
    BY LiveFinite, TicketSets
  <2> QED BY <1>2, <2>1, Sizes DEF SpanRoom
<1>8. ReplyRoom
  BY <1>2 DEF ReplyRoom, Waits
<1>9. AloneRoom
  <2>1. ~lock_fns /\ ~priv_sync => 0 < Hazard
    <3>1. ~lock_fns /\ ~priv_sync => ~SyncHazard(request)
      BY DEF Init
    <3> QED BY <1>2, <3>1, Sizes DEF SyncHazard, Hazard, MinOf
  <2>2. NoCall.left = 0 /\ NoCall.func = "keep"
    BY DEF NoCall
  <2> QED BY <1>2, <2>1, <2>2, Sizes DEF AloneRoom, Waits
<1> QED BY <1>1, <1>3, <1>4, <1>5, <1>6, <1>7, <1>8, <1>9 DEF Inv

\* The invariant is inductive.
THEOREM SeqSyncInvariance == Spec => []Inv
<1>1. Init => Inv
  BY InitInv
<1>2. Inv /\ [Next]_vars => Inv'
  <2> SUFFICES ASSUME Inv, [Next]_vars PROVE Inv'
    OBVIOUS
  <2>1. TypeOK' /\ AfterFunctionKept' /\ PrivateAlone' /\ Returns' /\ CallsAlone' /\ RepliesApart'
    BY TypeStep, HandlersStep, ReturnsStep, CallsAloneStep, RepliesApartStep DEF HandlerInv
  <2>2. PacketsInOrder' /\ RepliesInOrder' /\ SpanRoom' /\ ReplyRoom' /\ AloneRoom'
    BY OrderedStep, RoomStep, AloneStep DEF Ordered
  <2> QED BY <2>1, <2>2 DEF Inv
<1> QED BY <1>1, <1>2, PTL DEF Spec

\* The types of the variables.
THEOREM SeqSyncTypes == Spec => []TypeOK
<1>1. Inv => TypeOK
  BY DEF Inv
<1> QED BY <1>1, SeqSyncInvariance, PTL

\* Whatever the threads do, and however large the buffer is, the requests whose
\* numbers are not settled are fewer than 2^16.
THEOREM SpanStaysBelowModulus == Spec => []SpanBelowModulus
<1>1. Inv => SpanBelowModulus
  BY SpanFollows
<1> QED BY <1>1, SeqSyncInvariance, PTL

\* Every packet that is read gets the number it has.
THEOREM NumbersStayTrue == Spec => []NumbersAreTrue
<1>1. Inv => NumbersAreTrue
  <2> SUFFICES ASSUME Inv, NEW i \in DOMAIN unread
               PROVE  /\ Widen(last_request_read, unread[i].seq % Modulus32) = unread[i].seq
                      /\ NewSeq(last_request_read, request, unread[i].seq % Modulus16) = unread[i].seq
    BY DEF NumbersAreTrue
  <2>1. i \in 1..Len(unread)
    BY PacketTypes, LenProperties
  <2> QED BY <2>1, PacketNumbers, SpanFollows DEF Inv
<1> QED BY <1>1, SeqSyncInvariance, PTL

\* The application's after function is the one installed, or the one kept.
THEOREM AfterFunctionStaysKept == Spec => []AfterFunctionKept
<1>1. Inv => AfterFunctionKept
  BY DEF Inv
<1> QED BY <1>1, SeqSyncInvariance, PTL

-----------------------------------------------------------------------------
(***************************************************************************)
(* An id in store.                                                         *)
(***************************************************************************)
OneAllocator == \A a, b \in Allocators : a = b

\* With threads, the id that a call has seen to is still there after the round
\* trip.  Without, it is missing only until the private function is called.
IdInv ==
    /\ \A t \in Threads : pc[t] = "AllocID" => local[t].alloc
    /\ lock_fns => \A t \in Threads : local[t].alloc =>
          /\ t \in Allocators
          /\ pc[t] \in {"Idle", "IDHandler", "GenerateId"} \/ next_xid
    /\ ~lock_fns /\ ~next_xid =>
          /\ priv_sync /\ pc[MainThread] \notin {"Idle", "SeqSync"}
          /\ ~local[MainThread].alloc /\ local[MainThread].func = "keep"

\* A thread takes an id only in a call that creates a resource.
LEMMA AllocStep ==
    ASSUME Inv, IdInv, NEW t \in Threads, Thread(t)
    PROVE  /\ pc'[t] = "AllocID" => local'[t].alloc
           /\ local'[t].alloc => local[t].alloc \/ (LockDisplay(t) /\ t \in Allocators /\ pc' # pc)
           /\ next_xid => next_xid' \/ AllocID(t)
<1>0. /\ pc \in [Threads -> Labels] /\ local \in [Threads -> Locals] /\ local[t] \in Locals
      /\ NoCall.alloc = FALSE
  BY DEF Inv, TypeOK, NoCall
<1>1. CASE LockDisplay(t)
  <2>1. CASE UNCHANGED <<pc, local>>
    <3>1. next_xid' = next_xid
      BY <1>1 DEF LockDisplay
    <3>2. pc[t] = "AllocID" => local[t].alloc
      BY DEF IdInv
    <3> QED BY <2>1, <3>1, <3>2
  <2>2. ASSUME NEW n \in 0..CallRequests, NEW alloc \in BOOLEAN, NEW reply \in BOOLEAN,
               NEW f \in Functions \cup {"keep"}, alloc => t \in Allocators,
               local' = [local EXCEPT ![t] =
                  [NoCall EXCEPT !.left = n, !.alloc = alloc, !.reply = reply, !.func = f]],
               Goto(t, IF lock_fns THEN "IDHandler" ELSE "Call")
        PROVE  /\ pc'[t] # "AllocID" /\ pc'[t] # "Idle"
               /\ local'[t].alloc => t \in Allocators
    BY <1>0, <2>2 DEF NoCall, Goto
  <2>3. ~UNCHANGED <<pc, local>> => /\ pc'[t] # "AllocID" /\ pc'[t] # "Idle"
                                    /\ local'[t].alloc => t \in Allocators
    BY <1>1, <2>2 DEF LockDisplay
  <2>4. pc[t] = "Idle" /\ next_xid' = next_xid
    BY <1>1 DEF LockDisplay, At
  <2> QED BY <1>1, <2>1, <2>3, <2>4
<1>a. ASSUME pc'[t] # "AllocID", local'[t].alloc => local[t].alloc, next_xid => next_xid'
      PROVE  /\ pc'[t] = "AllocID" => local'[t].alloc
             /\ local'[t].alloc => local[t].alloc \/ (LockDisplay(t) /\ t \in Allocators /\ pc' # pc)
             /\ next_xid => next_xid' \/ AllocID(t)
  BY <1>a
<1>2. CASE IDHandler(t)
  <2>1. pc'[t] # "AllocID"
    BY <1>0, <1>2 DEF IDHandler, Goto
  <2>2. local'[t].alloc => local[t].alloc
    BY <1>0, <1>2 DEF IDHandler, Locals
  <2>3. next_xid => next_xid'
    BY <1>2 DEF IDHandler
  <2> QED BY <1>a, <2>1, <2>2, <2>3
<1>3. CASE GenerateId(t)
  <2>1. pc'[t] # "AllocID"
    BY <1>0, <1>3 DEF GenerateId, Goto
  <2>2. local'[t].alloc => local[t].alloc
    BY <1>0, <1>3 DEF GenerateId
  <2>3. next_xid => next_xid'
    BY <1>3 DEF GenerateId
  <2> QED BY <1>a, <2>1, <2>2, <2>3
<1>4. CASE Relock(t)
  <2>1. pc'[t] # "AllocID"
    <3>1. local[t].back # "AllocID"
      BY <1>0 DEF Locals
    <3> QED BY <1>0, <1>4, <3>1 DEF Relock, Goto
  <2>2. local'[t].alloc => local[t].alloc
    BY <1>0, <1>4 DEF Relock
  <2>3. next_xid => next_xid'
    BY <1>4 DEF Relock
  <2> QED BY <1>a, <2>1, <2>2, <2>3
<1>5. CASE SeqSync(t)
  <2>1. pc'[t] # "AllocID"
    BY <1>0, <1>5 DEF SeqSync, Goto, Return
  <2>2. local'[t].alloc => local[t].alloc
    BY <1>0, <1>5 DEF SeqSync, Return, Locals
  <2>3. next_xid => next_xid'
    BY <1>5 DEF SeqSync
  <2> QED BY <1>a, <2>1, <2>2, <2>3
<1>6. CASE SetAfterFunction(t)
  <2>1. pc'[t] # "AllocID"
    BY <1>0, <1>6 DEF SetAfterFunction, Goto, Return
  <2>2. local'[t].alloc => local[t].alloc
    BY <1>0, <1>6 DEF SetAfterFunction, Return
  <2>3. next_xid => next_xid'
    BY <1>6 DEF SetAfterFunction
  <2> QED BY <1>a, <2>1, <2>2, <2>3
<1>7. CASE EndCall(t)
  <2>1. pc'[t] # "AllocID"
    BY <1>0, <1>7 DEF EndCall, Goto
  <2>2. local'[t].alloc => local[t].alloc
    BY <1>0, <1>7 DEF EndCall, Locals
  <2>3. next_xid => next_xid'
    BY <1>7 DEF EndCall
  <2> QED BY <1>a, <2>1, <2>2, <2>3
<1>8. CASE ReadEvent(t)
  <2>1. pc'[t] # "AllocID"
    BY <1>0, <1>8 DEF ReadEvent, At
  <2>2. local'[t].alloc => local[t].alloc
    BY <1>0, <1>8 DEF ReadEvent
  <2>3. next_xid => next_xid'
    BY <1>8 DEF ReadEvent
  <2> QED BY <1>a, <2>1, <2>2, <2>3
<1>9. CASE GotReply(t)
  <2>1. pc'[t] # "AllocID"
    BY <1>0, <1>9 DEF GotReply, Goto
  <2>2. local'[t].alloc => local[t].alloc
    BY <1>0, <1>9 DEF GotReply, Locals
  <2>3. next_xid => next_xid'
    BY <1>9 DEF GotReply
  <2> QED BY <1>a, <2>1, <2>2, <2>3
<1>10. CASE SyncLock(t)
  <2>1. pc'[t] # "AllocID"
    BY <1>0, <1>10 DEF SyncLock, Goto, At
  <2>2. local'[t].alloc => local[t].alloc
    BY <1>0, <1>10 DEF SyncLock, Locals
  <2>3. next_xid => next_xid'
    BY <1>10 DEF SyncLock
  <2> QED BY <1>a, <2>1, <2>2, <2>3
<1>11. CASE UnlockDisplay(t)
  <2>1. pc'[t] # "AllocID"
    BY <1>0, <1>11 DEF UnlockDisplay, Goto
  <2>2. local'[t].alloc => local[t].alloc
    BY <1>0, <1>11 DEF UnlockDisplay
  <2>3. next_xid => next_xid'
    BY <1>11 DEF UnlockDisplay
  <2> QED BY <1>a, <2>1, <2>2, <2>3
<1>12. CASE SyncHandle(t)
  <2>1. pc'[t] # "AllocID"
    BY <1>0, <1>12 DEF SyncHandle, Goto, Return
  <2>2. local'[t].alloc => local[t].alloc
    BY <1>0, <1>12 DEF SyncHandle, Return, Locals
  <2>3. next_xid => next_xid'
    BY <1>12 DEF SyncHandle
  <2> QED BY <1>a, <2>1, <2>2, <2>3
<1>13. CASE GetRequest(t)
  <2>1. pc'[t] = "AllocID" => local[t].alloc
    BY <1>0, <1>13 DEF GetRequest, Goto, At
  <2>2. local'[t].alloc = local[t].alloc
    BY <1>0, <1>13 DEF GetRequest, Locals
  <2>3. next_xid' = next_xid
    BY <1>13 DEF GetRequest
  <2> QED BY <2>1, <2>2, <2>3
<1>14. CASE AllocID(t)
  <2>1. pc'[t] = "Call" /\ local'[t].alloc = FALSE
    BY <1>0, <1>14 DEF AllocID, Goto, Locals
  <2> QED BY <1>14, <2>1
<1> QED BY <1>1, <1>2, <1>3, <1>4, <1>5, <1>6, <1>7, <1>8, <1>9,
          <1>10, <1>11, <1>12, <1>13, <1>14 DEF Thread

LEMMA IdStep ==
    ASSUME OneAllocator, Inv, IdInv, [Next]_vars
    PROVE  IdInv'
<1>0. /\ pc \in [Threads -> Labels] /\ local \in [Threads -> Locals] /\ lock_fns' = lock_fns
      /\ MainThread \in Threads
  BY HandlersStep, Sizes DEF Inv, TypeOK
<1>1. ASSUME UNCHANGED <<pc, local, next_xid, priv_sync>> PROVE IdInv'
  BY <1>0, <1>1 DEF IdInv
<1>2. ASSUME NEW t \in Threads, Thread(t) PROVE IdInv'
  <2>o. \A u \in Threads : u # t => pc'[u] = pc[u] /\ local'[u] = local[u]
    BY <1>2, OthersKeep DEF Inv
  <2>a. /\ pc'[t] = "AllocID" => local'[t].alloc
        /\ local'[t].alloc => local[t].alloc \/ (LockDisplay(t) /\ t \in Allocators /\ pc' # pc)
        /\ next_xid => next_xid' \/ AllocID(t)
    BY <1>2, AllocStep
  <2>1. \A u \in Threads : pc'[u] = "AllocID" => local'[u].alloc
    BY <2>a, <2>o DEF IdInv
  <2>2. ASSUME lock_fns, NEW u \in Threads, local'[u].alloc
        PROVE  u \in Allocators /\ (pc'[u] \in {"Idle", "IDHandler", "GenerateId"} \/ next_xid')
    <3>1. CASE u # t
      <4>1. /\ local[u].alloc /\ u \in Allocators /\ pc'[u] = pc[u]
            /\ pc[u] \in {"Idle", "IDHandler", "GenerateId"} \/ next_xid
        BY <2>2, <2>o, <3>1 DEF IdInv
      <4>2. ~AllocID(t)
        <5>1. AllocID(t) => local[t].alloc
          BY DEF AllocID, At, IdInv
        <5>2. local[t].alloc => t \in Allocators
          BY <2>2 DEF IdInv
        <5> QED BY <3>1, <4>1, <5>1, <5>2 DEF OneAllocator
      <4> QED BY <2>a, <4>1, <4>2
    <3>2. CASE u = t /\ local[t].alloc
      <4>1. t \in Allocators /\ (pc[t] \in {"Idle", "IDHandler", "GenerateId"} \/ next_xid)
        BY <2>2, <3>2 DEF IdInv
      <4>2. ~AllocID(t)
        <5>1. AllocID(t) => local'[t].alloc = FALSE
          BY <1>0 DEF AllocID, Locals
        <5> QED BY <2>2, <3>2, <5>1
      <4>3. CASE next_xid
        BY <2>a, <3>2, <4>1, <4>2, <4>3
      <4>4. CASE ~next_xid /\ pc[t] \in {"Idle", "IDHandler", "GenerateId"}
        <5>1. LockDisplay(t) \/ IDHandler(t) \/ GenerateId(t)
          BY <1>2, <4>4 DEF Thread, Relock, SeqSync, GetRequest, AllocID, SetAfterFunction, EndCall,
             ReadEvent, GotReply, SyncLock, UnlockDisplay, SyncHandle, At
        <5>2. CASE LockDisplay(t)
          BY <1>0, <2>2, <3>2, <4>1, <4>4, <5>2 DEF LockDisplay, Goto
        <5>3. CASE IDHandler(t)
          BY <1>0, <3>2, <4>1, <4>4, <5>3 DEF IDHandler, Goto
        <5>4. CASE GenerateId(t)
          BY <3>2, <4>1, <5>4 DEF GenerateId
        <5> QED BY <5>1, <5>2, <5>3, <5>4
      <4> QED BY <4>1, <4>3, <4>4
    <3>3. CASE u = t /\ ~local[t].alloc
      <4>1. LockDisplay(t) /\ t \in Allocators /\ pc' # pc
        BY <2>2, <2>a, <3>3
      <4>2. pc'[t] = "IDHandler"
        BY <1>0, <2>2, <4>1 DEF LockDisplay, Goto
      <4> QED BY <3>3, <4>1, <4>2
    <3> QED BY <3>1, <3>2, <3>3
  <2>3. ASSUME ~lock_fns, ~next_xid'
        PROVE  /\ priv_sync' /\ pc'[MainThread] \notin {"Idle", "SeqSync"}
               /\ ~local'[MainThread].alloc /\ local'[MainThread].func = "keep"
    <3>0. /\ t = MainThread /\ local[t] \in Locals
          /\ pc[t] \in {"Idle", "Call", "AllocID", "WaitForReply", "Unlock",
                        "SyncLock", "SyncHandle", "SeqSync"}
          /\ local[t].func # "keep" => pc[t] = "Call"
      <4>1. t = MainThread
        <5>1. t # MainThread => pc[t] = "Idle"
          BY <2>3 DEF Inv, AloneRoom
        <5> QED BY <1>2, <2>3, <5>1 DEF Thread, LockDisplay, IDHandler, GenerateId, Relock, SeqSync,
             GetRequest, AllocID, SetAfterFunction, EndCall, ReadEvent, GotReply, SyncLock,
             UnlockDisplay, SyncHandle, At
      <4> QED BY <1>0, <2>3, <4>1 DEF Inv, AloneRoom
    <3>1. CASE AllocID(t)
      <4>1. pc'[t] = "Call" /\ local'[t].alloc = FALSE /\ local'[t].func = local[t].func /\ pc[t] = "AllocID"
        BY <1>0, <3>0, <3>1 DEF AllocID, At, Goto, Locals
      <4>2. priv_sync'
        BY <2>3, <3>1 DEF AllocID, SetPrivSyncFunction, handlerVars, Inv, TypeOK
      <4> QED BY <3>0, <4>1, <4>2
    <3>2. CASE ~AllocID(t)
      <4>1. /\ ~next_xid /\ priv_sync /\ pc[t] \notin {"Idle", "SeqSync"}
            /\ ~local[t].alloc /\ local[t].func = "keep" /\ synchandler = "priv"
        <5>1. ~next_xid
          BY <2>3, <2>a, <3>2
        <5>2. priv_sync /\ pc[t] \notin {"Idle", "SeqSync"} /\ ~local[t].alloc /\ local[t].func = "keep"
          BY <2>3, <3>0, <5>1 DEF IdInv
        <5> QED BY <5>1, <5>2 DEF Inv, AfterFunctionKept
      <4>2. \/ GetRequest(t) \/ EndCall(t) \/ ReadEvent(t) \/ GotReply(t) \/ SyncLock(t)
            \/ UnlockDisplay(t)
        <5>1. ~SyncHandle(t)
          BY <2>3, <4>1 DEF SyncHandle
        <5>2. ~SetAfterFunction(t)
          BY <4>1 DEF SetAfterFunction
        <5>3. ~(LockDisplay(t) \/ IDHandler(t) \/ GenerateId(t) \/ Relock(t) \/ SeqSync(t))
          BY <3>0, <4>1 DEF LockDisplay, IDHandler, GenerateId, Relock, SeqSync, At
        <5> QED BY <1>2, <3>2, <5>1, <5>2, <5>3 DEF Thread
      <4>3. UNCHANGED handlerVars \/ SetPrivSyncFunction
        BY <4>2, FlushHandlers DEF GetRequest, EndCall, ReadEvent, GotReply, SyncLock, UnlockDisplay,
           handlerVars
      <4>4. priv_sync'
        BY <4>1, <4>3, HandlerTypes DEF Inv
      <4>5. /\ ~local'[t].alloc
            /\ pc'[t] \notin {"Idle", "SeqSync"}
        <5>1. ~LockDisplay(t)
          BY <4>1 DEF LockDisplay, At
        <5>2. pc'[t] \notin {"Idle", "SeqSync"}
          BY <1>0, <4>1, <4>2 DEF GetRequest, EndCall, ReadEvent, GotReply, SyncLock, UnlockDisplay, Goto
        <5> QED BY <2>a, <4>1, <5>1, <5>2
      <4>6. local'[t].func = local[t].func
        <5>1. CASE GetRequest(t) \/ EndCall(t)
          BY <1>0, <3>0, <5>1 DEF GetRequest, EndCall, Locals
        <5>2. CASE GotReply(t)
          BY <1>0, <3>0, <5>2 DEF GotReply, Locals
        <5>3. CASE SyncLock(t)
          BY <1>0, <2>3, <3>0, <5>3 DEF SyncLock
        <5>4. CASE ReadEvent(t) \/ UnlockDisplay(t)
          BY <5>4 DEF ReadEvent, UnlockDisplay
        <5> QED BY <4>2, <5>1, <5>2, <5>3, <5>4
      <4> QED BY <3>0, <4>1, <4>4, <4>5, <4>6
    <3> QED BY <3>1, <3>2
  <2> QED BY <1>0, <2>1, <2>2, <2>3 DEF IdInv
<1>3. CASE ServerEvent \/ ServerReply
  BY <1>1, <1>3 DEF ServerEvent, ServerReply, ServerSends, handlerVars
<1>4. CASE UNCHANGED vars \/ Stopped
  BY <1>1, <1>4 DEF vars, Stopped, handlerVars
<1> QED BY <1>2, <1>3, <1>4 DEF Next

\* An id is there whenever a call needs one, if one thread at most creates
\* resources.
THEOREM IdStaysReady == ASSUME OneAllocator PROVE Spec => []IdReady
<1>1. Init => IdInv
  BY Sizes DEF Init, IdInv, NoCall
<1>2. Inv /\ IdInv /\ [Next]_vars => IdInv'
  BY IdStep
<1>3. Inv /\ IdInv => IdReady
  <2> SUFFICES ASSUME Inv, IdInv, NEW t \in Threads, pc[t] = "AllocID" PROVE next_xid
    BY DEF IdReady
  <2>1. CASE lock_fns
    BY <2>1 DEF IdInv
  <2>2. CASE ~lock_fns
    <3>1. t = MainThread
      BY <2>2 DEF Inv, AloneRoom
    <3> QED BY <2>2, <3>1 DEF IdInv
  <2> QED BY <2>1, <2>2
<1> QED BY <1>1, <1>2, <1>3, SeqSyncInvariance, PTL DEF Spec
=============================================================================
