----------------------------- MODULE EventStream -----------------------------
(***************************************************************************)
(* What the event queue of a Display promises to its clients: the events   *)
(* the server sends are taken in one after the other in the order they     *)
(* came, a call that asks for an event of some kinds removes the first one *)
(* of these kinds, an event put back is first, and nothing else is removed *)
(* until the client asks for it.                                           *)
(***************************************************************************)
EXTENDS Integers, Sequences, SequencesExt

CONSTANTS
    Kinds,  \* the kinds of events that clients ask for
    Odd     \* what else the server sends: errors, events that are ignored

VARIABLES
    kind,     \* kind[i]: the kind of the i-th item the server sent
    taken_in, \* how many of them the library has looked at
    queue     \* the queue: numbers of items

vars == <<kind, taken_in, queue>>

Init == kind = <<>> /\ taken_in = 0 /\ queue = <<>>

Send == \E k \in Kinds \cup Odd : kind' = Append(kind, k) /\ UNCHANGED <<taken_in, queue>>

\* Items that are not events for the client do not enter the queue.
TakeIn ==
    /\ taken_in < Len(kind)
    /\ taken_in' = taken_in + 1
    /\ queue' = IF kind[taken_in + 1] \in Kinds
                THEN Append(queue, taken_in + 1) ELSE queue
    /\ UNCHANGED kind

\* Asked for an event of the kinds in wanted.
TakeFirst(wanted) ==
    /\ \E i \in DOMAIN queue :
          /\ kind[queue[i]] \in wanted
          /\ \A j \in 1..(i - 1) : kind[queue[j]] \notin wanted
          /\ queue' = RemoveAt(queue, i)
    /\ UNCHANGED <<kind, taken_in>>

PutBack ==
    /\ \E e \in 1..taken_in :
          /\ \A i \in DOMAIN queue : queue[i] # e
          /\ queue' = <<e>> \o queue
    /\ UNCHANGED <<kind, taken_in>>

Discard == queue' = <<>> /\ UNCHANGED <<kind, taken_in>>

Next ==
    \/ Send \/ TakeIn \/ PutBack \/ Discard
    \/ \E wanted \in SUBSET Kinds : TakeFirst(wanted)

Spec == Init /\ [][Next]_vars
=============================================================================
