----------------------------- MODULE AtomCache -----------------------------
(***************************************************************************)
(* The cache of atoms of a Display (IntAtom.c, GetAtomNm.c): a hash table  *)
(* in which a name that is being asked for reserves its slot, filled by    *)
(* the thread that waits for the last answer and, for the answers before   *)
(* it, by async handlers that any thread may run.                          *)
(*                                                                         *)
(* The display is locked between two actions of a thread unless mutex says *)
(* otherwise: it is given up while a thread waits for its reply, and when  *)
(* a full buffer is flushed in the middle of a call (xcb_io.c:594 polls    *)
(* the internal connections).  The atom of a name is named by the name.    *)
(***************************************************************************)
EXTENDS Naturals, Sequences, SequencesExt, FiniteSets, FiniteSetsExt

CONSTANTS
    Threads,        \* the threads that use the display
    Scripts,        \* what they call: functions from threads to sequences
    Names,          \* atom names
    Predefined,     \* names that have an atom from the start
    TableSize,      \* TABLESIZE
    AtomHash, AtomRehash,   \* HASH and REHASHVAL of a name's signature
    MaxErrors,      \* how many requests for atoms the server refuses
    None            \* no atom, no name, no thread, no entry

VARIABLES
    table,          \* dpy->atoms->table
    async_handlers, \* the threads whose handlers are installed, newest first
    mutex,          \* the thread that holds the display lock
    requests,       \* the requests made
    answered,       \* how many of them have been answered and read
    known,          \* names that have an atom in the server
    script,         \* the calls each thread has yet to make
    local,          \* the automatic variables of each thread
    mixed,          \* a handler was in reach of another call's answer
    early,          \* a handler had an answer while its call made requests
    fatal,          \* the program has read through the pointer RESERVED
    errors          \* requests for atoms that were refused

threadVars == <<script, local>>
serverVars == <<answered, known, errors>>
vars == <<table, async_handlers, mutex, requests, serverVars, threadVars, mixed, early, fatal>>

Slots == 0..(TableSize - 1)
RESERVED == [name |-> "RESERVED", atom |-> None]
InternCalls == {"InternAtom", "InternAtoms"}
Plural == {"InternAtoms", "GetAtomNames"}

(***************************************************************************)
(* The table.                                                              *)
(***************************************************************************)
\* The slots in which a name is looked for, in this order.
Path(name) == [k \in 0..(TableSize - 1) |-> (AtomHash[name] + k * AtomRehash[name]) % TableSize]

MutAnyEntry(name, slot) == table[slot] \notin {None, RESERVED}
Holds(name, slot) == table[slot] \notin {None, RESERVED} /\ table[slot].name = name

\* Where the search for a name ends: at its entry, at an empty slot, or at
\* the first slot again.
Place(name) ==
    LET path == Path(name)
        ends == {k \in DOMAIN path : table[path[k]] = None \/ Holds(name, path[k])}
    IN IF ends = {} THEN path[0] ELSE path[Min(ends)]

\* Where _XUpdateAtomCache puts a name whose slot it does not know.
FreePlace(name) ==
    LET path == Path(name)
        free == {k \in DOMAIN path : table[path[k]] = None}
    IN IF free = {} THEN path[0] ELSE path[Min(free)]

\* _XUpdateAtomCache.  What was in the slot is replaced.
Updated(name, atom, slot) == [table EXCEPT ![slot] = [name |-> name, atom |-> atom]]

\* _XGetAtomName: the entries of an atom, and the slots it looks at.
Entries(atom) == {s \in Slots : table[s] # None /\ table[s].atom = atom}
Passed(atom) == {s \in Slots : \A e \in Entries(atom) : s <= e}

Reserved == {s \in Slots : table[s] = RESERVED}

(***************************************************************************)
(* What a thread remembers.  An item that is not answered yet is a record  *)
(* of its slot (in C, its complement in the array of atoms) or Unnamed.    *)
(***************************************************************************)
Waiting(slot) == [slot |-> slot]
Unnamed == [slot |-> None]
Unset == [slot |-> TableSize]
IsWaiting(result) == result \in {Waiting(s) : s \in Slots} \cup {Unnamed}

Init ==
    /\ table = [s \in Slots |-> None]
    /\ async_handlers = <<>>
    /\ mutex = None
    /\ requests = <<>>
    /\ answered = 0
    /\ known = Predefined
    /\ script \in Scripts
    /\ local = [t \in Threads |-> [at |-> "Idle", result |-> <<>>]]
    /\ mixed = FALSE
    /\ early = FALSE
    /\ fatal = FALSE
    /\ errors = 0

At(t, place) == local[t].at = place /\ ~fatal
Item(t) == local[t].items[local[t].i]

\* The head of each of the four calls.
Enter(t) ==
    /\ At(t, "Idle")
    /\ mutex = None
    /\ script[t] # <<>>
    /\ LET c == Head(script[t]) IN
       /\ local' = [local EXCEPT ![t] =
              [at |-> "Items", call |-> c.call, items |-> c.items, only |-> c.only,
               i |-> 1, start |-> Len(requests) + 1, stop |-> None, missed |-> None,
               slot |-> None, status |-> TRUE,
               result |-> [k \in DOMAIN c.items |-> Unset]]]
       /\ async_handlers' = IF c.call \in Plural THEN <<t>> \o async_handlers
                            ELSE async_handlers
    /\ mutex' = t
    /\ script' = [script EXCEPT ![t] = Tail(@)]
    /\ UNCHANGED <<table, requests, serverVars, mixed, early, fatal>>

\* A name or an atom is found in the cache.
Answered(t, result) ==
    /\ local' = [local EXCEPT ![t].result[local[t].i] = result, ![t].i = @ + 1]
    /\ UNCHANGED table

\* The slot of a name that is not found is reserved.
Missed(t, slot) ==
    /\ local' = [local EXCEPT ![t].at = "Request", ![t].slot = slot]
    /\ table' = IF slot # None /\ table[slot] = None
                THEN [table EXCEPT ![slot] = RESERVED] ELSE table

\* The part of _XInternAtom that looks in the cache.
LookUpName(t) ==
    /\ local[t].call \in InternCalls
    /\ LET s == Place(Item(t)) IN
       IF Holds(Item(t), s) THEN Answered(t, table[s].atom) ELSE Missed(t, s)
    /\ UNCHANGED fatal

\* That of _XGetAtomName, which takes every slot that is not empty for an entry.
LookUpAtom(t) ==
    /\ local[t].call \notin InternCalls
    /\ fatal' = (Reserved \cap Passed(Item(t)) # {})
    /\ IF fatal' THEN UNCHANGED <<table, local>>
       ELSE IF Entries(Item(t)) = {} THEN Missed(t, None)
       ELSE Answered(t, table[Min(Entries(Item(t)))].name)

LookUp(t) ==
    /\ At(t, "Items")
    /\ local[t].i <= Len(local[t].items)
    /\ LookUpName(t) \/ LookUpAtom(t)
    /\ UNCHANGED <<async_handlers, mutex, requests, serverVars, script, mixed, early>>

\* GetReq finds the buffer full, and the flush gives up the lock.
Flush(t) ==
    /\ At(t, "Request")
    /\ mutex' = None
    /\ local' = [local EXCEPT ![t].at = "Flushing"]
    /\ UNCHANGED <<table, async_handlers, requests, serverVars, script, mixed, early, fatal>>

Relock(t) ==
    /\ At(t, "Flushing")
    /\ mutex = None
    /\ mutex' = t
    /\ local' = [local EXCEPT ![t].at = "Flushed"]
    /\ UNCHANGED <<table, async_handlers, requests, serverVars, script, mixed, early, fatal>>

\* The request is written; seq is its number.
Asking(thread, seq) ==
    [thread EXCEPT
        !.at = "Items", !.i = @ + 1, !.missed = thread.i, !.stop = seq,
        !.result[thread.i] = IF thread.slot = None THEN Unnamed ELSE Waiting(thread.slot)]

Request(t) ==
    /\ At(t, "Request") \/ At(t, "Flushed")
    /\ requests' = Append(requests,
           [by |-> t, item |-> Item(t), only |-> local[t].only,
            interns |-> local[t].call \in InternCalls, awaited |-> FALSE])
    /\ local' = [local EXCEPT ![t] = Asking(@, Len(requests) + 1)]
    /\ UNCHANGED <<table, async_handlers, mutex, serverVars, script, mixed, early, fatal>>

\* Slots reserved for the items that are still unanswered.
MutLastOnly(t) == {s \in Reserved : local[t].result[local[t].missed] = Waiting(s)}
ReservedBy(t) ==
    {s \in Reserved : \E k \in DOMAIN local[t].result : local[t].result[k] = Waiting(s)}

\* The end of a call: its handler is removed and the display unlocked.
DeqAsyncHandler(t) == async_handlers' = RemoveFirst(async_handlers, t)
Returned(thread) == [thread EXCEPT !.at = "Idle"]

\* After the last item: either all were in the cache, or the call waits for
\* the answer to its last request.
AllLookedUp(t) ==
    /\ At(t, "Items")
    /\ local[t].i > Len(local[t].items)
    /\ mutex' = None
    /\ IF local[t].missed = None
       THEN /\ local' = [local EXCEPT ![t] = Returned(@)]
            /\ DeqAsyncHandler(t)
            /\ UNCHANGED <<table, requests>>
       ELSE /\ table' = [s \in Slots |-> IF s \in ReservedBy(t) THEN None ELSE table[s]]
            /\ requests' = [requests EXCEPT ![local[t].stop].awaited = TRUE]
            /\ local' = [local EXCEPT ![t].at = "WaitForReply"]
            /\ UNCHANGED async_handlers
    /\ UNCHANGED <<serverVars, script, mixed, early, fatal>>

(***************************************************************************)
(* The server's answers, which are read in order.                          *)
(***************************************************************************)
NewlyKnown(r) == IF r.interns /\ ~r.only THEN known \cup {r.item} ELSE known

\* What the server may answer: an atom, a name, None or an error.
Failed == [failed |-> TRUE]
Answers(r) ==
    IF r.interns
    THEN {IF r.item \in NewlyKnown(r) THEN r.item ELSE None}
         \cup (IF errors < MaxErrors THEN {Failed} ELSE {})
    ELSE {IF r.item \in known THEN r.item ELSE Failed}

\* The first item a handler has no answer for; the last item is not its own.
Unanswered(t) ==
    {k \in 1..(Len(local[t].items) - 1) :
        IsWaiting(local[t].result[k]) \/ local[t].result[k] = Unset}

MutNewest(t) == Max(Unanswered(t))
First(t) == Min(Unanswered(t))

\* The range of numbers a handler looks at.  stop_seq is not set before the
\* first request, nor are the results (Unset); then only other calls' answers
\* are in reach, as mixed notes.
InRange(t, s) == s >= local[t].start /\ (local[t].stop = None \/ s <= local[t].stop)

Installed(t) == \E i \in DOMAIN async_handlers : async_handlers[i] = t
Takers(s) == {t \in Threads : Installed(t) /\ InRange(t, s) /\ Unanswered(t) # {}}

\* An answer in the thread's results, and the table with it.
CacheSlot(t, k, name) ==
    IF local[t].result[k] \in {Waiting(s) : s \in Slots}
    THEN local[t].result[k].slot ELSE FreePlace(name)

Cached(t, k, answer) ==
    IF answer = None THEN table
    ELSE LET interns == local[t].call \in InternCalls
             name == IF interns THEN local[t].items[k] ELSE answer
             atom == IF interns THEN answer ELSE local[t].items[k]
         IN Updated(name, atom, CacheSlot(t, k, name))

\* An error is shown to each handler and taken by none: XGetAtomNames' handler
\* leaves the item open.
AfterError(s) ==
    [t \in Threads |->
        IF t \notin Takers(s) THEN local[t]
        ELSE [local[t] EXCEPT
                 !.status = FALSE,
                 !.result[First(t)] = IF local[t].call = "InternAtoms" THEN None ELSE @]]

\* _XIntAtomHandler and _XGetAtomNameHandler: the newest that can takes the
\* answer.
Dispatch(s, answer) ==
    IF answer = Failed \/ Takers(s) = {}
    THEN local' = AfterError(s) /\ UNCHANGED table
    ELSE LET t == async_handlers[SelectInSeq(async_handlers, LAMBDA u : u \in Takers(s))] IN
         /\ local' = [local EXCEPT ![t].result[First(t)] = answer]
         /\ table' = Cached(t, First(t), answer)

\* What a call makes of an error for its last request.  XInternAtom returns a
\* part of the error; only XInternAtoms sees to its status.
AfterFailure(thread) ==
    CASE thread.call = "InternAtom" -> [thread EXCEPT !.result[1] = Failed]
      [] thread.call = "InternAtoms" ->
            [thread EXCEPT !.result[thread.missed] = None, !.status = FALSE]
      [] OTHER -> thread

\* The answer that t waits for in _XReply, and the end of its call.  The error
\* for an atom is shown to the handlers; BadAlloc, that for a name, is not.
Finish(t, s, answer) ==
    LET k == local[t].missed
        others == IF answer = Failed /\ ~requests[s].interns THEN AfterError(s) ELSE local
        thread == IF answer = Failed THEN AfterFailure(others[t])
                  ELSE [local[t] EXCEPT !.result[k] = answer]
    IN /\ local' = [others EXCEPT ![t] = Returned(thread)]
       /\ table' = IF answer = Failed THEN table ELSE Cached(t, k, answer)
       /\ DeqAsyncHandler(t)

\* The next answer is read, by whichever thread.
Read ==
    /\ ~fatal
    /\ mutex = None
    /\ answered < Len(requests)
    /\ LET s == answered + 1
           r == requests[s] IN
       /\ \E answer \in Answers(r) :
             /\ errors' = IF answer = Failed /\ r.interns THEN errors + 1 ELSE errors
             /\ known' = IF answer = Failed THEN known ELSE NewlyKnown(r)
             /\ \/ r.awaited /\ Finish(r.by, s, answer)
                \/ ~r.awaited /\ Dispatch(s, answer) /\ UNCHANGED async_handlers
       /\ mixed' = (mixed \/ Takers(s) \ {r.by} # {})
       /\ early' = (early \/ \E t \in Takers(s) : At(t, "Flushing"))
    /\ answered' = answered + 1
    /\ UNCHANGED <<mutex, requests, script, fatal>>

Next ==
    \/ \E t \in Threads :
          \/ Enter(t)
          \/ LookUp(t)
          \/ Flush(t)
          \/ Relock(t)
          \/ Request(t)
          \/ AllLookedUp(t)
    \/ Read

Spec == Init /\ [][Next]_vars

Stopped == fatal \/ \A t \in Threads : script[t] = <<>> /\ At(t, "Idle")

(***************************************************************************)
(* What the constants are, for the proofs; TLC evaluates the first two in  *)
(* MCStructures.                                                           *)
(***************************************************************************)
Calls == InternCalls \cup {"GetAtomName", "GetAtomNames"}
AtomCall == [call : Calls, items : Seq(Names), only : BOOLEAN]

\* The calls that have one item take one.
AtomConstants ==
    /\ TableSize \in Nat \ {0}
    /\ AtomHash \in [Names -> Nat] /\ AtomRehash \in [Names -> Nat]
    /\ MaxErrors \in Nat
    /\ Predefined \subseteq Names
    /\ Scripts \subseteq [Threads -> Seq(AtomCall)]
    /\ \A scr \in Scripts, t \in Threads : \A i \in DOMAIN scr[t] :
          scr[t][i].call \notin Plural => Len(scr[t][i].items) = 1

\* Names and None are like nothing else.
DistinctNames ==
    /\ None \notin Names \cup Threads \cup Nat
    /\ \A n \in Names \cup {None} :
          n \notin {RESERVED, Failed, Unnamed, Unset} \cup {Waiting(s) : s \in Slots}

\* XGetAtomNames is asked for atoms that the server has.
AtomsExist ==
    \A scr \in Scripts, t \in Threads : \A i \in DOMAIN scr[t] :
        scr[t][i].call = "GetAtomNames" =>
            \A k \in DOMAIN scr[t][i].items : scr[t][i].items[k] \in Predefined

(***************************************************************************)
(* Properties.                                                             *)
(***************************************************************************)
TypeOK ==
    /\ \A s \in Slots : table[s] \in {None, RESERVED} \cup [name : Names, atom : Names]
    /\ mutex \in Threads \cup {None}
    /\ answered \in 0..Len(requests)
    /\ \A i \in DOMAIN requests : requests[i].by \in Threads /\ requests[i].item \in Names
    /\ known \in SUBSET Names
    /\ \A t \in Threads :
          local[t].at \in {"Idle", "Items", "Request", "Flushing", "Flushed", "WaitForReply"}
    /\ mixed \in BOOLEAN /\ early \in BOOLEAN /\ fatal \in BOOLEAN /\ errors \in 0..MaxErrors

\* An entry of the cache, whichever thread and handler made it, gives the atom
\* that the server has for the name.  (Unless two calls of XInternAtoms or
\* XGetAtomNames have been mixed by a flush that gave up the lock.)
CacheTrue ==
    ~mixed => \A s \in Slots \ Reserved : table[s] # None => table[s].name = table[s].atom

\* A call that reports success has the right answer for each of its items, and
\* no call returns a wrong atom or name (but for the bits of an error that
\* XInternAtom returns).
AnswersTrue ==
    ~mixed => \A t \in Threads : At(t, "Idle") => \A k \in DOMAIN local[t].result :
        LET result == local[t].result[k] IN
        \/ result = local[t].items[k]
        \/ result = None /\ (local[t].only \/ ~local[t].status)
        \/ result = Unnamed /\ (~local[t].status \/ local[t].call = "GetAtomName")
        \/ result = Failed /\ local[t].call = "InternAtom"

\* A slot stays reserved only while a call is looking up its names, whose loop
\* passes over it: otherwise the slot would be lost for good, and
\* XGetAtomName would read through the pointer 1.  (Unless a flush gave up the
\* lock and the handler got None or an error, which leave no trace of the slot.)
ReservedInUse ==
    ~early => \A s \in Reserved : \E t \in Threads :
        /\ local[t].at \in {"Items", "Request", "Flushing", "Flushed"}
        /\ local[t].slot = s \/ Waiting(s) \in ToSet(local[t].result)
=============================================================================
