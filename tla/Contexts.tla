------------------------------ MODULE Contexts ------------------------------
(***************************************************************************)
(* The associations of XSaveContext, XFindContext and XDeleteContext       *)
(* (Context.c): a hash table with chains for a Display, made by the first  *)
(* call that saves, resized as its number of entries grows and shrinks.    *)
(* The lock of the table covers a lookup and a deletion; XSaveContext      *)
(* takes it to find the chain and again to count, and walks and extends    *)
(* the chain between the two without it.                                   *)
(*                                                                         *)
(* A chain hangs on the table it was found in: the table may be freed, and *)
(* the chain may be another one, when the entry is put in front of it.     *)
(* `saved' is what each association should be.                             *)
(***************************************************************************)
EXTENDS Integers, Sequences, FiniteSets, SequencesExt

CONSTANTS
    Threads, None,
    ContextScripts,     \* sets of functions from threads to sequences of calls
    Keys,               \* pairs <<rid, context>>
    INITHASHMASK        \* the table has INITHASHMASK + 1 chains at least

VARIABLES
    context_db,         \* the Display's DB: its number in dbs, or 0
    dbs,                \* the DBs made: [table, mask, numentries]
    tables,             \* the arrays of chains made: each a sequence of entries' numbers
    entries,            \* the entries made: [key, data, next]
    calls, at,          \* each thread's calls, and where it is in the first
    saved,              \* the associations as the calls made them
    overlapped          \* whether a table changed while an XSaveContext held a chain of it

contextVars == <<context_db, dbs, tables, entries, calls, at, saved, overlapped>>

Idle == [pc |-> "idle", db |-> 0, table |-> 0, slot |-> 0, next |-> 0]

Init ==
    /\ context_db = 0
    /\ dbs = <<>> /\ tables = <<>> /\ entries = <<>>
    /\ calls \in ContextScripts
    /\ at = [t \in Threads |-> Idle]
    /\ saved = [k \in Keys |-> None]
    /\ overlapped = FALSE

Hash(mask, key) == ((2 * key[1] + key[2]) % (mask + 1)) + 1

\* The entries of a chain that starts with entry i.
ChainFrom(all) ==
    LET chain[i \in 0 .. Len(all)] == IF i = 0 THEN <<>> ELSE <<i>> \o chain[all[i].next]
    IN  chain

Chain(db, key) == ChainFrom(entries)[tables[dbs[db].table][Hash(dbs[db].mask, key)]]
WithKey(chain, key) == SelectSeq(chain, LAMBDA i : entries[i].key = key)

(***************************************************************************)
(* ResizeTable makes a table of the size that the number of entries calls  *)
(* for and moves the entries, in the order of the old chains, each to the  *)
(* front of its new one.                                                   *)
(***************************************************************************)
RECURSIVE SizeFor(_, _)
SizeFor(size, number) == IF 2 * size < number THEN SizeFor(2 * size, number) ELSE size
NewSize(number) == SizeFor(INITHASHMASK + 1, number)

InOldOrder(table, all) ==
    FlattenSeq([i \in DOMAIN table |-> ChainFrom(all)[table[i]]])

Relinked(order, all, mask) ==
    LET chains(m) == SelectSeq(order, LAMBDA i : Hash(mask, all[i].key) = m)
        before(i) == LET chain == chains(Hash(mask, all[i].key))
                         k == CHOOSE n \in DOMAIN chain : chain[n] = i
                     IN  IF k = 1 THEN 0 ELSE chain[k - 1]
    IN  [table |-> [m \in 1 .. mask + 1 |->
                       IF chains(m) = <<>> THEN 0 ELSE Last(chains(m))],
         entries |-> [i \in DOMAIN all |->
                         IF i \in {order[n] : n \in DOMAIN order}
                         THEN [all[i] EXCEPT !.next = before(i)] ELSE all[i]]]

\* The table has the entries `all' and gets or keeps its chains.
Resized(db, number, all) ==
    LET new == Relinked(InOldOrder(tables[dbs[db].table], all), all, NewSize(number) - 1)
    IN  /\ tables' = Append(tables, new.table)
        /\ entries' = new.entries
        /\ dbs' = [dbs EXCEPT ![db] = [table |-> Len(tables) + 1, mask |-> NewSize(number) - 1,
                                       numentries |-> number]]

Counts(db, number) == dbs' = [dbs EXCEPT ![db].numentries = number]

\* A change of a table while another thread's XSaveContext holds a chain.
Changes(t) ==
    overlapped' = (overlapped \/ \E u \in Threads \ {t} : at[u].pc \in {"walk", "link", "write"})

Call(t) == Head(calls[t])
Returns(t) ==
    /\ calls' = [calls EXCEPT ![t] = Tail(@)]
    /\ at' = [at EXCEPT ![t] = Idle]
Goes(t, pc) == at' = [at EXCEPT ![t].pc = pc] /\ UNCHANGED calls

(***************************************************************************)
(* XSaveContext.                                                           *)
(***************************************************************************)
SaveEnter(t) ==
    /\ at[t].pc = "idle" /\ Call(t).op = "save"
    /\ at' = [at EXCEPT ![t] = [Idle EXCEPT !.db = context_db,
                                            !.pc = IF context_db = 0 THEN "make" ELSE "hash"]]
    /\ UNCHANGED <<context_db, dbs, tables, entries, calls, saved, overlapped>>

\* The thread has made a DB of its own by now, which becomes the Display's.
SaveMake(t) ==
    /\ at[t].pc = "make"
    /\ tables' = Append(tables, [i \in 1 .. INITHASHMASK + 1 |-> 0])
    /\ dbs' = Append(dbs, [table |-> Len(tables) + 1, mask |-> INITHASHMASK, numentries |-> 0])
    /\ context_db' = Len(dbs) + 1
    /\ at' = [at EXCEPT ![t].pc = "hash", ![t].db = Len(dbs) + 1]
    /\ overlapped' = (overlapped \/ context_db # 0)
    /\ UNCHANGED <<entries, calls, saved>>

SaveHash(t) ==
    LET db == dbs[at[t].db]
    IN  /\ at[t].pc = "hash"
        /\ at' = [at EXCEPT ![t].pc = "walk", ![t].table = db.table,
                            ![t].slot = Hash(db.mask, Call(t).key)]
        /\ UNCHANGED <<context_db, dbs, tables, entries, calls, saved, overlapped>>

SaveWalk(t) ==
    LET key == Call(t).key
        found == WithKey(ChainFrom(entries)[tables[at[t].table][at[t].slot]], key)
    IN  /\ at[t].pc = "walk"
        /\ \/ /\ found # <<>>
              /\ entries' = [entries EXCEPT ![Head(found)].data = Call(t).data]
              /\ saved' = [saved EXCEPT ![key] = Call(t).data]
              /\ Returns(t)
           \/ /\ found = <<>>
              /\ Goes(t, "link")
              /\ UNCHANGED <<entries, saved>>
           \/ /\ found = <<>>       \* no memory
              /\ Call(t).may_fail
              /\ Returns(t)
              /\ UNCHANGED <<entries, saved>>
        /\ UNCHANGED <<context_db, dbs, tables, overlapped>>

\* entry->next = *head;  *head = entry
SaveLink(t) ==
    /\ at[t].pc = "link"
    /\ at' = [at EXCEPT ![t].pc = "write", ![t].next = tables[at[t].table][at[t].slot]]
    /\ UNCHANGED <<context_db, dbs, tables, entries, calls, saved, overlapped>>

SaveWrite(t) ==
    LET call == Call(t)
    IN  /\ at[t].pc = "write"
        /\ entries' = Append(entries, [key |-> call.key, data |-> call.data, next |-> at[t].next])
        /\ tables' = [tables EXCEPT ![at[t].table][at[t].slot] = Len(entries) + 1]
        /\ saved' = [saved EXCEPT ![call.key] = call.data]
        /\ Goes(t, "count")
        /\ Changes(t)
        /\ UNCHANGED <<context_db, dbs>>

Grows(db) == dbs[db].numentries + 1 > 4 * dbs[db].mask

SaveCount(t) ==
    LET db == at[t].db
        number == dbs[db].numentries + 1
    IN  /\ at[t].pc = "count"
        /\ Returns(t)
        /\ \/ Grows(db) /\ Resized(db, number, entries) /\ Changes(t)
           \/ /\ ~Grows(db) \/ Call(t).may_fail
              /\ Counts(db, number)
              /\ UNCHANGED <<tables, entries, overlapped>>
        /\ UNCHANGED <<context_db, saved>>

(***************************************************************************)
(* XDeleteContext.  (XFindContext is Found below.)  The freed entry is in  *)
(* no chain of the table any more.                                         *)
(***************************************************************************)
DeleteEnter(t) ==
    /\ at[t].pc = "idle" /\ Call(t).op = "delete"
    /\ \/ context_db = 0 /\ Returns(t)
       \/ /\ context_db # 0
          /\ at' = [at EXCEPT ![t] = [Idle EXCEPT !.pc = "delete", !.db = context_db]]
          /\ UNCHANGED calls
    /\ UNCHANGED <<context_db, dbs, tables, entries, saved, overlapped>>

\* A mutant: an entry leaves its chain at the head only.
MutHeadOnly(db, key, i) ==
    LET table == dbs[db].table
        slot == Hash(dbs[db].mask, key)
    IN  [table |-> [tables[table] EXCEPT ![slot] = entries[i].next], entries |-> entries]

Unlinked(db, key, i) ==
    LET table == dbs[db].table
        slot == Hash(dbs[db].mask, key)
    IN  [table |-> IF tables[table][slot] = i
                   THEN [tables[table] EXCEPT ![slot] = entries[i].next] ELSE tables[table],
         entries |-> [j \in DOMAIN entries |->
                         IF entries[j].next = i /\ j \in ToSet(Chain(db, key))
                         THEN [entries[j] EXCEPT !.next = entries[i].next] ELSE entries[j]]]

Shrinks(db) == dbs[db].numentries - 1 < dbs[db].mask /\ dbs[db].mask > INITHASHMASK

DeleteTake(t) ==
    LET db == at[t].db
        key == Call(t).key
        found == WithKey(Chain(db, key), key)
        number == dbs[db].numentries - 1
        without == Unlinked(db, key, Head(found))
        old == [tables EXCEPT ![dbs[db].table] = without.table]
        new == Relinked(InOldOrder(without.table, without.entries), without.entries,
                        NewSize(number) - 1)
    IN  /\ at[t].pc = "delete"
        /\ Returns(t)
        /\ \/ found = <<>> /\ UNCHANGED <<dbs, tables, entries, saved, overlapped>>
           \/ /\ found # <<>>
              /\ saved' = [saved EXCEPT ![key] = None]
              /\ Changes(t)
              /\ \/ /\ Shrinks(db)
                    /\ tables' = Append(old, new.table)
                    /\ entries' = new.entries
                    /\ dbs' = [dbs EXCEPT ![db] = [table |-> Len(tables) + 1,
                                  mask |-> NewSize(number) - 1, numentries |-> number]]
                 \/ /\ ~Shrinks(db) \/ Call(t).may_fail
                    /\ tables' = old
                    /\ entries' = without.entries
                    /\ Counts(db, number)
        /\ UNCHANGED context_db

Step(t) ==
    \/ SaveMake(t) \/ SaveHash(t) \/ SaveWalk(t) \/ SaveLink(t) \/ SaveWrite(t) \/ SaveCount(t)
    \/ DeleteTake(t)
    \/ calls[t] # <<>> /\ (SaveEnter(t) \/ DeleteEnter(t))

Next == \E t \in Threads : Step(t)

Spec == Init /\ [][Next]_contextVars

\* XFindContext, in one critical section
Found(key) ==
    IF context_db = 0 \/ WithKey(Chain(context_db, key), key) = <<>> THEN None
    ELSE entries[Head(WithKey(Chain(context_db, key), key))].data

(***************************************************************************)
(* An association is found as it was saved last, whatever was saved and    *)
(* deleted since and however often the table was resized, provided that no *)
(* thread changed a table while another one's XSaveContext held a chain.   *)
(***************************************************************************)
FoundAsSaved == overlapped \/ \A key \in Keys : Found(key) = saved[key]

(***************************************************************************)
(* What holds then with threads: when XSaveContext has returned, the       *)
(* association is found.                                                   *)
(***************************************************************************)
SavesArePermanent ==
    (\A t \in Threads : at[t].pc = "idle") => \A key \in Keys : Found(key) = saved[key]
=============================================================================
