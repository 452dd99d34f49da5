------------------------------- MODULE Quarks -------------------------------
(***************************************************************************)
(* Quarks (Quarks.c): small numbers for strings, found by a hash table     *)
(* with open addressing that doubles when it is three quarters full.  The  *)
(* table and the strings are guarded by the global lock; the place where a *)
(* search begins is computed before the lock is taken, with the mask of    *)
(* that time.                                                              *)
(***************************************************************************)
EXTENDS Integers, Sequences, FiniteSets, SequencesExt, FiniteSetsExt

CONSTANTS
    Threads,
    QuarkScripts,   \* sets of functions from threads to sequences of strings
    Signature,      \* the signature of each string
    FirstMask       \* the mask of the first table: 0x1ff

VARIABLES
    quarkTable,     \* quarks by place; 0: none
    quarkMask,
    stringTable,    \* the string of each quark
    texts, idx,     \* each thread's strings, and the place where its search begins, or -1
    misplaced       \* whether a search began at the place for an older mask

quarkVars == <<quarkTable, quarkMask, stringTable, texts, idx, misplaced>>

Init ==
    /\ quarkTable = [i \in {0} |-> 0]
    /\ quarkMask = 0
    /\ stringTable = <<>>
    /\ texts \in QuarkScripts
    /\ idx = [t \in Threads |-> -1]
    /\ misplaced = FALSE

nextQuark == Len(stringTable) + 1

HASH(sig, mask) == sig % (mask + 1)

REHASHVAL(sig, mask) ==
    LET odd == (sig % (mask - 2)) + 2
    IN  IF odd % 2 = 1 THEN odd ELSE odd + 1

\* The k-th place of a search that begins at i.
Probe(i, k, sig, mask) == IF k = 0 THEN i ELSE (i + k * REHASHVAL(sig, mask)) % (mask + 1)

\* The place where a search stops: the first one that is free or has a quark of `ends'.
Stop(table, mask, ends, i, sig) ==
    LET place(k) == Probe(i, k, sig, mask)
        stops == {k \in 0 .. mask : table[place(k)] \in ends \cup {0}}
    IN  place(Min(stops))

QuarksOf(string) == {q \in DOMAIN stringTable : stringTable[q] = string}

(***************************************************************************)
(* ExpandQuarkTable.                                                       *)
(***************************************************************************)
Full == nextQuark + (nextQuark \div 4) > quarkMask
LargerMask == IF quarkMask = 0 THEN FirstMask ELSE 2 * quarkMask + 1

\* A mutant: an entry goes to the first place of its search, whatever is there.
MutNotRehashed(table, q) == [table EXCEPT ![HASH(Signature[stringTable[q]], LargerMask)] = q]

Moved(table, q) ==
    LET sig == Signature[stringTable[q]]
    IN  [table EXCEPT ![Stop(table, LargerMask, {}, HASH(sig, LargerMask), sig)] = q]

InOrder == SelectSeq([i \in 1 .. quarkMask + 1 |-> quarkTable[i - 1]], LAMBDA q : q # 0)

Expanded == FoldLeft(Moved, [i \in 0 .. LargerMask |-> 0], InOrder)

(***************************************************************************)
(* _XrmInternalStringToQuark: before the lock, and with it.  After an      *)
(* expansion it calls itself.                                              *)
(***************************************************************************)
Hashes(t) ==
    /\ texts[t] # <<>> /\ idx[t] = -1
    /\ idx' = [idx EXCEPT ![t] = HASH(Signature[Head(texts[t])], quarkMask)]
    /\ UNCHANGED <<quarkTable, quarkMask, stringTable, texts, misplaced>>

Returns(t) == texts' = [texts EXCEPT ![t] = Tail(@)]

\* The search, with the place where it begins.
Searches(t) ==
    LET string == Head(texts[t])
        sig == Signature[string]
        place == Stop(quarkTable, quarkMask, QuarksOf(string), idx[t], sig)
    IN  /\ idx[t] # -1
        /\ idx' = [idx EXCEPT ![t] = -1]
        /\ misplaced' = (misplaced \/ idx[t] # HASH(sig, quarkMask))
        /\ \/ /\ quarkTable[place] # 0
              /\ Returns(t)
              /\ UNCHANGED <<quarkTable, quarkMask, stringTable>>
           \/ /\ quarkTable[place] = 0 /\ Full
              /\ quarkTable' = Expanded
              /\ quarkMask' = LargerMask
              /\ UNCHANGED <<stringTable, texts>>
           \/ /\ quarkTable[place] = 0 /\ ~Full
              /\ quarkTable' = [quarkTable EXCEPT ![place] = nextQuark]
              /\ stringTable' = Append(stringTable, string)
              /\ Returns(t)
              /\ UNCHANGED quarkMask
           \/ /\ quarkTable[place] = 0      \* no memory: NULLQUARK
              /\ Returns(t)
              /\ UNCHANGED <<quarkTable, quarkMask, stringTable>>

Next == \E t \in Threads : Hashes(t) \/ Searches(t)

Spec == Init /\ [][Next]_quarkVars

-----------------------------------------------------------------------------
(***************************************************************************)
(* A string has one quark: searching for it again, from the place for the  *)
(* present mask, ends at the quark it got first, however often the table   *)
(* was expanded, provided that no search began at a place for an older     *)
(* mask.                                                                   *)
(***************************************************************************)
FoundAgain ==
    misplaced \/ \A q \in DOMAIN stringTable :
        LET sig == Signature[stringTable[q]]
        IN  quarkTable[Stop(quarkTable, quarkMask, QuarksOf(stringTable[q]),
                            HASH(sig, quarkMask), sig)] = q

\* Two quarks are those of two strings.
OneQuark == \A p, q \in DOMAIN stringTable : stringTable[p] = stringTable[q] => p = q
=============================================================================
