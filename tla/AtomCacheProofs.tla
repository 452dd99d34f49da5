-------------------------- MODULE AtomCacheProofs --------------------------
(***************************************************************************)
(* Proofs about AtomCache, for any threads, calls, names, hash functions   *)
(* and size of the table: what the cache holds is what the server has,     *)
(* every call answers each of its items, and slots are reserved by calls   *)
(* that have still to make their requests.                                 *)
(***************************************************************************)
EXTENDS AtomCache, TLAPS, SequenceTheorems, WellFoundedInduction

-----------------------------------------------------------------------------
(***************************************************************************)
(* The inductive invariant.                                                *)
(***************************************************************************)
Places == {"Idle", "Items", "Request", "Flushing", "Flushed", "WaitForReply"}
Calling == Places \ {"Idle"}

Marks == {Waiting(s) : s \in Slots} \cup {Unnamed}
Results == Names \cup {None, Failed, Unset} \cup Marks

Thread ==
    [at : Places, call : Calls, items : Seq(Names), only : BOOLEAN, i : Nat, start : Nat,
     stop : Nat \cup {None}, missed : Nat \cup {None}, slot : Slots \cup {None},
     status : BOOLEAN, result : Seq(Results)]

\* The requests for atoms and names.
Req == [by : Threads, item : Names, only : BOOLEAN, interns : BOOLEAN, awaited : BOOLEAN]

Fresh == [at |-> "Idle", result |-> <<>>]

Types ==
    /\ table \in [Slots -> {None, RESERVED} \cup [name : Names, atom : Names]]
    /\ async_handlers \in Seq(Threads)
    /\ mutex \in Threads \cup {None}
    /\ requests \in Seq(Req)
    /\ answered \in 0..Len(requests)
    /\ Predefined \subseteq known /\ known \subseteq Names
    /\ script \in [Threads -> Seq(AtomCall)]
    /\ local \in [Threads -> Thread \cup {Fresh}]
    /\ mixed \in BOOLEAN /\ early \in BOOLEAN /\ fatal \in BOOLEAN
    /\ errors \in 0..MaxErrors

\* What is still to be called, and what is.
ScriptsKept ==
    \A t \in Threads : \A i \in DOMAIN script[t] :
        script[t][i].call \notin Plural => Len(script[t][i].items) = 1

InCall(t) == local[t].at \in Calling

\* A thread in a call, at item i; "missed" is the last item it has asked for.
Running(x) ==
    /\ x \in Thread
    /\ x.call \notin Plural => Len(x.items) = 1
    /\ Len(x.result) = Len(x.items)
    /\ x.i \in 1..Len(x.items) + 1
    /\ x.at \in {"Request", "Flushing", "Flushed"} => x.i <= Len(x.items)
    /\ x.at = "WaitForReply" => x.i = Len(x.items) + 1 /\ x.missed # None
    /\ x.missed = None <=> x.stop = None
    /\ x.missed # None => x.missed \in 1..x.i - 1
    /\ x.call \notin InternCalls => x.slot = None
    /\ \A k \in DOMAIN x.result : x.result[k] \in Marks =>
          /\ x.missed # None /\ k <= x.missed
          /\ x.call \notin InternCalls => x.result[k] = Unnamed

\* The mutex, and the list of handlers.
LockHeld ==
    \A t \in Threads :
        /\ InCall(t) => Running(local[t])
        /\ local[t].at \in {"Items", "Request", "Flushed"} => mutex = t

HandlersListed ==
    /\ \A i, j \in DOMAIN async_handlers : async_handlers[i] = async_handlers[j] => i = j
    /\ \A t \in Threads : Installed(t) <=> InCall(t) /\ local[t].call \in Plural

\* The requests of t that are not answered are those of its call; while it can
\* not be answered, the last of them is.
Pending(t) == {s \in answered + 1..Len(requests) : requests[s].by = t}

PendingInCall ==
    \A t \in Threads :
        /\ Pending(t) # {} => InCall(t)
        /\ InCall(t) =>
              /\ local[t].start <= Len(requests) + 1
              /\ local[t].missed # None => local[t].stop \in 1..Len(requests)
              /\ \A s \in Pending(t) :
                    /\ local[t].missed # None /\ s \in local[t].start..local[t].stop
                    /\ requests[s].interns <=> local[t].call \in InternCalls
                    /\ requests[s].only = local[t].only
                    /\ requests[s].awaited <=> local[t].at = "WaitForReply" /\ s = local[t].stop
              /\ local[t].at \in {"Items", "Request", "WaitForReply"} /\ local[t].missed # None =>
                    local[t].stop \in Pending(t)

\* The items that were asked for and have no answer.
Asked(t) == {k \in DOMAIN local[t].result : local[t].result[k] \in Marks}

\* f gives for each such item its request: they are answered in order.
Matches(t, f) ==
    /\ f \in [Asked(t) -> Pending(t)]
    /\ \A s \in Pending(t) : \E k \in Asked(t) : f[k] = s
    /\ \A j, k \in Asked(t) : j < k => f[j] < f[k]
    /\ \A k \in Asked(t) : requests[f[k]].item = local[t].items[k]
    /\ local[t].stop \in Pending(t) => local[t].missed \in Asked(t) /\ f[local[t].missed] = local[t].stop

AnswersMatch ==
    \A t \in Threads : InCall(t) => \E f \in [Asked(t) -> Pending(t)] : Matches(t, f)

\* The atoms for which XGetAtomNames asks the server.
AtomsKnown ==
    \A t \in Threads :
        /\ \A i \in DOMAIN script[t] :
              script[t][i].call = "GetAtomNames" =>
                  \A k \in DOMAIN script[t][i].items : script[t][i].items[k] \in Predefined
        /\ InCall(t) /\ local[t].call = "GetAtomNames" =>
              \A k \in DOMAIN local[t].items : local[t].items[k] \in Predefined

\* What a thread in a call has for item k.
ItemTrue(x, k) ==
    \/ k >= x.i /\ x.result[k] = Unset
    \/ k < x.i /\ x.result[k] \in Marks
    \/ k < x.i /\ x.result[k] = x.items[k]
    \/ k < x.i /\ x.result[k] = None /\ (x.only \/ ~x.status)

\* What it had when it returned.
ReturnTrue(x, k) ==
    \/ x.result[k] = x.items[k]
    \/ x.result[k] = None /\ (x.only \/ ~x.status)
    \/ x.result[k] = Unnamed /\ x.call = "GetAtomName"
    \/ x.result[k] = Failed /\ x.call = "InternAtom"

ResultsTrue ==
    \A t \in Threads : \A k \in DOMAIN local[t].result :
        /\ InCall(t) => ItemTrue(local[t], k)
        /\ ~InCall(t) => ReturnTrue(local[t], k)

EntriesTrue == \A s \in Slots : table[s] \in {None, RESERVED} \/ table[s].name = table[s].atom

\* Who has reserved slot s.
Holder(t, s) ==
    \/ local[t].at \in {"Request", "Flushing", "Flushed"} /\ local[t].slot = s
    \/ /\ local[t].at \in {"Items", "Request", "Flushing", "Flushed"}
       /\ \E k \in DOMAIN local[t].result : local[t].result[k] = Waiting(s)

HoldersKnown == \A s \in Reserved : \E t \in Threads : Holder(t, s)

AInv ==
    /\ Types
    /\ ScriptsKept
    /\ LockHeld
    /\ HandlersListed
    /\ PendingInCall
    /\ ~early => HoldersKnown

AnswersInv ==
    /\ AInv
    /\ AtomsKnown
    /\ ~mixed => AnswersMatch /\ ResultsTrue /\ EntriesTrue

-----------------------------------------------------------------------------
(***************************************************************************)
(* Operators.                                                              *)
(***************************************************************************)
\* A nonempty set of numbers has a least one, which Min gives.
LEMMA MinFacts ==
    ASSUME NEW S \in SUBSET Nat, S # {}
    PROVE  Min(S) \in S /\ \A x \in S : Min(S) <= x
<1>1. PICK m \in S : \A k \in S : <<k, m>> \notin OpToRel(<, Nat)
  BY WFMin, NatLessThanWellFounded
<1>2. ASSUME NEW k \in S PROVE m <= k
  <2>1. k \in Nat /\ m \in Nat
    OBVIOUS
  <2>2. CASE k < m
    BY <2>2, <2>1, <1>1 DEF OpToRel
  <2> QED BY <2>1, <2>2
<1>3. \E x \in S : \A y \in S : x =< y
  BY <1>2
<1> QED BY <1>3 DEF Min

\* None, the marks and the names can be told apart.
LEMMA Apart ==
    ASSUME AtomConstants, DistinctNames
    PROVE  /\ None \notin Names /\ None \notin Slots /\ None \notin Threads /\ None \notin Nat
           /\ \A s \in Slots : Waiting(s).slot = s /\ Waiting(s) # Unnamed
           /\ Marks \cap Names = {}
           /\ None \notin Marks /\ Unset \notin Marks /\ Failed \notin Marks
           /\ Failed \notin Names /\ Unset \notin Names
           /\ Failed # None /\ Unset # None /\ Failed # Unset
           /\ RESERVED # None /\ RESERVED \notin [name : Names, atom : Names]
           /\ RESERVED.atom = None
<1> USE DEF AtomConstants, DistinctNames
<1>1. None \notin Names /\ None \notin Slots /\ None \notin Threads /\ None \notin Nat
  BY DEF Slots
<1>2. \A s \in Slots : Waiting(s).slot = s /\ Waiting(s) # Unnamed
  BY <1>1 DEF Waiting, Unnamed
<1>3. Marks \cap Names = {} /\ None \notin Marks
  BY DEF Marks
<1>4. Unset \notin Marks
  <2>1. Unset.slot = TableSize /\ Unnamed.slot = None /\ TableSize \notin Slots
    BY DEF Unset, Unnamed, Slots
  <2>2. Unset # Unnamed /\ \A s \in Slots : Unset # Waiting(s)
    BY <2>1, <1>1, <1>2
  <2> QED BY <2>2 DEF Marks
<1>5. Failed \notin Marks /\ Failed # Unset
  <2>1. DOMAIN Failed = {"failed"} /\ DOMAIN Unset = {"slot"} /\ DOMAIN Unnamed = {"slot"}
        /\ \A s \in Slots : DOMAIN Waiting(s) = {"slot"}
    BY DEF Failed, Unset, Unnamed, Waiting
  <2>2. {"failed"} # {"slot"}
    OBVIOUS
  <2> QED BY <2>1, <2>2 DEF Marks
<1>6. Failed \notin Names /\ Unset \notin Names /\ Failed # None /\ Unset # None
      /\ RESERVED # None
  OBVIOUS
<1>7. RESERVED.atom = None /\ RESERVED \notin [name : Names, atom : Names]
  BY <1>1 DEF RESERVED
<1> QED BY <1>1, <1>2, <1>3, <1>4, <1>5, <1>6, <1>7

\* An element is put before a sequence.
LEMMA ConsFacts ==
    ASSUME NEW S, NEW t \in S, NEW q \in Seq(S)
    PROVE  /\ <<t>> \o q \in Seq(S) /\ Len(<<t>> \o q) = Len(q) + 1
           /\ \A i \in 1..(Len(q) + 1) : (<<t>> \o q)[i] = IF i = 1 THEN t ELSE q[i - 1]
OBVIOUS

\* The members of two sequences that are put together.
LEMMA Joined ==
    ASSUME NEW S, NEW a \in Seq(S), NEW b \in Seq(S)
    PROVE  /\ a \o b \in Seq(S) /\ Len(a \o b) = Len(a) + Len(b)
           /\ \A i \in 1..(Len(a) + Len(b)) :
                 (a \o b)[i] = IF i <= Len(a) THEN a[i] ELSE b[i - Len(a)]
OBVIOUS

\* A sequence without its first member.
LEMMA TailFacts ==
    ASSUME NEW S, NEW s \in Seq(S), s # <<>>
    PROVE  \A i \in DOMAIN Tail(s) : i + 1 \in DOMAIN s /\ Tail(s)[i] = s[i + 1]
OBVIOUS

\* What RemoveAt returns.
LEMMA TakenOut ==
    ASSUME NEW S, NEW s \in Seq(S), NEW i \in 1..Len(s)
    PROVE  /\ RemoveAt(s, i) \in Seq(S) /\ Len(RemoveAt(s, i)) = Len(s) - 1
           /\ \A j \in 1..(Len(s) - 1) :
                 RemoveAt(s, i)[j] = IF j < i THEN s[j] ELSE s[j + 1]
<1> DEFINE a == SubSeq(s, 1, i - 1)
           b == SubSeq(s, i + 1, Len(s))
<1>1. a \in Seq(S) /\ Len(a) = i - 1 /\ \A j \in 1..(i - 1) : a[j] = s[j]
  OBVIOUS
<1>2. b \in Seq(S) /\ Len(b) = Len(s) - i /\ \A j \in 1..(Len(s) - i) : b[j] = s[i + j]
  OBVIOUS
<1>3. RemoveAt(s, i) = a \o b
  BY DEF RemoveAt
<1> HIDE DEF a, b
<1>4. /\ a \o b \in Seq(S) /\ Len(a \o b) = Len(a) + Len(b)
      /\ \A j \in 1..(Len(a) + Len(b)) :
            (a \o b)[j] = IF j <= Len(a) THEN a[j] ELSE b[j - Len(a)]
  BY <1>1, <1>2, Joined
<1> DEFINE r == a \o b
<1>5. r \in Seq(S) /\ Len(r) = Len(s) - 1
  BY <1>1, <1>2, <1>4
<1>6. ASSUME NEW j \in 1..(Len(s) - 1) PROVE r[j] = IF j < i THEN s[j] ELSE s[j + 1]
  <2>0. Len(s) \in Nat /\ j \in 1..(Len(a) + Len(b)) /\ Len(a) = i - 1
    BY <1>1, <1>2
  <2>1. r[j] = IF j <= Len(a) THEN a[j] ELSE b[j - Len(a)]
    BY <2>0, <1>4
  <2> HIDE DEF r
  <2>2. CASE j < i
    <3>1. j <= Len(a) /\ j \in 1..(i - 1)
      BY <2>0, <2>2
    <3> QED BY <3>1, <2>1, <2>2, <1>1
  <2>3. CASE ~(j < i)
    <3>1. ~(j <= Len(a)) /\ j - Len(a) \in 1..(Len(s) - i) /\ i + (j - Len(a)) = j + 1
      BY <2>0, <2>3
    <3>2. b[j - Len(a)] = s[j + 1]
      BY <3>1, <1>2
    <3> QED BY <3>1, <3>2, <2>1, <2>3
  <2> QED BY <2>2, <2>3
<1> QED BY <1>3, <1>5, <1>6

\* RemoveFirst takes a thread from a list in which each is once.
LEMMA Dequeued ==
    ASSUME NEW S, NEW q \in Seq(S), NEW t,
           \A i, j \in DOMAIN q : q[i] = q[j] => i = j
    PROVE  /\ RemoveFirst(q, t) \in Seq(S)
           /\ \A i, j \in DOMAIN RemoveFirst(q, t) :
                 RemoveFirst(q, t)[i] = RemoveFirst(q, t)[j] => i = j
           /\ \A u : (\E i \in DOMAIN RemoveFirst(q, t) : RemoveFirst(q, t)[i] = u)
                     <=> (\E i \in DOMAIN q : q[i] = u) /\ u # t
<1>0. DOMAIN q = 1..Len(q) /\ Len(q) \in Nat
  OBVIOUS
<1>1. CASE ~\E i \in 1..Len(q) : q[i] = t
  <2>1. RemoveFirst(q, t) = q
    BY <1>1 DEF RemoveFirst
  <2> QED BY <2>1, <1>1, <1>0
<1>2. CASE \E i \in 1..Len(q) : q[i] = t
  <2> DEFINE I == {i \in 1..Len(q) : q[i] = t}
             n == Min(I)
             r == RemoveAt(q, n)
  <2>1. I # {} /\ I \in SUBSET Nat
    BY <1>2
  <2>2. n \in 1..Len(q) /\ q[n] = t
    <3> HIDE DEF I
    <3>1. n \in I
      BY <2>1, MinFacts
    <3> QED BY <3>1 DEF I
  <2>3. RemoveFirst(q, t) = r
    BY <1>2, <2>1 DEF RemoveFirst, SelectInSeq
  <2> HIDE DEF I, n
  <2>4. /\ r \in Seq(S) /\ Len(r) = Len(q) - 1
        /\ \A j \in 1..(Len(q) - 1) : r[j] = IF j < n THEN q[j] ELSE q[j + 1]
    BY <2>2, TakenOut
  <2> HIDE DEF r
  <2>5. DOMAIN r = 1..(Len(q) - 1)
    BY <2>4, <1>0
  <2>6. \A i, j \in DOMAIN r : r[i] = r[j] => i = j
    BY <2>2, <2>4, <2>5, <1>0
  <2>7. ASSUME NEW i \in DOMAIN r PROVE (\E j \in DOMAIN q : q[j] = r[i]) /\ r[i] # t
    BY <2>2, <2>4, <2>5, <1>0
  <2>8. ASSUME NEW i \in DOMAIN q, q[i] # t PROVE \E j \in DOMAIN r : r[j] = q[i]
    <3>1. CASE i < n
      <4>1. i \in DOMAIN r /\ r[i] = q[i]
        BY <3>1, <2>2, <2>4, <2>5, <1>0
      <4> QED BY <4>1
    <3>2. CASE ~(i < n)
      <4>1. i - 1 \in DOMAIN r /\ r[i - 1] = q[i]
        BY <3>2, <2>8, <2>2, <2>4, <2>5, <1>0
      <4> QED BY <4>1
    <3> QED BY <3>1, <3>2
  <2>9. \A u : (\E i \in DOMAIN r : r[i] = u) <=> (\E i \in DOMAIN q : q[i] = u) /\ u # t
    BY <2>7, <2>8
  <2> QED BY <2>3, <2>4, <2>6, <2>9
<1> QED BY <1>1, <1>2

\* The searches end in the table.
LEMMA Searched ==
    ASSUME AtomConstants, NEW name \in Names
    PROVE  Place(name) \in Slots /\ FreePlace(name) \in Slots
<1> DEFINE path == Path(name)
           n == AtomHash[name]
           m == AtomRehash[name]
<1>1. TableSize \in Nat \ {0} /\ n \in Nat /\ m \in Nat
  BY DEF AtomConstants
<1>2. ASSUME NEW k \in Slots PROVE path[k] \in Slots
  <2>0. path[k] = (n + k * m) % TableSize
    BY <1>2 DEF Path, Slots
  <2> HIDE DEF n, m, path
  <2>1. k * m \in Nat
    BY <1>1 DEF Slots
  <2>2. (n + k * m) \in Nat
    BY <2>1, <1>1
  <2>3. (n + k * m) % TableSize \in 0..(TableSize - 1)
    BY <2>2, <1>1
  <2> QED BY <2>0, <2>3 DEF Slots
<1>3. DOMAIN path = Slots /\ 0 \in Slots /\ Slots \subseteq Nat
  BY <1>1 DEF Path, Slots
<1> DEFINE ends == {k \in DOMAIN path : table[path[k]] = None \/ Holds(name, path[k])}
           free == {k \in DOMAIN path : table[path[k]] = None}
<1>4. Place(name) = IF ends = {} THEN path[0] ELSE path[Min(ends)]
  BY DEF Place
<1>5. FreePlace(name) = IF free = {} THEN path[0] ELSE path[Min(free)]
  BY DEF FreePlace
<1>6. ends \in SUBSET Slots /\ free \in SUBSET Slots
  BY <1>3
<1> HIDE DEF ends, free, path
<1>7. (ends # {} => Min(ends) \in Slots) /\ (free # {} => Min(free) \in Slots)
  <2>1. ends \in SUBSET Nat /\ free \in SUBSET Nat
    BY <1>3, <1>6
  <2>2. (ends # {} => Min(ends) \in ends) /\ (free # {} => Min(free) \in free)
    BY <2>1, MinFacts
  <2> QED BY <2>2, <1>6
<1> QED BY <1>2, <1>3, <1>4, <1>5, <1>7

\* The first entry of an atom is not the pointer RESERVED.
LEMMA EntryFound ==
    ASSUME AtomConstants, DistinctNames, NEW atom \in Names, Entries(atom) # {}
    PROVE  /\ Min(Entries(atom)) \in Slots
           /\ table[Min(Entries(atom))] \notin {None, RESERVED}
           /\ table[Min(Entries(atom))].atom = atom
<1>1. Entries(atom) \in SUBSET Nat
  BY DEF Entries, Slots, AtomConstants
<1>2. Min(Entries(atom)) \in Entries(atom)
  BY <1>1, MinFacts
<1> QED BY <1>2, Apart DEF Entries

\* The slot in which an answer is put, and the table with it.
LEMMA AnswerCached ==
    ASSUME AtomConstants, DistinctNames, Types, NEW t \in Threads, Running(local[t]),
           NEW k \in DOMAIN local[t].result, NEW answer \in Names \cup {None}
    PROVE  /\ Cached(t, k, answer) \in [Slots -> {None, RESERVED} \cup [name : Names, atom : Names]]
           /\ \A s \in Slots :
                 \/ Cached(t, k, answer)[s] = table[s]
                 \/ /\ answer # None
                    /\ Cached(t, k, answer)[s] # RESERVED
                    /\ answer = local[t].items[k] =>
                          Cached(t, k, answer)[s].name = Cached(t, k, answer)[s].atom
<1> DEFINE name == IF local[t].call \in InternCalls THEN local[t].items[k] ELSE answer
           atom == IF local[t].call \in InternCalls THEN answer ELSE local[t].items[k]
           slot == CacheSlot(t, k, name)
<1>1. CASE answer = None
  <2>1. Cached(t, k, answer) = table
    BY <1>1 DEF Cached
  <2> QED BY <2>1 DEF Types
<1>2. CASE answer # None
  <2>1. local[t].items[k] \in Names
    BY DEF Running, Thread
  <2>2. name \in Names /\ atom \in Names
    BY <2>1, <1>2
  <2>3. Cached(t, k, answer) = [table EXCEPT ![slot] = [name |-> name, atom |-> atom]]
    BY <1>2 DEF Cached, Updated
  <2>4. answer = local[t].items[k] => name = atom
    OBVIOUS
  <2>5. slot \in Slots
    <3>1. CASE local[t].result[k] \in {Waiting(s) : s \in Slots}
      BY <3>1, Apart DEF CacheSlot
    <3>2. CASE local[t].result[k] \notin {Waiting(s) : s \in Slots}
      BY <3>2, <2>2, Searched DEF CacheSlot
    <3> QED BY <3>1, <3>2
  <2> HIDE DEF name, atom, slot
  <2>6. [name |-> name, atom |-> atom] \in [name : Names, atom : Names]
    BY <2>2
  <2>7. table \in [Slots -> {None, RESERVED} \cup [name : Names, atom : Names]]
    BY DEF Types
  <2>8. [name |-> name, atom |-> atom] # RESERVED
    BY <2>6, Apart
  <2> QED BY <2>3, <2>4, <2>5, <2>6, <2>7, <2>8, <1>2
<1> QED BY <1>1, <1>2


-----------------------------------------------------------------------------
(***************************************************************************)
(* The steps, one by one: AInv.                                            *)
(***************************************************************************)
\* Nothing has been called.
LEMMA InitAInv ==
    ASSUME AtomConstants, DistinctNames, Init
    PROVE  AInv
<1>1. Types
  <2>1. script \in [Threads -> Seq(AtomCall)]
    BY DEF Init, AtomConstants
  <2>2. local \in [Threads -> Thread \cup {Fresh}]
    BY DEF Init, Fresh
  <2>3. answered \in 0..Len(requests) /\ errors \in 0..MaxErrors
    BY DEF Init, AtomConstants
  <2>4. table \in [Slots -> {None, RESERVED} \cup [name : Names, atom : Names]]
    BY DEF Init
  <2>5. async_handlers \in Seq(Threads) /\ mutex \in Threads \cup {None}
        /\ Predefined \subseteq known /\ known \subseteq Names
    BY DEF Init, AtomConstants
  <2>7. mixed \in BOOLEAN /\ early \in BOOLEAN /\ fatal \in BOOLEAN
    BY DEF Init
  <2>6. requests \in Seq(Req)
    BY DEF Init
  <2> QED BY <2>1, <2>2, <2>3, <2>4, <2>5, <2>6, <2>7 DEF Types
<1>2. ScriptsKept
  BY DEF ScriptsKept, Init, AtomConstants
<1>3. \A t \in Threads : local[t].at = "Idle"
  BY DEF Init
<1>4. LockHeld /\ HandlersListed
  BY <1>3 DEF Init, LockHeld, HandlersListed, InCall, Calling, Installed
<1>5. PendingInCall
  BY <1>3 DEF Init, PendingInCall, Pending, InCall, Calling
<1>6. Reserved = {}
  BY Apart DEF Reserved, Init
<1> QED BY <1>1, <1>2, <1>4, <1>5, <1>6 DEF AInv, HoldersKnown

\* The head of a call.
LEMMA EnterAInv ==
    ASSUME AtomConstants, DistinctNames, AInv, NEW t \in Threads, Enter(t)
    PROVE  AInv'
<1> DEFINE c == Head(script[t])
           y == [at |-> "Items", call |-> c.call, items |-> c.items, only |-> c.only,
                 i |-> 1, start |-> Len(requests) + 1, stop |-> None, missed |-> None,
                 slot |-> None, status |-> TRUE,
                 result |-> [k \in DOMAIN c.items |-> Unset]]
<1>0. Types /\ ScriptsKept /\ LockHeld /\ HandlersListed /\ PendingInCall
      /\ (~early => HoldersKnown)
  BY DEF AInv
<1>1. /\ local[t].at = "Idle" /\ mutex = None /\ mutex' = t /\ script[t] # <<>>
      /\ local' = [local EXCEPT ![t] = y]
      /\ async_handlers' = IF c.call \in Plural THEN <<t>> \o async_handlers
                           ELSE async_handlers
      /\ script' = [script EXCEPT ![t] = Tail(@)]
      /\ UNCHANGED <<table, requests, answered, known, errors, mixed, early, fatal>>
  BY DEF Enter, At, serverVars
<1>2. c \in AtomCall /\ (c.call \notin Plural => Len(c.items) = 1)
  BY <1>0, <1>1 DEF Types, ScriptsKept
<1>3. /\ Running(y) /\ y \in Thread /\ y.at = "Items" /\ y.missed = None /\ y.call = c.call
      /\ y.start = Len(requests) + 1
      /\ \A k \in DOMAIN y.result : y.result[k] = Unset
  <2>1. y.result \in Seq(Results) /\ Len(y.result) = Len(c.items) /\ Len(c.items) \in Nat
        /\ DOMAIN y.result = 1..Len(c.items)
    BY <1>2 DEF AtomCall, Results
  <2>2. y \in Thread
    BY <2>1, <1>0, <1>2 DEF AtomCall, Thread, Types, Places
  <2> QED BY <2>1, <2>2, <1>2, Apart DEF Running
<1>4. local' \in [Threads -> Thread \cup {Fresh}] /\ local'[t] = y
      /\ \A u \in Threads \ {t} : local'[u] = local[u]
  BY <1>0, <1>1, <1>3 DEF Types
<1> HIDE DEF y
<1>5. async_handlers' \in Seq(Threads)
  BY <1>0, <1>1, ConsFacts DEF Types
<1>6. Types'
  <2>1. script' \in [Threads -> Seq(AtomCall)]
    BY <1>0, <1>1 DEF Types
  <2> QED BY <2>1, <1>0, <1>1, <1>4, <1>5 DEF Types
<1>7. ScriptsKept'
  <2>1. script'[t] = Tail(script[t]) /\ \A u \in Threads \ {t} : script'[u] = script[u]
    BY <1>0, <1>1 DEF Types
  <2>2. script[t] \in Seq(AtomCall) /\ script[t] # <<>>
    BY <1>0, <1>1 DEF Types
  <2>3. \A i \in DOMAIN Tail(script[t]) :
            i + 1 \in DOMAIN script[t] /\ Tail(script[t])[i] = script[t][i + 1]
    BY <2>2, TailFacts
  <2>4. ASSUME NEW u \in Threads, NEW i \in DOMAIN script'[u]
        PROVE  \E j \in DOMAIN script[u] : script'[u][i] = script[u][j]
    BY <2>1, <2>3, <2>4
  <2> QED BY <2>4, <1>0 DEF ScriptsKept
<1>8. LockHeld'
  BY <1>0, <1>1, <1>3, <1>4, Apart DEF LockHeld, InCall, Calling, Places
<1>9. HandlersListed'
  <2>1. ~Installed(t)
    BY <1>0, <1>1 DEF HandlersListed, InCall, Calling
  <2>2. \A u \in Threads : InCall(u)' <=> InCall(u) \/ u = t
    BY <1>3, <1>4 DEF InCall, Calling, Places
  <2>3. \A u \in Threads : local'[u].call = IF u = t THEN c.call ELSE local[u].call
    BY <1>3, <1>4
  <2>4. CASE c.call \in Plural
    <3>1. async_handlers' = <<t>> \o async_handlers /\ async_handlers \in Seq(Threads)
      BY <2>4, <1>0, <1>1 DEF Types
    <3> DEFINE q == async_handlers
    <3>2. /\ DOMAIN async_handlers' = 1..(Len(q) + 1) /\ DOMAIN q = 1..Len(q) /\ Len(q) \in Nat
          /\ \A i \in 1..(Len(q) + 1) : async_handlers'[i] = IF i = 1 THEN t ELSE q[i - 1]
      BY <3>1, ConsFacts
    <3>3. \A i \in DOMAIN q : q[i] # t
      BY <2>1 DEF Installed
    <3>4. \A i, j \in DOMAIN async_handlers' : async_handlers'[i] = async_handlers'[j] => i = j
      BY <3>2, <3>3, <1>0 DEF HandlersListed
    <3>5. \A u \in Threads : Installed(u)' <=> Installed(u) \/ u = t
      <4>1. Installed(t)'
        BY <3>2 DEF Installed
      <4>2. ASSUME NEW u \in Threads, Installed(u) PROVE Installed(u)'
        <5>1. PICK i \in DOMAIN q : q[i] = u
          BY <4>2 DEF Installed
        <5>2. i + 1 \in 1..(Len(q) + 1) /\ async_handlers'[i + 1] = u
          BY <5>1, <3>2
        <5> QED BY <5>2, <3>2 DEF Installed
      <4>3. ASSUME NEW u \in Threads, Installed(u)', u # t PROVE Installed(u)
        BY <4>3, <3>2 DEF Installed
      <4> QED BY <4>1, <4>2, <4>3
    <3> QED BY <3>4, <3>5, <2>1, <2>2, <2>3, <2>4, <1>0 DEF HandlersListed
  <2>5. CASE c.call \notin Plural
    <3>1. async_handlers' = async_handlers /\ \A u \in Threads : Installed(u)' <=> Installed(u)
      BY <2>5, <1>1 DEF Installed
    <3> QED BY <3>1, <2>1, <2>2, <2>3, <2>5, <1>0 DEF HandlersListed
  <2> QED BY <2>4, <2>5
<1>10. PendingInCall'
  <2>1. \A u \in Threads : Pending(u)' = Pending(u)
    BY <1>1 DEF Pending
  <2>2. Pending(t) = {}
    BY <1>0, <1>1 DEF PendingInCall, InCall, Calling
  <2>3. \A u \in Threads \ {t} : InCall(u)' = InCall(u)
    BY <1>4 DEF InCall
  <2>4. y.start <= Len(requests) + 1
    BY <1>0, <1>3 DEF Types
  <2> QED BY <2>1, <2>2, <2>3, <2>4, <1>0, <1>1, <1>3, <1>4 DEF PendingInCall
<1>11. ~early' => HoldersKnown'
  <2>1. \A u \in Threads, s \in Slots : Holder(u, s) => Holder(u, s)'
    BY <1>1, <1>4 DEF Holder
  <2> QED BY <2>1, <1>0, <1>1 DEF HoldersKnown, Reserved
<1> QED BY <1>6, <1>7, <1>8, <1>9, <1>10, <1>11 DEF AInv


\* The thread has the answer r for the item it is at.
Done(x, r) == [x EXCEPT !.result[x.i] = r, !.i = @ + 1]

\* The change of one thread.
LEMMA OneThread ==
    ASSUME Types, NEW t \in Threads, NEW y \in Thread, local' = [local EXCEPT ![t] = y]
    PROVE  /\ local' \in [Threads -> Thread \cup {Fresh}]
           /\ local'[t] = y
           /\ \A u \in Threads \ {t} : local'[u] = local[u]
BY DEF Types

\* What the look-up of an item does.
LEMMA LookUpFacts ==
    ASSUME AtomConstants, DistinctNames, AInv, NEW t \in Threads, LookUp(t)
    PROVE  /\ local[t].at = "Items" /\ Running(local[t]) /\ local[t].i \in DOMAIN local[t].result
           /\ UNCHANGED <<async_handlers, mutex, requests, answered, known, errors, script, mixed, early>>
           /\ fatal' \in BOOLEAN
           /\ \/ UNCHANGED <<table, local>>
              \/ /\ UNCHANGED table
                 /\ \E atom \in Names :
                       /\ EntriesTrue => atom = Item(t)
                       /\ local' = [local EXCEPT ![t] = Done(@, atom)]
              \/ \E s \in Slots \cup {None} :
                    /\ local[t].call \notin InternCalls => s = None
                    /\ local' = [local EXCEPT ![t] = [@ EXCEPT !.at = "Request", !.slot = s]]
                    /\ \/ table' = table
                       \/ s # None /\ table' = [table EXCEPT ![s] = RESERVED]
<1> DEFINE x == local[t]
<1>0. Types /\ LockHeld
  BY DEF AInv
<1>1. /\ local[t].at = "Items" /\ local[t].i <= Len(local[t].items) /\ ~fatal
      /\ LookUpName(t) \/ LookUpAtom(t)
      /\ UNCHANGED <<async_handlers, mutex, requests, answered, known, errors, script, mixed, early>>
  BY DEF LookUp, At, serverVars
<1>2. Running(local[t]) /\ local[t].i \in DOMAIN local[t].result /\ Item(t) \in Names
      /\ local[t] \in Thread
  <2>1. Running(local[t])
    BY <1>0, <1>1 DEF LockHeld, InCall, Calling, Places
  <2>2. x \in Thread /\ Len(x.result) = Len(x.items) /\ x.i \in 1..Len(x.items) + 1
    BY <2>1 DEF Running
  <2>3. x.result \in Seq(Results) /\ x.items \in Seq(Names)
    BY <2>2 DEF Thread
  <2>4. x.i \in 1..Len(x.items) /\ DOMAIN x.result = 1..Len(x.items)
    BY <1>1, <2>2, <2>3
  <2> QED BY <2>1, <2>2, <2>3, <2>4 DEF Item
<1>3. local \in [Threads -> Thread \cup {Fresh}]
      /\ table \in [Slots -> {None, RESERVED} \cup [name : Names, atom : Names]]
  BY <1>0 DEF Types
<1>4. ASSUME NEW r, Answered(t, r)
      PROVE  /\ UNCHANGED table
             /\ local' = [local EXCEPT ![t] = Done(@, r)]
  BY <1>3, <1>4 DEF Answered, Done
<1>5. ASSUME NEW s, Missed(t, s)
      PROVE  /\ local' = [local EXCEPT ![t] = [@ EXCEPT !.at = "Request", !.slot = s]]
             /\ table' = table \/ (s # None /\ table' = [table EXCEPT ![s] = RESERVED])
  BY <1>3, <1>5 DEF Missed
<1>6. CASE LookUpName(t)
  <2> DEFINE s == Place(Item(t))
  <2>1. s \in Slots /\ x.call \in InternCalls
    BY <1>2, <1>6, Searched DEF LookUpName
  <2>2. fatal' \in BOOLEAN
    BY <1>6, <1>0 DEF LookUpName, Types
  <2>3. CASE Holds(Item(t), s)
    <3>1. Answered(t, table[s].atom)
      BY <2>3, <1>6 DEF LookUpName
    <3>2. table[s].atom \in Names /\ (EntriesTrue => table[s].atom = Item(t))
      BY <2>1, <2>3, <1>3 DEF Holds, EntriesTrue
    <3> HIDE DEF s
    <3>3. /\ UNCHANGED table
          /\ local' = [local EXCEPT ![t] = Done(@, table[s].atom)]
      BY <3>1, <1>4
    <3> QED BY <1>1, <1>2, <2>2, <3>2, <3>3
  <2>4. CASE ~Holds(Item(t), s)
    <3>1. Missed(t, s)
      BY <2>4, <1>6 DEF LookUpName
    <3> HIDE DEF s
    <3> QED BY <1>1, <1>2, <1>5, <2>1, <2>2, <3>1
  <2> QED BY <2>3, <2>4
<1>7. CASE LookUpAtom(t)
  <2> DEFINE e == Min(Entries(Item(t)))
  <2>1. x.call \notin InternCalls /\ fatal' \in BOOLEAN
    BY <1>7 DEF LookUpAtom
  <2>2. CASE fatal'
    <3>1. UNCHANGED <<table, local>>
      BY <1>7, <2>2 DEF LookUpAtom
    <3> QED BY <1>1, <1>2, <1>3, <2>1, <3>1
  <2>3. CASE ~fatal' /\ Entries(Item(t)) = {}
    <3>1. Missed(t, None)
      BY <1>7, <2>3 DEF LookUpAtom
    <3> QED BY <1>1, <1>2, <1>5, <2>1, <3>1
  <2>4. CASE ~fatal' /\ Entries(Item(t)) # {}
    <3>1. Answered(t, table[e].name)
      BY <1>7, <2>4 DEF LookUpAtom
    <3>2. e \in Slots /\ table[e] \notin {None, RESERVED} /\ table[e].atom = Item(t)
      BY <1>2, <2>4, EntryFound
    <3> HIDE DEF e
    <3>3. table[e].name \in Names /\ (EntriesTrue => table[e].name = Item(t))
      BY <3>2, <1>3 DEF EntriesTrue
    <3>4. /\ UNCHANGED table
          /\ local' = [local EXCEPT ![t] = Done(@, table[e].name)]
      BY <3>1, <1>4
    <3> QED BY <1>1, <1>2, <2>1, <3>3, <3>4
  <2> QED BY <2>2, <2>3, <2>4
<1> QED BY <1>1, <1>6, <1>7


\* A step within a call that makes no request and reads no answer.
LEMMA SameCall ==
    ASSUME AInv, NEW t \in Threads, InCall(t), InCall(t)',
           UNCHANGED <<async_handlers, requests, answered, script>>,
           \A u \in Threads \ {t} : local'[u] = local[u],
           local'[t].call = local[t].call, local'[t].only = local[t].only,
           local'[t].start = local[t].start, local'[t].stop = local[t].stop,
           local'[t].missed = local[t].missed,
           local'[t].at # "WaitForReply", local[t].at # "WaitForReply",
           local'[t].at \in {"Items", "Request"} => local[t].at \in {"Items", "Request"}
    PROVE  ScriptsKept' /\ HandlersListed' /\ PendingInCall'
<1>0. ScriptsKept /\ HandlersListed /\ PendingInCall
  BY DEF AInv
<1>1. ScriptsKept'
  BY <1>0 DEF ScriptsKept
<1>2. \A u \in Threads : /\ InCall(u)' <=> InCall(u)
                         /\ Installed(u)' <=> Installed(u)
                         /\ Pending(u)' = Pending(u)
                         /\ local'[u].call = local[u].call
  BY DEF InCall, Installed, Pending
<1>3. HandlersListed'
  BY <1>0, <1>2 DEF HandlersListed
<1>4. ASSUME NEW u \in Threads, InCall(u)'
      PROVE  /\ local'[u].start <= Len(requests') + 1
             /\ local'[u].missed # None => local'[u].stop \in 1..Len(requests')
             /\ \A s \in Pending(u)' :
                    /\ local'[u].missed # None /\ s \in local'[u].start..local'[u].stop
                    /\ requests'[s].interns <=> local'[u].call \in InternCalls
                    /\ requests'[s].only = local'[u].only
                    /\ requests'[s].awaited <=> local'[u].at = "WaitForReply" /\ s = local'[u].stop
             /\ local'[u].at \in {"Items", "Request", "WaitForReply"} /\ local'[u].missed # None =>
                    local'[u].stop \in Pending(u)'
  <2>1. CASE u = t
    BY <1>0, <1>2, <1>4, <2>1 DEF PendingInCall
  <2>2. CASE u # t
    <3>1. local'[u] = local[u]
      BY <2>2
    <3> QED BY <1>0, <1>2, <1>4, <3>1 DEF PendingInCall
  <2> QED BY <2>1, <2>2
<1>5. PendingInCall'
  BY <1>0, <1>2, <1>4 DEF PendingInCall
<1> QED BY <1>1, <1>3, <1>5

\* An answer for the item that a thread is at.
LEMMA ItemDone ==
    ASSUME NEW x, Running(x), x.at \in {"Items", "Request", "Flushed"},
           x.i \in DOMAIN x.result, NEW r \in Results,
           NEW y, y = Done(x, r)
    PROVE  /\ y \in Thread
           /\ y.at = x.at /\ y.call = x.call /\ y.items = x.items /\ y.only = x.only
           /\ y.start = x.start /\ y.stop = x.stop /\ y.missed = x.missed /\ y.slot = x.slot
           /\ y.status = x.status /\ y.i = x.i + 1
           /\ y.result = [x.result EXCEPT ![x.i] = r]
           /\ DOMAIN y.result = DOMAIN x.result /\ DOMAIN x.result = 1..Len(x.items)
           /\ Len(y.result) = Len(y.items) /\ y.i \in 1..Len(y.items) + 1
<1>1. x \in Thread /\ Len(x.result) = Len(x.items) /\ x.result \in Seq(Results)
      /\ x.items \in Seq(Names) /\ x.i \in Nat
  BY DEF Running, Thread
<1>2. /\ y.at = x.at /\ y.call = x.call /\ y.items = x.items /\ y.only = x.only
      /\ y.start = x.start /\ y.stop = x.stop /\ y.missed = x.missed /\ y.slot = x.slot
      /\ y.status = x.status /\ y.i = x.i + 1
      /\ y.result = [x.result EXCEPT ![x.i] = r]
  BY <1>1 DEF Thread, Done
<1>3. /\ [x.result EXCEPT ![x.i] = r] \in Seq(Results)
      /\ Len([x.result EXCEPT ![x.i] = r]) = Len(x.result)
      /\ DOMAIN [x.result EXCEPT ![x.i] = r] = DOMAIN x.result
      /\ DOMAIN x.result = 1..Len(x.items)
  BY <1>1
<1>4. y.result \in Seq(Results) /\ Len(y.result) = Len(y.items) /\ y.i \in 1..Len(y.items) + 1
  BY <1>1, <1>2, <1>3
<1>5. y \in Thread
  <2> DEFINE p == [x.result EXCEPT ![x.i] = r]
             n == x.i + 1
  <2>1. y = [[x EXCEPT !.result = p] EXCEPT !.i = n] /\ p \in Seq(Results) /\ n \in Nat
    BY <1>1, <1>3 DEF Done
  <2> HIDE DEF p, n
  <2> QED BY <1>1, <2>1 DEF Thread
<1> QED BY <1>1, <1>2, <1>3, <1>4, <1>5

\* An item is found, or its slot reserved.
LEMMA LookUpAInv ==
    ASSUME AtomConstants, DistinctNames, AInv, NEW t \in Threads, LookUp(t)
    PROVE  AInv'
<1> DEFINE x == local[t]
<1>0. Types /\ ScriptsKept /\ LockHeld /\ HandlersListed /\ PendingInCall
      /\ (~early => HoldersKnown)
  BY DEF AInv
<1>1. /\ local[t].at = "Items" /\ Running(local[t]) /\ local[t].i \in DOMAIN local[t].result
      /\ UNCHANGED <<async_handlers, mutex, requests, answered, known, errors, script, mixed, early>>
      /\ fatal' \in BOOLEAN
  BY LookUpFacts
<1>2. x \in Thread /\ x.result \in Seq(Results) /\ x.i \in Nat /\ x.i \in 1..Len(x.items)
      /\ DOMAIN x.result = 1..Len(x.items)
      /\ \A k \in DOMAIN x.result : x.result[k] \in Marks => x.missed # None /\ k <= x.missed /\ k < x.i
  <2>1. x \in Thread /\ Len(x.result) = Len(x.items) /\ x.result \in Seq(Results)
        /\ x.items \in Seq(Names) /\ x.i \in Nat
        /\ (x.missed # None => x.missed \in 1..x.i - 1)
    BY <1>1 DEF Running, Thread
  <2>2. DOMAIN x.result = 1..Len(x.items)
    BY <2>1
  <2>3. \A k \in DOMAIN x.result : x.result[k] \in Marks => x.missed # None /\ k <= x.missed
    BY <1>1 DEF Running
  <2> QED BY <1>1, <2>1, <2>2, <2>3
<1>3. CASE UNCHANGED <<table, local>>
  <2>1. Types'
    BY <1>0, <1>1, <1>3 DEF Types
  <2>2. LockHeld'
    BY <1>0, <1>1, <1>3 DEF LockHeld, InCall
  <2>3. ScriptsKept' /\ HandlersListed' /\ PendingInCall'
    BY <1>1, <1>3, SameCall DEF InCall, Calling, Places
  <2>4. ~early' => HoldersKnown'
    BY <1>0, <1>1, <1>3 DEF HoldersKnown, Reserved, Holder
  <2> QED BY <2>1, <2>2, <2>3, <2>4 DEF AInv
<1>4. ASSUME UNCHANGED table,
             NEW atom \in Names,
             local' = [local EXCEPT ![t] = Done(@, atom)]
      PROVE  AInv'
  <2> DEFINE y == Done(x, atom)
  <2>1. /\ y \in Thread
        /\ y.at = x.at /\ y.call = x.call /\ y.items = x.items /\ y.only = x.only
        /\ y.start = x.start /\ y.stop = x.stop /\ y.missed = x.missed /\ y.slot = x.slot
        /\ y.status = x.status /\ y.i = x.i + 1
        /\ y.result = [x.result EXCEPT ![x.i] = atom]
        /\ DOMAIN y.result = DOMAIN x.result /\ DOMAIN x.result = 1..Len(x.items)
        /\ Len(y.result) = Len(y.items) /\ y.i \in 1..Len(y.items) + 1
    <3>1. atom \in Results
      BY DEF Results
    <3> HIDE DEF x, y
    <3>2. Running(x) /\ x.at \in {"Items", "Request", "Flushed"} /\ x.i \in DOMAIN x.result
      BY <1>1 DEF x
    <3>3. y = Done(x, atom)
      BY DEF y
    <3> QED BY <3>1, <3>2, <3>3, ItemDone
  <2>0. /\ local' \in [Threads -> Thread \cup {Fresh}] /\ local'[t] = y
        /\ \A u \in Threads \ {t} : local'[u] = local[u]
    <3>1. local' = [local EXCEPT ![t] = y]
      BY <1>4
    <3> HIDE DEF y
    <3> QED BY <3>1, <2>1, <1>0, OneThread
  <2> HIDE DEF y
  <2>2. \A k \in DOMAIN y.result : y.result[k] = IF k = x.i THEN atom ELSE x.result[k]
    BY <2>1
  <2>3. atom \notin Marks
    BY Apart
  <2>4. Running(y)
    <3>1. \A k \in DOMAIN y.result : y.result[k] \in Marks =>
              /\ y.missed # None /\ k <= y.missed
              /\ y.call \notin InternCalls => y.result[k] = Unnamed
      BY <1>1, <2>1, <2>2, <2>3 DEF Running
    <3>2. y.missed # None => y.missed \in 1..y.i - 1
      BY <1>1, <1>2, <2>1 DEF Running
    <3> QED BY <1>1, <2>1, <3>1, <3>2 DEF Running
  <2>5. Types'
    BY <2>0, <1>0, <1>1, <1>4 DEF Types
  <2>6. LockHeld'
    BY <1>0, <1>1, <2>0, <2>1, <2>4 DEF LockHeld, InCall
  <2>7. ScriptsKept' /\ HandlersListed' /\ PendingInCall'
    BY <1>1, <2>0, <2>1, SameCall DEF InCall, Calling, Places
  <2>8. ~early' => HoldersKnown'
    <3>1. \A u \in Threads, s \in Slots : Holder(u, s) => Holder(u, s)'
      <4>1. \A s \in Slots : Holder(t, s) => Holder(t, s)'
        <5>1. \A k \in DOMAIN x.result, s \in Slots : x.result[k] = Waiting(s) => k # x.i
          BY <1>2 DEF Marks
        <5> QED BY <5>1, <1>1, <2>0, <2>1, <2>2 DEF Holder
      <4>2. \A u \in Threads \ {t}, s \in Slots : Holder(u, s) => Holder(u, s)'
        BY <2>0 DEF Holder
      <4> QED BY <4>1, <4>2
    <3> QED BY <3>1, <1>0, <1>1, <1>4 DEF HoldersKnown, Reserved
  <2> QED BY <2>5, <2>6, <2>7, <2>8 DEF AInv
<1>5. ASSUME NEW s \in Slots \cup {None},
             x.call \notin InternCalls => s = None,
             local' = [local EXCEPT ![t] = [@ EXCEPT !.at = "Request", !.slot = s]],
             table' = table \/ (s # None /\ table' = [table EXCEPT ![s] = RESERVED])
      PROVE  AInv'
  <2> DEFINE y == [x EXCEPT !.at = "Request", !.slot = s]
  <2>1. /\ y.at = "Request" /\ y.call = x.call /\ y.items = x.items /\ y.only = x.only
        /\ y.start = x.start /\ y.stop = x.stop /\ y.missed = x.missed /\ y.slot = s
        /\ y.status = x.status /\ y.i = x.i /\ y.result = x.result /\ y \in Thread
    BY <1>2 DEF Thread, Places
  <2>2. /\ local' \in [Threads -> Thread \cup {Fresh}] /\ local'[t] = y
        /\ \A u \in Threads \ {t} : local'[u] = local[u]
    <3>1. local' = [local EXCEPT ![t] = y]
      BY <1>5
    <3> HIDE DEF y
    <3> QED BY <3>1, <2>1, <1>0, OneThread
  <2> HIDE DEF y
  <2>3. Running(y)
    <3>1. y.i <= Len(y.items)
      BY <1>2, <2>1
    <3> QED BY <1>1, <1>5, <2>1, <3>1 DEF Running
  <2>4. table' \in [Slots -> {None, RESERVED} \cup [name : Names, atom : Names]]
    BY <1>0, <1>5 DEF Types
  <2>5. Types'
    BY <2>2, <2>4, <1>0, <1>1 DEF Types
  <2>6. LockHeld'
    BY <1>0, <1>1, <2>1, <2>2, <2>3 DEF LockHeld, InCall
  <2>7. ScriptsKept' /\ HandlersListed' /\ PendingInCall'
    BY <1>1, <2>1, <2>2, SameCall DEF InCall, Calling, Places
  <2>8. ~early' => HoldersKnown'
    <3>1. \A u \in Threads, z \in Slots : Holder(u, z) => Holder(u, z)'
      <4>1. \A z \in Slots : Holder(t, z) => Holder(t, z)'
        BY <1>1, <2>1, <2>2 DEF Holder
      <4>2. \A u \in Threads \ {t}, z \in Slots : Holder(u, z) => Holder(u, z)'
        BY <2>2 DEF Holder
      <4> QED BY <4>1, <4>2
    <3>2. s \in Slots => Holder(t, s)'
      BY <2>1, <2>2 DEF Holder
    <3>3. ASSUME NEW z \in Reserved' PROVE z \in Slots /\ (z \in Reserved \/ z = s)
      BY <1>0, <1>5, <3>3 DEF Reserved, Types
    <3>4. ASSUME NEW z \in Reserved', ~early' PROVE \E u \in Threads : Holder(u, z)'
      <4>1. CASE z = s
        BY <4>1, <3>2, <3>3
      <4>2. CASE z \in Reserved
        <5>1. PICK u \in Threads : Holder(u, z)
          BY <4>2, <3>4, <1>0, <1>1 DEF HoldersKnown
        <5> QED BY <5>1, <3>1, <3>3
      <4> QED BY <4>1, <4>2, <3>3
    <3> QED BY <3>4 DEF HoldersKnown
  <2> QED BY <2>5, <2>6, <2>7, <2>8 DEF AInv
<1> QED BY <1>3, <1>4, <1>5, LookUpFacts


\* The lock is given up while the buffer is flushed.
LEMMA FlushAInv ==
    ASSUME AtomConstants, DistinctNames, AInv, NEW t \in Threads, Flush(t) \/ Relock(t)
    PROVE  AInv'
<1> DEFINE x == local[t]
           place == IF Flush(t) THEN "Flushing" ELSE "Flushed"
           y == [x EXCEPT !.at = place]
<1>0. Types /\ ScriptsKept /\ LockHeld /\ HandlersListed /\ PendingInCall
      /\ (~early => HoldersKnown)
  BY DEF AInv
<1>1. /\ x.at \in {"Request", "Flushing"} /\ place \in {"Flushing", "Flushed"}
      /\ local' = [local EXCEPT ![t] = y]
      /\ UNCHANGED <<table, async_handlers, requests, answered, known, errors, script, mixed,
                     early, fatal>>
      /\ \/ place = "Flushing" /\ mutex' = None /\ x.at = "Request"
         \/ place = "Flushed" /\ mutex' = t /\ mutex = None
  <2>1. CASE Flush(t)
    BY <2>1, <1>0 DEF Flush, At, serverVars, Types
  <2>2. CASE ~Flush(t)
    BY <2>2, <1>0 DEF Relock, At, serverVars, Types
  <2> QED BY <2>1, <2>2
<1> HIDE DEF place
<1>2. Running(x) /\ x \in Thread
  BY <1>0, <1>1 DEF LockHeld, InCall, Calling, Places, Running
<1>3. /\ y.at = place /\ y.call = x.call /\ y.items = x.items /\ y.only = x.only
      /\ y.start = x.start /\ y.stop = x.stop /\ y.missed = x.missed /\ y.slot = x.slot
      /\ y.status = x.status /\ y.i = x.i /\ y.result = x.result /\ y \in Thread
  BY <1>1, <1>2 DEF Thread, Places
<1>4. Running(y)
  BY <1>1, <1>2, <1>3 DEF Running
<1>5. /\ local' \in [Threads -> Thread \cup {Fresh}] /\ local'[t] = y
      /\ \A u \in Threads \ {t} : local'[u] = local[u]
  <2>1. local' = [local EXCEPT ![t] = y]
    BY <1>1
  <2> HIDE DEF y
  <2> QED BY <2>1, <1>0, <1>3, OneThread
<1> HIDE DEF y
<1>6. Types'
  <2>1. mutex' \in Threads \cup {None}
    BY <1>1
  <2> QED BY <2>1, <1>0, <1>1, <1>5 DEF Types
<1>7. LockHeld'
  <2>1. ASSUME NEW u \in Threads, u # t PROVE local'[u].at \notin {"Items", "Request", "Flushed"}
    <3>1. local'[u] = local[u] /\ mutex # u
      BY <2>1, <1>0, <1>1, <1>5, Apart DEF LockHeld
    <3> QED BY <3>1, <1>0 DEF LockHeld
  <2>2. \A u \in Threads : InCall(u)' => InCall(u) \/ u = t
    BY <1>5 DEF InCall
  <2>3. local'[t].at \in {"Items", "Request", "Flushed"} => mutex' = t
    BY <1>1, <1>3, <1>5
  <2> QED BY <2>1, <2>2, <2>3, <1>0, <1>4, <1>5 DEF LockHeld
<1>8. ScriptsKept' /\ HandlersListed' /\ PendingInCall'
  <2>1. InCall(t) /\ InCall(t)'
    BY <1>1, <1>3, <1>5 DEF InCall, Calling, Places
  <2> QED BY <2>1, <1>1, <1>3, <1>5, SameCall
<1>9. ~early' => HoldersKnown'
  <2>1. \A s \in Slots : Holder(t, s) => Holder(t, s)'
    BY <1>1, <1>3, <1>5 DEF Holder
  <2>2. \A u \in Threads \ {t}, s \in Slots : Holder(u, s) => Holder(u, s)'
    BY <1>5 DEF Holder
  <2> QED BY <2>1, <2>2, <1>0, <1>1 DEF HoldersKnown, Reserved
<1> QED BY <1>6, <1>7, <1>8, <1>9 DEF AInv

\* What the writing of a request does.
LEMMA RequestFacts ==
    ASSUME AtomConstants, DistinctNames, AInv, NEW t \in Threads, Request(t)
    PROVE  /\ local[t].at \in {"Request", "Flushed"} /\ Running(local[t]) /\ mutex = t
           /\ UNCHANGED <<table, async_handlers, mutex, answered, known, errors, script,
                          mixed, early, fatal>>
           /\ local[t].i \in DOMAIN local[t].result /\ DOMAIN local[t].result = 1..Len(local[t].items)
           /\ local[t].items[local[t].i] \in Names /\ local[t].i \in Nat
           /\ \A k \in DOMAIN local[t].result : local[t].result[k] \in Marks =>
                 local[t].missed # None /\ k <= local[t].missed /\ k < local[t].i
           /\ Len(requests') = Len(requests) + 1 /\ Len(requests) \in Nat
           /\ requests' \in Seq(Req)
           /\ \A s \in 1..Len(requests) : requests'[s] = requests[s]
           /\ requests'[Len(requests) + 1].by = t
           /\ requests'[Len(requests) + 1].item = local[t].items[local[t].i]
           /\ requests'[Len(requests) + 1].only = local[t].only
           /\ requests'[Len(requests) + 1].interns <=> local[t].call \in InternCalls
           /\ ~requests'[Len(requests) + 1].awaited
           /\ local' \in [Threads -> Thread \cup {Fresh}] /\ Running(local'[t])
           /\ \A u \in Threads \ {t} : local'[u] = local[u]
           /\ local'[t].at = "Items" /\ local'[t].call = local[t].call
           /\ local'[t].items = local[t].items /\ local'[t].only = local[t].only
           /\ local'[t].start = local[t].start /\ local'[t].stop = Len(requests) + 1
           /\ local'[t].missed = local[t].i /\ local'[t].slot = local[t].slot
           /\ local'[t].status = local[t].status /\ local'[t].i = local[t].i + 1
           /\ local'[t].result \in Seq(Results) /\ DOMAIN local'[t].result = DOMAIN local[t].result
           /\ \A k \in DOMAIN local[t].result :
                 k # local[t].i => local'[t].result[k] = local[t].result[k]
           /\ local'[t].result[local[t].i] \in Marks
           /\ local'[t].result[local[t].i] =
                 IF local[t].slot = None THEN Unnamed ELSE Waiting(local[t].slot)
<1> DEFINE x == local[t]
           y == local'[t]
           n == Len(requests) + 1
           mark == IF x.slot = None THEN Unnamed ELSE Waiting(x.slot)
           r == [by |-> t, item |-> x.items[x.i], only |-> x.only,
                 interns |-> x.call \in InternCalls, awaited |-> FALSE]
           p == [x.result EXCEPT ![x.i] = mark]
           j == x.i + 1
<1>0. Types /\ LockHeld
  BY DEF AInv
<1>1. /\ x.at \in {"Request", "Flushed"}
      /\ requests' = Append(requests, r)
      /\ local' = [local EXCEPT ![t] = Asking(@, n)]
      /\ UNCHANGED <<table, async_handlers, mutex, answered, known, errors, script, mixed,
                     early, fatal>>
  <2>1. /\ x.at \in {"Request", "Flushed"}
        /\ UNCHANGED <<table, async_handlers, mutex, answered, known, errors, script, mixed,
                       early, fatal>>
    BY DEF Request, At, serverVars
  <2>2. requests' = Append(requests, r)
    BY DEF Request, Item
  <2>3. local' = [local EXCEPT ![t] = Asking(@, n)]
    BY DEF Request
  <2> QED BY <2>1, <2>2, <2>3
<1>2. Running(x) /\ x \in Thread /\ mutex = t
  BY <1>0, <1>1 DEF LockHeld, InCall, Calling, Places, Running
<1>3. /\ x.result \in Seq(Results) /\ x.items \in Seq(Names) /\ x.i \in Nat
      /\ Len(x.result) = Len(x.items) /\ x.i \in 1..Len(x.items)
      /\ x.slot \in Slots \cup {None}
      /\ DOMAIN x.result = 1..Len(x.items) /\ x.items[x.i] \in Names
  BY <1>1, <1>2 DEF Running, Thread
<1>4. mark \in Marks /\ mark \in Results
  BY <1>3 DEF Marks, Results
<1> HIDE DEF mark
<1>5. p \in Seq(Results) /\ Len(p) = Len(x.result) /\ DOMAIN p = DOMAIN x.result /\ j \in Nat
      /\ p[x.i] = mark /\ \A k \in DOMAIN x.result : k # x.i => p[k] = x.result[k]
  BY <1>3, <1>4
<1>6. n \in Nat /\ Len(requests) \in Nat /\ n = Len(requests) + 1
  BY <1>0 DEF Types
<1> DEFINE z == [[[[[x EXCEPT !.at = "Items"] EXCEPT !.i = j] EXCEPT !.missed = x.i]
                  EXCEPT !.stop = n] EXCEPT !.result = p]
<1>7. Asking(x, n) = z
  BY <1>2 DEF Asking, Thread, mark
<1>8. /\ z \in Thread
      /\ z.at = "Items" /\ z.call = x.call /\ z.items = x.items /\ z.only = x.only
      /\ z.start = x.start /\ z.stop = n /\ z.missed = x.i
      /\ z.slot = x.slot /\ z.status = x.status /\ z.i = j /\ z.result = p
  <2> HIDE DEF n, p, j
  <2> QED BY <1>2, <1>3, <1>5, <1>6 DEF Thread, Places
<1>9. local' \in [Threads -> Thread \cup {Fresh}] /\ y = z
      /\ \A u \in Threads \ {t} : local'[u] = local[u]
  <2>1. local' = [local EXCEPT ![t] = z]
    BY <1>1, <1>7
  <2> HIDE DEF z
  <2> QED BY <2>1, <1>0, <1>8, OneThread
<1> HIDE DEF z, p, x, y
<1>10. \A k \in DOMAIN x.result :
          x.result[k] \in Marks => x.missed # None /\ k <= x.missed /\ k < x.i
  BY <1>2, <1>3 DEF Running
<1>11. Running(y)
  <2>1. \A k \in DOMAIN y.result : y.result[k] \in Marks =>
            /\ y.missed # None /\ k <= y.missed
            /\ y.call \notin InternCalls => y.result[k] = Unnamed
    <3>1. SUFFICES ASSUME NEW k \in DOMAIN x.result, p[k] \in Marks
                   PROVE  k <= x.i /\ (x.call \notin InternCalls => p[k] = Unnamed)
      BY <1>3, <1>5, <1>8, <1>9, Apart
    <3>2. CASE k = x.i
      BY <3>2, <1>2, <1>3, <1>5 DEF Running, mark
    <3>3. CASE k # x.i
      BY <3>1, <3>3, <1>2, <1>3, <1>5, <1>10 DEF Running
    <3> QED BY <3>2, <3>3
  <2>2. Len(y.result) = Len(y.items) /\ y.i \in 1..Len(y.items) + 1
    BY <1>3, <1>5, <1>8, <1>9
  <2>3. y.missed # None /\ y.stop # None /\ y.missed \in 1..y.i - 1
    BY <1>3, <1>6, <1>8, <1>9, Apart
  <2> QED BY <2>1, <2>2, <2>3, <1>2, <1>8, <1>9 DEF Running
<1>12. r \in Req
  BY <1>2, <1>3 DEF Thread, Req
<1>13. /\ Len(requests') = Len(requests) + 1
       /\ requests' \in Seq(Req)
       /\ \A s \in 1..Len(requests) : requests'[s] = requests[s]
       /\ requests'[Len(requests) + 1] = r
  <2> HIDE DEF r
  <2> QED BY <1>0, <1>1, <1>12 DEF Types
<1>14. /\ r.by = t /\ r.item = x.items[x.i] /\ r.only = x.only
       /\ r.interns <=> x.call \in InternCalls
       /\ ~r.awaited
  OBVIOUS
<1> HIDE DEF r
<1>15. /\ requests'[Len(requests) + 1].by = t
       /\ requests'[Len(requests) + 1].item = x.items[x.i]
       /\ requests'[Len(requests) + 1].only = x.only
       /\ requests'[Len(requests) + 1].interns <=> x.call \in InternCalls
       /\ ~requests'[Len(requests) + 1].awaited
  BY <1>13, <1>14
<1>16. /\ y.at = "Items" /\ y.call = x.call /\ y.items = x.items /\ y.only = x.only
       /\ y.start = x.start /\ y.stop = Len(requests) + 1 /\ y.missed = x.i
       /\ y.slot = x.slot /\ y.status = x.status /\ y.i = x.i + 1
  BY <1>8, <1>9
<1>17. /\ y.result \in Seq(Results) /\ DOMAIN y.result = DOMAIN x.result
       /\ \A k \in DOMAIN x.result : k # x.i => y.result[k] = x.result[k]
       /\ y.result[x.i] \in Marks
       /\ y.result[x.i] = IF x.slot = None THEN Unnamed ELSE Waiting(x.slot)
  <2> QED BY <1>4, <1>5, <1>8, <1>9 DEF mark
<1> HIDE DEF n, j
<1> QED BY <1>1, <1>2, <1>3, <1>6, <1>9, <1>10, <1>11, <1>13, <1>15, <1>16, <1>17 DEF x, y


\* The request is one more that has no answer.
LEMMA RequestPending ==
    ASSUME AtomConstants, DistinctNames, AInv, NEW t \in Threads, Request(t)
    PROVE  \A u \in Threads :
              Pending(u)' = IF u = t THEN Pending(u) \cup {Len(requests) + 1} ELSE Pending(u)
<1> DEFINE n == Len(requests) + 1
<1>0. Types
  BY DEF AInv
<1>1. answered' = answered /\ Len(requests') = n /\ Len(requests) \in Nat
      /\ (\A s \in 1..Len(requests) : requests'[s] = requests[s]) /\ requests'[n].by = t
  BY RequestFacts
<1>2. answered \in Nat /\ answered <= Len(requests) /\ n \in Nat
  BY <1>0, <1>1 DEF Types
<1>3. answered + 1..n = (answered + 1..Len(requests)) \cup {n} /\ n \notin answered + 1..Len(requests)
      /\ answered + 1..Len(requests) \subseteq 1..Len(requests)
  BY <1>1, <1>2
<1> HIDE DEF n
<1>4. ASSUME NEW u \in Threads, NEW s
      PROVE  s \in Pending(u)' <=> s \in IF u = t THEN Pending(u) \cup {n} ELSE Pending(u)
  <2>1. s \in Pending(u)' <=> s \in answered + 1..n /\ requests'[s].by = u
    BY <1>1 DEF Pending
  <2>2. s \in Pending(u) <=> s \in answered + 1..Len(requests) /\ requests[s].by = u
    BY DEF Pending
  <2>3. CASE s = n
    BY <2>1, <2>2, <2>3, <1>1, <1>3
  <2>4. CASE s # n
    BY <2>1, <2>2, <2>4, <1>1, <1>3
  <2> QED BY <2>3, <2>4
<1> QED BY <1>4 DEF n

\* The item is asked for.
LEMMA RequestAInv ==
    ASSUME AtomConstants, DistinctNames, AInv, NEW t \in Threads, Request(t)
    PROVE  AInv'
<1> DEFINE x == local[t]
           y == local'[t]
           n == Len(requests) + 1
<1>0. Types /\ ScriptsKept /\ LockHeld /\ HandlersListed /\ PendingInCall
      /\ (~early => HoldersKnown)
  BY DEF AInv
<1>1. /\ x.at \in {"Request", "Flushed"} /\ Running(x) /\ mutex = t
      /\ UNCHANGED <<table, async_handlers, mutex, answered, known, errors, script,
                     mixed, early, fatal>>
      /\ x.i \in DOMAIN x.result /\ DOMAIN x.result = 1..Len(x.items) /\ x.i \in Nat
      /\ \A k \in DOMAIN x.result : x.result[k] \in Marks => x.missed # None /\ k <= x.missed /\ k < x.i
  BY RequestFacts
<1>2. /\ Len(requests') = n /\ n \in Nat /\ Len(requests) \in Nat /\ n = Len(requests) + 1
      /\ requests' \in Seq(Req)
      /\ \A s \in 1..Len(requests) : requests'[s] = requests[s]
      /\ requests'[n].by = t /\ requests'[n].only = x.only
      /\ requests'[n].interns <=> x.call \in InternCalls
      /\ ~requests'[n].awaited
  <2>1. Len(requests') = Len(requests) + 1 /\ Len(requests) \in Nat
    BY RequestFacts
  <2>2. /\ requests' \in Seq(Req)
        /\ \A s \in 1..Len(requests) : requests'[s] = requests[s]
        /\ requests'[n].by = t /\ requests'[n].only = x.only
    BY RequestFacts
  <2>3. requests'[n].interns <=> x.call \in InternCalls
    BY RequestFacts
  <2>4. ~requests'[n].awaited
    BY RequestFacts
  <2>5. n \in Nat
    BY <2>1
  <2> HIDE DEF x
  <2> QED BY <2>1, <2>2, <2>3, <2>4, <2>5
<1>3. /\ local' \in [Threads -> Thread \cup {Fresh}] /\ Running(y)
      /\ \A u \in Threads \ {t} : local'[u] = local[u]
      /\ y.at = "Items" /\ y.call = x.call /\ y.only = x.only
      /\ y.start = x.start /\ y.stop = n /\ y.missed = x.i
      /\ DOMAIN y.result = DOMAIN x.result
      /\ \A k \in DOMAIN x.result : k # x.i => y.result[k] = x.result[k]
      /\ y.result[x.i] = IF x.slot = None THEN Unnamed ELSE Waiting(x.slot)
  BY RequestFacts
<1> HIDE DEF n
<1>4. Types'
  <2>1. answered' \in 0..Len(requests')
    BY <1>0, <1>1, <1>2 DEF Types
  <2> QED BY <2>1, <1>0, <1>1, <1>2, <1>3 DEF Types
<1>5. ScriptsKept'
  BY <1>0, <1>1 DEF ScriptsKept
<1>6. \A u \in Threads : (InCall(u)' <=> InCall(u)) /\ (Installed(u)' <=> Installed(u))
                         /\ local'[u].call = local[u].call
  <2>1. InCall(t) /\ InCall(t)'
    BY <1>1, <1>3 DEF InCall, Calling, Places
  <2> QED BY <2>1, <1>1, <1>3 DEF InCall, Installed
<1>7. LockHeld'
  BY <1>0, <1>1, <1>3, <1>6 DEF LockHeld
<1>8. HandlersListed'
  BY <1>0, <1>1, <1>6 DEF HandlersListed
<1>9. PendingInCall'
  <2>1. \A u \in Threads : Pending(u)' = IF u = t THEN Pending(u) \cup {n} ELSE Pending(u)
    BY RequestPending DEF n
  <2>2. Pending(t) \subseteq 1..Len(requests) /\ \A u \in Threads : Pending(u) \subseteq 1..Len(requests)
    BY <1>0, <1>2 DEF Pending, Types
  <2>3. ASSUME NEW u \in Threads, InCall(u)'
        PROVE  /\ local'[u].start <= Len(requests') + 1
               /\ local'[u].missed # None => local'[u].stop \in 1..Len(requests')
               /\ \A s \in Pending(u)' :
                      /\ local'[u].missed # None /\ s \in local'[u].start..local'[u].stop
                      /\ requests'[s].interns <=> local'[u].call \in InternCalls
                      /\ requests'[s].only = local'[u].only
                      /\ requests'[s].awaited <=> local'[u].at = "WaitForReply" /\ s = local'[u].stop
               /\ local'[u].at \in {"Items", "Request", "WaitForReply"} /\ local'[u].missed # None =>
                      local'[u].stop \in Pending(u)'
    <3>0. InCall(u)
      BY <2>3, <1>6
    <3>1. CASE u = t
      <4>0. x.start \in Nat /\ x.start <= n /\ y.missed # None
        <5>1. x.start \in Nat
          BY <1>1 DEF Running, Thread
        <5> QED BY <5>1, <3>0, <3>1, <1>0, <1>1, <1>2, <1>3, Apart DEF PendingInCall
      <4>1. ASSUME NEW s \in Pending(t)
            PROVE  /\ s \in y.start..n
                   /\ requests'[s].interns <=> x.call \in InternCalls
                   /\ requests'[s].only = x.only
                   /\ ~requests'[s].awaited
        <5>1. requests'[s] = requests[s] /\ s \in 1..Len(requests)
          BY <1>2, <2>2
        <5>2. /\ s \in x.start..x.stop
              /\ requests[s].interns <=> x.call \in InternCalls
              /\ requests[s].only = x.only
              /\ requests[s].awaited <=> x.at = "WaitForReply" /\ s = x.stop
          BY <3>0, <3>1, <1>0 DEF PendingInCall
        <5>3. s \in y.start..n
          BY <5>1, <5>2, <4>0, <1>2, <1>3
        <5> QED BY <5>1, <5>2, <5>3, <1>1
      <4>2. n \in y.start..n
        BY <4>0, <1>2, <1>3
      <4> QED BY <4>0, <4>1, <4>2, <2>1, <3>1, <1>2, <1>3
    <3>2. CASE u # t
      <4>1. local'[u] = local[u] /\ Pending(u)' = Pending(u)
        BY <3>2, <1>3, <2>1
      <4>2. \A s \in Pending(u) : requests'[s] = requests[s]
        BY <1>2, <2>2
      <4>3. local[u].start <= n + 1
        <5>1. local[u].start \in Nat /\ local[u].start <= Len(requests) + 1
          BY <3>0, <1>0 DEF LockHeld, Running, Thread, PendingInCall
        <5> QED BY <5>1, <1>2
      <4>4. local[u].missed # None => local[u].stop \in 1..n
        BY <3>0, <1>0, <1>2 DEF PendingInCall
      <4>5. /\ \A s \in Pending(u) :
                    /\ local[u].missed # None /\ s \in local[u].start..local[u].stop
                    /\ requests[s].interns <=> local[u].call \in InternCalls
                    /\ requests[s].only = local[u].only
                    /\ requests[s].awaited <=> local[u].at = "WaitForReply" /\ s = local[u].stop
            /\ local[u].at \in {"Items", "Request", "WaitForReply"} /\ local[u].missed # None =>
                    local[u].stop \in Pending(u)
        BY <3>0, <1>0 DEF PendingInCall
      <4> QED BY <4>1, <4>2, <4>3, <4>4, <4>5, <1>2
    <3> QED BY <3>1, <3>2
  <2>4. \A u \in Threads : Pending(u)' # {} => InCall(u)'
    <3>1. InCall(t)'
      BY <1>3 DEF InCall, Calling, Places
    <3> QED BY <3>1, <2>1, <1>0, <1>6 DEF PendingInCall
  <2> QED BY <2>3, <2>4 DEF PendingInCall
<1>10. ~early' => HoldersKnown'
  <2>1. \A s \in Slots : Holder(t, s) => Holder(t, s)'
    <3>1. SUFFICES ASSUME NEW s \in Slots, Holder(t, s) PROVE \E k \in DOMAIN y.result : y.result[k] = Waiting(s)
      BY <1>3 DEF Holder
    <3>2. CASE x.slot = s
      BY <3>2, <1>1, <1>3, Apart
    <3>3. CASE \E k \in DOMAIN x.result : x.result[k] = Waiting(s)
      <4>1. PICK k \in DOMAIN x.result : x.result[k] = Waiting(s)
        BY <3>3
      <4>2. k < x.i
        BY <4>1, <1>1 DEF Marks
      <4> QED BY <4>1, <4>2, <1>1, <1>3
    <3> QED BY <3>1, <3>2, <3>3 DEF Holder
  <2>2. \A u \in Threads \ {t}, s \in Slots : Holder(u, s) => Holder(u, s)'
    BY <1>3 DEF Holder
  <2> QED BY <2>1, <2>2, <1>0, <1>1 DEF HoldersKnown, Reserved
<1> QED BY <1>4, <1>5, <1>7, <1>8, <1>9, <1>10 DEF AInv


\* The end of the loop of a call that has nothing to wait for.
LEMMA NothingMissed ==
    ASSUME AtomConstants, DistinctNames, AInv, NEW t \in Threads, AllLookedUp(t),
           local[t].missed = None
    PROVE  AInv'
<1> DEFINE x == local[t]
           y == [x EXCEPT !.at = "Idle"]
<1>0. Types /\ ScriptsKept /\ LockHeld /\ HandlersListed /\ PendingInCall
      /\ (~early => HoldersKnown)
  BY DEF AInv
<1>1. /\ x.at = "Items" /\ mutex' = None
      /\ local' = [local EXCEPT ![t] = y]
      /\ async_handlers' = RemoveFirst(async_handlers, t)
      /\ UNCHANGED <<table, requests, answered, known, errors, script, mixed, early, fatal>>
  BY DEF AllLookedUp, At, Returned, DeqAsyncHandler, serverVars
<1>2. Running(x) /\ x \in Thread /\ mutex = t
  BY <1>0, <1>1 DEF LockHeld, InCall, Calling, Places, Running
<1>3. /\ y.at = "Idle" /\ y.call = x.call /\ y \in Thread
  BY <1>2 DEF Thread, Places
<1>4. /\ local' \in [Threads -> Thread \cup {Fresh}] /\ local'[t] = y
      /\ \A u \in Threads \ {t} : local'[u] = local[u]
  <2>1. local' = [local EXCEPT ![t] = y]
    BY <1>1
  <2> HIDE DEF y
  <2> QED BY <2>1, <1>0, <1>3, OneThread
<1> HIDE DEF y
<1>5. /\ async_handlers' \in Seq(Threads)
      /\ \A i, j \in DOMAIN async_handlers' : async_handlers'[i] = async_handlers'[j] => i = j
      /\ \A u \in Threads : Installed(u)' <=> Installed(u) /\ u # t
  <2>1. async_handlers \in Seq(Threads)
        /\ \A i, j \in DOMAIN async_handlers : async_handlers[i] = async_handlers[j] => i = j
    BY <1>0 DEF Types, HandlersListed
  <2> DEFINE q == RemoveFirst(async_handlers, t)
  <2>2. /\ q \in Seq(Threads)
        /\ \A i, j \in DOMAIN q : q[i] = q[j] => i = j
        /\ \A u : (\E i \in DOMAIN q : q[i] = u)
                  <=> (\E i \in DOMAIN async_handlers : async_handlers[i] = u) /\ u # t
    BY <2>1, Dequeued
  <2>3. async_handlers' = q
    BY <1>1
  <2> HIDE DEF q
  <2> QED BY <2>2, <2>3 DEF Installed
<1>6. \A u \in Threads : InCall(u)' <=> InCall(u) /\ u # t
  BY <1>3, <1>4 DEF InCall, Calling, Places
<1>7. Types'
  BY <1>0, <1>1, <1>4, <1>5 DEF Types
<1>8. ScriptsKept'
  BY <1>0, <1>1 DEF ScriptsKept
<1>9. LockHeld'
  <2>1. ASSUME NEW u \in Threads PROVE local'[u].at \notin {"Items", "Request", "Flushed"}
    <3>1. CASE u = t
      BY <3>1, <1>3, <1>4
    <3>2. CASE u # t
      BY <3>2, <1>0, <1>2, <1>4 DEF LockHeld
    <3> QED BY <3>1, <3>2
  <2> QED BY <2>1, <1>0, <1>4, <1>6 DEF LockHeld
<1>10. HandlersListed'
  BY <1>0, <1>4, <1>5, <1>6 DEF HandlersListed
<1>11. PendingInCall'
  <2>1. Pending(t) = {}
    <3>1. InCall(t) /\ x.missed = None
      BY <1>1 DEF InCall, Calling, Places
    <3> QED BY <3>1, <1>0 DEF PendingInCall
  <2>2. \A u \in Threads : Pending(u)' = Pending(u)
    BY <1>1 DEF Pending
  <2> QED BY <2>1, <2>2, <1>0, <1>1, <1>4, <1>6 DEF PendingInCall
<1>12. ~early' => HoldersKnown'
  <2>1. \A s \in Slots : ~Holder(t, s)
    BY <1>1, <1>2 DEF Holder, Running, Marks
  <2>2. \A u \in Threads \ {t}, s \in Slots : Holder(u, s) => Holder(u, s)'
    BY <1>4 DEF Holder
  <2> QED BY <2>1, <2>2, <1>0, <1>1 DEF HoldersKnown, Reserved
<1> QED BY <1>7, <1>8, <1>9, <1>10, <1>11, <1>12 DEF AInv

\* What it does when it has something to wait for.
LEMMA WaitFacts ==
    ASSUME AtomConstants, DistinctNames, AInv, NEW t \in Threads, AllLookedUp(t),
           local[t].missed # None
    PROVE  /\ local[t].at = "Items" /\ Running(local[t]) /\ local[t].i = Len(local[t].items) + 1
           /\ local[t].stop \in Pending(t)
           /\ table' = [s \in Slots |-> IF s \in ReservedBy(t) THEN None ELSE table[s]]
           /\ requests' \in Seq(Req)
           /\ Len(requests') = Len(requests) /\ DOMAIN requests = 1..Len(requests)
           /\ \A s \in 1..Len(requests) : s # local[t].stop => requests'[s] = requests[s]
           /\ requests'[local[t].stop].by = t
           /\ requests'[local[t].stop].item = requests[local[t].stop].item
           /\ requests'[local[t].stop].only = requests[local[t].stop].only
           /\ requests'[local[t].stop].interns = requests[local[t].stop].interns
           /\ requests'[local[t].stop].awaited = TRUE
           /\ local' = [local EXCEPT ![t] = [local[t] EXCEPT !.at = "WaitForReply"]]
           /\ mutex' = None /\ mutex = t
           /\ UNCHANGED <<async_handlers, answered, known, errors, script, mixed, early, fatal>>
<1> DEFINE x == local[t]
           n == x.stop
<1>0. Types /\ LockHeld /\ PendingInCall
  BY DEF AInv
<1>1. /\ x.at = "Items" /\ mutex' = None /\ x.i > Len(x.items)
      /\ table' = [s \in Slots |-> IF s \in ReservedBy(t) THEN None ELSE table[s]]
      /\ requests' = [requests EXCEPT ![n].awaited = TRUE]
      /\ local' = [local EXCEPT ![t] = [x EXCEPT !.at = "WaitForReply"]]
      /\ UNCHANGED <<async_handlers, answered, known, errors, script, mixed, early, fatal>>
  BY DEF AllLookedUp, At, serverVars
<1>2. Running(x) /\ mutex = t /\ x.i = Len(x.items) + 1
  <2>1. Running(x) /\ mutex = t
    BY <1>0, <1>1 DEF LockHeld, InCall, Calling, Places
  <2>2. x.items \in Seq(Names) /\ x.i \in 1..Len(x.items) + 1
    BY <2>1 DEF Running, Thread
  <2> QED BY <2>1, <2>2, <1>1
<1>3. n \in Pending(t) /\ n \in 1..Len(requests)
  BY <1>0, <1>1 DEF PendingInCall, InCall, Calling, Places
<1> HIDE DEF n
<1>4. requests[n].by = t
  BY <1>3 DEF Pending
<1> DEFINE r == [requests[n] EXCEPT !.awaited = TRUE]
<1>5. requests \in Seq(Req) /\ requests[n] \in Req
  BY <1>0, <1>3 DEF Types
<1>6. /\ r \in Req /\ r.by = requests[n].by /\ r.item = requests[n].item
      /\ r.only = requests[n].only /\ r.interns = requests[n].interns /\ r.awaited = TRUE
  BY <1>5 DEF Req
<1>7. requests' = [requests EXCEPT ![n] = r]
  BY <1>1
<1> HIDE DEF r
<1>8. /\ requests' \in Seq(Req) /\ Len(requests') = Len(requests)
      /\ DOMAIN requests = 1..Len(requests)
      /\ requests'[n] = r /\ \A s \in 1..Len(requests) : s # n => requests'[s] = requests[s]
  BY <1>3, <1>5, <1>6, <1>7
<1> QED BY <1>1, <1>2, <1>3, <1>4, <1>6, <1>8 DEF n

\* The end of the loop of one that has.
LEMMA SomethingMissed ==
    ASSUME AtomConstants, DistinctNames, AInv, NEW t \in Threads, AllLookedUp(t),
           local[t].missed # None
    PROVE  AInv'
<1> DEFINE x == local[t]
           y == [x EXCEPT !.at = "WaitForReply"]
<1>0. Types /\ ScriptsKept /\ LockHeld /\ HandlersListed /\ PendingInCall
      /\ (~early => HoldersKnown)
  BY DEF AInv
<1>1. /\ x.at = "Items" /\ Running(x) /\ x.i = Len(x.items) + 1 /\ x.stop \in Pending(t)
      /\ table' = [s \in Slots |-> IF s \in ReservedBy(t) THEN None ELSE table[s]]
      /\ local' = [local EXCEPT ![t] = y]
      /\ mutex' = None /\ mutex = t
      /\ UNCHANGED <<async_handlers, answered, known, errors, script, mixed, early, fatal>>
  BY WaitFacts
<1>2. /\ requests' \in Seq(Req)
      /\ Len(requests') = Len(requests)
      /\ \A s \in 1..Len(requests) : s # x.stop => requests'[s] = requests[s]
      /\ requests'[x.stop].by = t
      /\ requests'[x.stop].only = requests[x.stop].only
      /\ requests'[x.stop].interns = requests[x.stop].interns
      /\ requests'[x.stop].awaited = TRUE
  BY WaitFacts
<1>3. /\ y.at = "WaitForReply" /\ y.call = x.call /\ y.items = x.items /\ y.only = x.only
      /\ y.start = x.start /\ y.stop = x.stop /\ y.missed = x.missed /\ y.slot = x.slot
      /\ y.status = x.status /\ y.i = x.i /\ y.result = x.result /\ y \in Thread
  BY <1>1 DEF Running, Thread, Places
<1>4. Running(y)
  BY <1>1, <1>3 DEF Running
<1>5. /\ local' \in [Threads -> Thread \cup {Fresh}] /\ local'[t] = y
      /\ \A u \in Threads \ {t} : local'[u] = local[u]
  <2>1. local' = [local EXCEPT ![t] = y]
    BY <1>1
  <2> HIDE DEF y
  <2> QED BY <2>1, <1>0, <1>3, OneThread
<1> HIDE DEF y
<1>6. \A u \in Threads : (InCall(u)' <=> InCall(u)) /\ (Installed(u)' <=> Installed(u))
                         /\ local'[u].call = local[u].call
  <2>1. InCall(t) /\ InCall(t)'
    BY <1>1, <1>3, <1>5 DEF InCall, Calling, Places
  <2> QED BY <2>1, <1>1, <1>3, <1>5 DEF InCall, Installed
<1>7. Types'
  <2>1. table' \in [Slots -> {None, RESERVED} \cup [name : Names, atom : Names]]
    BY <1>0, <1>1 DEF Types
  <2> QED BY <2>1, <1>0, <1>1, <1>2, <1>5 DEF Types
<1>8. ScriptsKept'
  BY <1>0, <1>1 DEF ScriptsKept
<1>9. LockHeld'
  <2>1. ASSUME NEW u \in Threads PROVE local'[u].at \notin {"Items", "Request", "Flushed"}
    <3>1. CASE u = t
      BY <3>1, <1>3, <1>5
    <3>2. CASE u # t
      BY <3>2, <1>0, <1>1, <1>5 DEF LockHeld
    <3> QED BY <3>1, <3>2
  <2> QED BY <2>1, <1>0, <1>4, <1>5, <1>6 DEF LockHeld
<1>10. HandlersListed'
  BY <1>0, <1>1, <1>6 DEF HandlersListed
<1>11. PendingInCall'
  <2>0. answered' = answered /\ \A u \in Threads : Pending(u) \subseteq 1..Len(requests)
    BY <1>0, <1>1 DEF Pending, Types
  <2>1. \A s \in 1..Len(requests) : /\ requests'[s].by = requests[s].by
                                    /\ requests'[s].only = requests[s].only
                                    /\ requests'[s].interns = requests[s].interns
    <3>1. requests[x.stop].by = t
      BY <1>1 DEF Pending
    <3> QED BY <3>1, <1>2
  <2>2. \A u \in Threads : Pending(u)' = Pending(u)
    <3>1. answered + 1..Len(requests) \subseteq 1..Len(requests)
      BY <1>0 DEF Types
    <3> QED BY <3>1, <2>0, <2>1, <1>2 DEF Pending
  <2>3. ASSUME NEW u \in Threads, InCall(u)
        PROVE  /\ local'[u].start <= Len(requests') + 1
               /\ local'[u].missed # None => local'[u].stop \in 1..Len(requests')
               /\ \A s \in Pending(u) :
                      /\ local'[u].missed # None /\ s \in local'[u].start..local'[u].stop
                      /\ requests'[s].interns <=> local'[u].call \in InternCalls
                      /\ requests'[s].only = local'[u].only
                      /\ requests'[s].awaited <=> local'[u].at = "WaitForReply" /\ s = local'[u].stop
               /\ local'[u].at \in {"Items", "Request", "WaitForReply"} /\ local'[u].missed # None =>
                      local'[u].stop \in Pending(u)
    <3>1. CASE u = t
      <4>1. /\ x.start <= Len(requests) + 1 /\ x.missed # None /\ x.stop \in 1..Len(requests)
            /\ \A s \in Pending(t) :
                   /\ s \in x.start..x.stop
                   /\ requests[s].interns <=> x.call \in InternCalls
                   /\ requests[s].only = x.only
                   /\ ~requests[s].awaited
        BY <2>3, <3>1, <1>0, <1>1 DEF PendingInCall
      <4>2. \A s \in Pending(t) : requests'[s].awaited <=> s = x.stop
        BY <4>1, <2>0, <1>2
      <4> QED BY <4>1, <4>2, <3>1, <2>0, <2>1, <1>1, <1>2, <1>3, <1>5
    <3>2. CASE u # t
      <4>1. local'[u] = local[u]
        BY <3>2, <1>5
      <4>2. \A s \in Pending(u) : requests'[s] = requests[s]
        BY <3>2, <2>0, <1>1, <1>2 DEF Pending
      <4> QED BY <4>1, <4>2, <2>3, <1>0, <1>2 DEF PendingInCall
    <3> QED BY <3>1, <3>2
  <2> QED BY <2>2, <2>3, <1>0, <1>6 DEF PendingInCall
<1>12. ~early' => HoldersKnown'
  <2>1. ASSUME NEW s \in Reserved' PROVE s \in Reserved /\ ~Holder(t, s)
    <3>1. s \in Reserved /\ s \notin ReservedBy(t)
      BY <2>1, <1>1, Apart DEF Reserved
    <3> QED BY <3>1, <1>1 DEF Holder, ReservedBy
  <2>2. \A u \in Threads \ {t}, s \in Slots : Holder(u, s) => Holder(u, s)'
    BY <1>5 DEF Holder
  <2>3. Reserved \subseteq Slots
    BY DEF Reserved
  <2> QED BY <2>1, <2>2, <2>3, <1>0, <1>1 DEF HoldersKnown
<1> QED BY <1>7, <1>8, <1>9, <1>10, <1>11, <1>12 DEF AInv


\* A call goes on with a result that may have been answered.
Follows(x, z) ==
    /\ z \in Thread
    /\ z.at = x.at /\ z.call = x.call /\ z.items = x.items /\ z.only = x.only /\ z.i = x.i
    /\ z.start = x.start /\ z.stop = x.stop /\ z.missed = x.missed /\ z.slot = x.slot
    /\ Len(z.result) = Len(x.result) /\ DOMAIN z.result = DOMAIN x.result
    /\ \A k \in DOMAIN x.result : z.result[k] \in Marks => z.result[k] = x.result[k]

\* Such a call is one still.
LEMMA FollowsRuns ==
    ASSUME NEW x, NEW z, Running(x), Follows(x, z)
    PROVE  Running(z)
BY DEF Running, Follows

\* Which threads have a handler in reach of an answer, and for which item.
LEMMA TakerFacts ==
    ASSUME AtomConstants, DistinctNames, AInv, mutex = None, NEW s \in Nat, NEW t \in Takers(s)
    PROVE  /\ t \in Threads /\ InCall(t) /\ Running(local[t]) /\ local[t].call \in Plural
           /\ local[t].at \in {"Flushing", "WaitForReply"} /\ InRange(t, s)
           /\ First(t) \in Unanswered(t) /\ \A k \in Unanswered(t) : First(t) <= k
           /\ First(t) \in DOMAIN local[t].result /\ First(t) \in 1..(Len(local[t].items) - 1)
<1>0. LockHeld /\ HandlersListed
  BY DEF AInv
<1>1. t \in Threads /\ Installed(t) /\ InRange(t, s) /\ Unanswered(t) # {}
  BY DEF Takers
<1>2. InCall(t) /\ local[t].call \in Plural /\ Running(local[t])
  BY <1>0, <1>1 DEF HandlersListed, LockHeld
<1>3. local[t].at \in {"Flushing", "WaitForReply"}
  BY <1>0, <1>1, <1>2, Apart DEF LockHeld, InCall, Calling, Places
<1>4. Unanswered(t) \in SUBSET Nat /\ Unanswered(t) \subseteq 1..(Len(local[t].items) - 1)
  BY DEF Unanswered
<1>5. First(t) \in Unanswered(t) /\ \A k \in Unanswered(t) : First(t) <= k
  BY <1>1, <1>4, MinFacts DEF First
<1>6. DOMAIN local[t].result = 1..Len(local[t].items) /\ Len(local[t].items) \in Nat
  BY <1>2 DEF Running, Thread
<1> QED BY <1>1, <1>2, <1>3, <1>4, <1>5, <1>6

\* A result is set, or the status is cleared.
WithResult(x, k, r) == [x EXCEPT !.result[k] = r]
Cleared(x) == [x EXCEPT !.status = FALSE]

\* A call whose status is cleared.
LEMMA StatusCleared ==
    ASSUME NEW x, Running(x), NEW z, z = Cleared(x)
    PROVE  /\ Running(z) /\ z \in Thread /\ z.status = FALSE
           /\ z.at = x.at /\ z.call = x.call /\ z.items = x.items /\ z.only = x.only /\ z.i = x.i
           /\ z.start = x.start /\ z.stop = x.stop /\ z.missed = x.missed /\ z.slot = x.slot
           /\ z.result = x.result
<1>1. x \in Thread
  BY DEF Running
<1>2. /\ z \in Thread /\ z.status = FALSE
      /\ z.at = x.at /\ z.call = x.call /\ z.items = x.items /\ z.only = x.only /\ z.i = x.i
      /\ z.start = x.start /\ z.stop = x.stop /\ z.missed = x.missed /\ z.slot = x.slot
      /\ z.result = x.result
  BY <1>1 DEF Thread, Cleared
<1> QED BY <1>2 DEF Running

\* z is x but for result k.
Changed(x, z, k, r) ==
    /\ z \in Thread /\ z.status = x.status
    /\ z.at = x.at /\ z.call = x.call /\ z.items = x.items /\ z.only = x.only /\ z.i = x.i
    /\ z.start = x.start /\ z.stop = x.stop /\ z.missed = x.missed /\ z.slot = x.slot
    /\ z.result \in Seq(Results) /\ z.result[k] = r
    /\ Len(z.result) = Len(x.result) /\ DOMAIN z.result = DOMAIN x.result
    /\ \A j \in DOMAIN x.result : j # k => z.result[j] = x.result[j]

\* A call with another result.
LEMMA ResultSet ==
    ASSUME NEW x, Running(x), NEW k \in DOMAIN x.result, NEW r \in Results
    PROVE  Changed(x, WithResult(x, k, r), k, r)
<1> DEFINE p == [x.result EXCEPT ![k] = r]
           z == WithResult(x, k, r)
<1>1. x \in Thread /\ x.result \in Seq(Results)
  BY DEF Running, Thread
<1>2. /\ p \in Seq(Results) /\ Len(p) = Len(x.result) /\ DOMAIN p = DOMAIN x.result
      /\ p[k] = r /\ \A j \in DOMAIN x.result : j # k => p[j] = x.result[j]
  BY <1>1
<1>3. z = [x EXCEPT !.result = p]
  BY <1>1 DEF Thread, WithResult
<1> HIDE DEF p, z
<1>4. /\ z \in Thread /\ z.status = x.status
      /\ z.at = x.at /\ z.call = x.call /\ z.items = x.items /\ z.only = x.only /\ z.i = x.i
      /\ z.start = x.start /\ z.stop = x.stop /\ z.missed = x.missed /\ z.slot = x.slot
      /\ z.result = p
  BY <1>1, <1>2, <1>3 DEF Thread
<1> QED BY <1>2, <1>4 DEF z, Changed

\* An error that is shown to the handlers.
LEMMA ErrorShown ==
    ASSUME AtomConstants, DistinctNames, AInv, mutex = None, NEW s \in Nat, NEW t \in Threads
    PROVE  /\ t \notin Takers(s) => AfterError(s)[t] = local[t]
           /\ t \in Takers(s) =>
                 /\ Follows(local[t], AfterError(s)[t]) /\ AfterError(s)[t].status = FALSE
                 /\ \A k \in DOMAIN local[t].result :
                       \/ AfterError(s)[t].result[k] = local[t].result[k]
                             /\ ~(local[t].call = "InternAtoms" /\ k = First(t))
                       \/ /\ local[t].call = "InternAtoms" /\ k = First(t)
                          /\ AfterError(s)[t].result[k] = None
<1>0. PICK z : z = AfterError(s)[t]
  OBVIOUS
<1> DEFINE x == local[t]
<1>1. CASE t \notin Takers(s)
  BY <1>1 DEF AfterError
<1>2. CASE t \in Takers(s)
  <2> DEFINE k == First(t)
             r == IF x.call = "InternAtoms" THEN None ELSE x.result[k]
  <2>1. Running(x) /\ k \in DOMAIN x.result
    BY <1>2, TakerFacts
  <2>2. x \in Thread /\ x.result \in Seq(Results) /\ x.result[k] \in Results
    BY <2>1 DEF Running, Thread
  <2>3. r \in Results
    BY <2>2 DEF Results
  <2> DEFINE c == Cleared(x)
  <2>4. z = WithResult(c, k, r)
    <3>1. z = [c EXCEPT !.result[k] = IF x.call = "InternAtoms" THEN None ELSE c.result[k]]
      BY <1>0, <1>2 DEF AfterError, Cleared
    <3>2. c.result = x.result
      BY <2>1, StatusCleared
    <3> QED BY <3>1, <3>2 DEF WithResult
  <2> HIDE DEF x, k, r
  <2>5. /\ Running(c) /\ c.status = FALSE
        /\ c.at = x.at /\ c.call = x.call /\ c.items = x.items /\ c.only = x.only /\ c.i = x.i
        /\ c.start = x.start /\ c.stop = x.stop /\ c.missed = x.missed /\ c.slot = x.slot
        /\ c.result = x.result
    BY <2>1, StatusCleared
  <2> HIDE DEF c
  <2>7. /\ z \in Thread /\ z.status = FALSE
        /\ z.at = x.at /\ z.call = x.call /\ z.items = x.items /\ z.only = x.only /\ z.i = x.i
        /\ z.start = x.start /\ z.stop = x.stop /\ z.missed = x.missed /\ z.slot = x.slot
        /\ Len(z.result) = Len(x.result) /\ DOMAIN z.result = DOMAIN x.result
        /\ z.result[k] = r
        /\ \A j \in DOMAIN x.result : j # k => z.result[j] = x.result[j]
    <3>1. k \in DOMAIN c.result
      BY <2>1, <2>5
    <3>2. Changed(c, z, k, r)
      BY <3>1, <2>3, <2>4, <2>5, ResultSet
    <3> QED BY <3>2, <2>5 DEF Changed
  <2>6. Follows(x, z)
    <3>1. \A j \in DOMAIN x.result : z.result[j] \in Marks => z.result[j] = x.result[j]
      BY <2>7, Apart DEF r
    <3> QED BY <3>1, <2>7 DEF Follows
  <2> QED BY <1>0, <1>2, <2>7, <2>6 DEF x, k, r
<1> QED BY <1>1, <1>2


\* What the reading of an answer does to the calls: the one that waits for it
\* ends, and those with a handler in reach may take it.
LEMMA AnswerTaken ==
    ASSUME AtomConstants, DistinctNames, AInv, mutex = None,
           NEW s, s = answered + 1, s \in 1..Len(requests), NEW p, p = requests[s].by,
           answered' = s, UNCHANGED <<mutex, requests, script>>,
           requests[s].awaited => local'[p].at = "Idle",
           ~requests[s].awaited => local'[p] = local[p] \/ (p \in Takers(s) /\ Follows(local[p], local'[p])),
           \A u \in Threads \ {p} :
               local'[u] = local[u] \/ (u \in Takers(s) /\ Follows(local[u], local'[u])),
           \A i, j \in DOMAIN async_handlers' : async_handlers'[i] = async_handlers'[j] => i = j,
           \A u \in Threads : Installed(u)' <=> Installed(u) /\ ~(requests[s].awaited /\ u = p),
           Reserved' \subseteq Reserved,
           early' <=> early \/ \E t \in Takers(s) : local[t].at = "Flushing"
    PROVE  /\ ScriptsKept' /\ LockHeld' /\ HandlersListed' /\ PendingInCall'
           /\ ~early' => HoldersKnown'
<1> DEFINE Ends(u) == requests[s].awaited /\ u = p
<1>0. Types /\ ScriptsKept /\ LockHeld /\ HandlersListed /\ PendingInCall
      /\ (~early => HoldersKnown)
  BY DEF AInv
<1>1. answered \in Nat /\ Len(requests) \in Nat /\ s \in Nat /\ p \in Threads /\ s \in Pending(p)
  <2>1. answered \in 0..Len(requests) /\ Len(requests) \in Nat
    BY <1>0 DEF Types
  <2>2. requests[s] \in Req
    BY <1>0 DEF Types
  <2>3. s \in answered + 1..Len(requests)
    BY <2>1
  <2> QED BY <2>1, <2>2, <2>3 DEF Pending, Req
<1>2. ASSUME NEW u \in Threads, ~Ends(u)
      PROVE  local'[u] = local[u] \/ (u \in Takers(s) /\ Follows(local[u], local'[u]))
  BY <1>2
<1>3. ASSUME NEW u \in Threads, Ends(u)
      PROVE  /\ local'[u].at = "Idle" /\ local[u].at = "WaitForReply" /\ s = local[u].stop
             /\ Pending(u) = {s}
  <2>1. InCall(u) /\ s \in Pending(u)
    BY <1>0, <1>1, <1>3 DEF PendingInCall
  <2>2. local[u].at = "WaitForReply" /\ s = local[u].stop
        /\ \A z \in Pending(u) : z \in local[u].start..local[u].stop /\ local[u].missed # None
    BY <2>1, <1>0, <1>3 DEF PendingInCall
  <2>3. \A z \in Pending(u) : z \in answered + 1..Len(requests)
    BY DEF Pending
  <2>4. \A z \in Pending(u) : z = s
    <3>1. local[u].start \in Nat
      BY <2>1, <1>0 DEF LockHeld, Running, Thread
    <3> QED BY <2>2, <2>3, <3>1, <1>1
  <2> QED BY <2>1, <2>2, <2>4, <1>3
<1>4. \A u \in Threads :
         ~Ends(u) => /\ local'[u].at = local[u].at /\ (InCall(u)' <=> InCall(u))
                     /\ local'[u].slot = local[u].slot
                     /\ InCall(u) => /\ Running(local'[u])
                                     /\ local'[u].call = local[u].call /\ local'[u].only = local[u].only
                                     /\ local'[u].start = local[u].start
                                     /\ local'[u].stop = local[u].stop
                                     /\ local'[u].missed = local[u].missed
  <2> SUFFICES ASSUME NEW u \in Threads, ~Ends(u)
               PROVE  /\ local'[u].at = local[u].at /\ (InCall(u)' <=> InCall(u))
                      /\ local'[u].slot = local[u].slot
                      /\ InCall(u) => /\ Running(local'[u])
                                      /\ local'[u].call = local[u].call
                                      /\ local'[u].only = local[u].only
                                      /\ local'[u].start = local[u].start
                                      /\ local'[u].stop = local[u].stop
                                      /\ local'[u].missed = local[u].missed
    OBVIOUS
  <2>1. InCall(u) => Running(local[u])
    BY <1>0 DEF LockHeld
  <2>2. CASE local'[u] = local[u]
    BY <2>1, <2>2 DEF InCall
  <2>3. CASE Follows(local[u], local'[u])
    <3>1. InCall(u) => Running(local'[u])
      BY <2>1, <2>3, FollowsRuns
    <3> QED BY <2>3, <3>1 DEF Follows, InCall
  <2> QED BY <2>2, <2>3, <1>2
<1>5. \A u \in Threads : Ends(u) => ~InCall(u)' /\ local'[u].at = "Idle"
  BY <1>3 DEF InCall, Calling
<1>6. ScriptsKept'
  BY <1>0 DEF ScriptsKept
<1>7. LockHeld'
  <2> SUFFICES ASSUME NEW u \in Threads
               PROVE  /\ InCall(u)' => Running(local'[u])
                      /\ local'[u].at \in {"Items", "Request", "Flushed"} => mutex' = u
    BY DEF LockHeld
  <2>1. CASE Ends(u)
    BY <2>1, <1>5
  <2>2. CASE ~Ends(u)
    BY <2>2, <1>0, <1>4 DEF LockHeld
  <2> QED BY <2>1, <2>2
<1>8. HandlersListed'
  <2>1. ASSUME NEW u \in Threads
        PROVE  Installed(u)' <=> InCall(u)' /\ local'[u].call \in Plural
    <3>1. CASE Ends(u)
      BY <3>1, <1>5
    <3>2. CASE ~Ends(u)
      BY <3>2, <1>0, <1>4 DEF HandlersListed
    <3> QED BY <3>1, <3>2
  <2> QED BY <2>1 DEF HandlersListed
<1>9. \A u \in Threads : Pending(u)' = Pending(u) \ {s}
  <2>1. s + 1..Len(requests) = (answered + 1..Len(requests)) \ {s}
    BY <1>1
  <2> QED BY <2>1 DEF Pending
<1>10. PendingInCall'
  <2>1. ASSUME NEW u \in Threads PROVE Pending(u)' # {} => InCall(u)'
    <3>1. CASE Ends(u)
      BY <3>1, <1>3, <1>9
    <3>2. CASE ~Ends(u)
      BY <3>2, <1>0, <1>4, <1>9 DEF PendingInCall
    <3> QED BY <3>1, <3>2
  <2>2. ASSUME NEW u \in Threads, InCall(u)'
        PROVE  /\ local'[u].start <= Len(requests') + 1
               /\ local'[u].missed # None => local'[u].stop \in 1..Len(requests')
               /\ \A z \in Pending(u)' :
                      /\ local'[u].missed # None /\ z \in local'[u].start..local'[u].stop
                      /\ requests'[z].interns <=> local'[u].call \in InternCalls
                      /\ requests'[z].only = local'[u].only
                      /\ requests'[z].awaited <=> local'[u].at = "WaitForReply" /\ z = local'[u].stop
               /\ local'[u].at \in {"Items", "Request", "WaitForReply"} /\ local'[u].missed # None =>
                      local'[u].stop \in Pending(u)'
    <3>1. ~Ends(u) /\ InCall(u)
      BY <2>2, <1>4, <1>5
    <3>2. /\ local[u].start <= Len(requests) + 1
          /\ local[u].missed # None => local[u].stop \in 1..Len(requests)
          /\ \A z \in Pending(u) :
                 /\ local[u].missed # None /\ z \in local[u].start..local[u].stop
                 /\ requests[z].interns <=> local[u].call \in InternCalls
                 /\ requests[z].only = local[u].only
                 /\ requests[z].awaited <=> local[u].at = "WaitForReply" /\ z = local[u].stop
          /\ local[u].at \in {"Items", "Request", "WaitForReply"} /\ local[u].missed # None =>
                 local[u].stop \in Pending(u)
      BY <3>1, <1>0 DEF PendingInCall
    <3>3. ASSUME local[u].at \in {"Items", "Request", "WaitForReply"}, local[u].missed # None
          PROVE  local[u].stop # s
      <4>1. SUFFICES ASSUME local[u].stop = s PROVE FALSE
        OBVIOUS
      <4>2. s \in Pending(u) /\ u = p
        BY <3>2, <3>3, <4>1 DEF Pending
      <4>3. local[u].at = "WaitForReply"
        BY <3>3, <1>0, Apart DEF LockHeld
      <4> QED BY <3>1, <3>2, <4>1, <4>2, <4>3
    <3> QED BY <3>1, <3>2, <3>3, <1>4, <1>9
  <2> QED BY <2>1, <2>2 DEF PendingInCall
<1>11. ~early' => HoldersKnown'
  <2>1. SUFFICES ASSUME ~early', NEW z \in Reserved, NEW u \in Threads, Holder(u, z)
                 PROVE  Holder(u, z)'
    BY <1>0 DEF HoldersKnown
  <2>2. local[u].at # "WaitForReply"
    BY <2>1 DEF Holder
  <2>3. u \notin Takers(s)
    <3>1. SUFFICES ASSUME u \in Takers(s) PROVE FALSE
      OBVIOUS
    <3>2. local[u].at \in {"Flushing", "WaitForReply"}
      BY <3>1, <1>1, TakerFacts
    <3> QED BY <3>1, <3>2, <2>1, <2>2
  <2>4. local'[u] = local[u]
    BY <2>2, <2>3, <1>2, <1>3
  <2> QED BY <2>1, <2>4 DEF Holder
<1> QED BY <1>6, <1>7, <1>8, <1>10, <1>11


\* A call that has failed, and one that returns: z is x but for its results,
\* its status and its place.
Ended(x, z) ==
    /\ z \in Thread /\ z.call = x.call /\ z.items = x.items /\ z.only = x.only
    /\ z.result \in Seq(Results) /\ DOMAIN z.result = DOMAIN x.result

\* What a call makes of an error.
LEMMA Failing ==
    ASSUME AtomConstants, DistinctNames, NEW x, Running(x), x.at = "WaitForReply"
    PROVE  /\ Ended(x, AfterFailure(x))
           /\ x.call = "InternAtom" =>
                 /\ AfterFailure(x).result[1] = Failed /\ DOMAIN x.result = {1}
                 /\ AfterFailure(x).status = x.status
           /\ x.call = "InternAtoms" =>
                 /\ AfterFailure(x).result[x.missed] = None /\ ~AfterFailure(x).status
                 /\ \A j \in DOMAIN x.result :
                       j # x.missed => AfterFailure(x).result[j] = x.result[j]
           /\ x.call \notin InternCalls => AfterFailure(x) = x
<1>1. /\ x \in Thread /\ x.result \in Seq(Results) /\ DOMAIN x.result = 1..Len(x.items)
      /\ x.missed \in DOMAIN x.result /\ 1 \in DOMAIN x.result
      /\ x.call \notin Plural => DOMAIN x.result = {1}
  <2>1. /\ x \in Thread /\ x.result \in Seq(Results) /\ x.items \in Seq(Names)
        /\ Len(x.result) = Len(x.items) /\ x.i = Len(x.items) + 1 /\ x.missed \in 1..x.i - 1
        /\ x.call \notin Plural => Len(x.items) = 1
    BY DEF Running, Thread
  <2> QED BY <2>1
<1>2. CASE x.call = "InternAtom"
  <2>1. AfterFailure(x) = WithResult(x, 1, Failed)
    BY <1>2 DEF AfterFailure, WithResult
  <2>2. Failed \in Results
    BY DEF Results
  <2>3. Changed(x, AfterFailure(x), 1, Failed)
    BY <1>1, <2>1, <2>2, ResultSet
  <2>4. x.call \notin Plural
    BY <1>2 DEF Plural
  <2> QED BY <1>1, <1>2, <2>3, <2>4 DEF Changed, Ended, InternCalls
<1>3. CASE x.call = "InternAtoms"
  <2> DEFINE y == WithResult(x, x.missed, None)
             z == Cleared(y)
  <2>1. AfterFailure(x) = z
    BY <1>3 DEF AfterFailure, WithResult, Cleared
  <2>2. None \in Results
    BY DEF Results
  <2>3. Changed(x, y, x.missed, None)
    BY <1>1, <2>2, ResultSet
  <2> HIDE DEF y
  <2>4. y \in Thread
    BY <2>3 DEF Changed
  <2>5. /\ z \in Thread /\ z.status = FALSE /\ z.call = y.call /\ z.items = y.items
        /\ z.only = y.only /\ z.result = y.result
    BY <2>4 DEF Thread, Cleared
  <2> HIDE DEF z
  <2> QED BY <1>3, <2>1, <2>3, <2>5 DEF Changed, Ended, InternCalls
<1>4. CASE x.call \notin InternCalls
  <2>1. AfterFailure(x) = x
    BY <1>4 DEF AfterFailure, InternCalls
  <2>2. x.call # "InternAtom" /\ x.call # "InternAtoms"
    BY <1>4 DEF InternCalls
  <2> QED BY <1>1, <2>1, <2>2 DEF Ended
<1> QED BY <1>2, <1>3, <1>4 DEF InternCalls

\* The end of a call leaves its results.
LEMMA Returning ==
    ASSUME NEW x \in Thread
    PROVE  /\ Returned(x) \in Thread /\ Returned(x).at = "Idle" /\ Returned(x).call = x.call
           /\ Returned(x).items = x.items /\ Returned(x).only = x.only
           /\ Returned(x).status = x.status /\ Returned(x).result = x.result
BY DEF Returned, Thread, Places

\* The end of a call.
LEMMA FinishFacts ==
    ASSUME AtomConstants, DistinctNames, AInv, mutex = None, NEW s \in Nat, NEW p \in Threads,
           Running(local[p]), local[p].at = "WaitForReply",
           requests[s].interns <=> local[p].call \in InternCalls,
           NEW answer \in Names \cup {None, Failed}, Finish(p, s, answer)
    PROVE  /\ local' \in [Threads -> Thread \cup {Fresh}]
           /\ local'[p].at = "Idle" /\ Ended(local[p], local'[p])
           /\ local[p].missed \in DOMAIN local[p].result
           /\ \A u \in Threads \ {p} :
                 local'[u] = local[u] \/ (u \in Takers(s) /\ Follows(local[u], local'[u]))
           /\ answer # Failed =>
                 /\ local'[p].status = local[p].status
                 /\ local'[p].result[local[p].missed] = answer
                 /\ \A j \in DOMAIN local[p].result :
                       j # local[p].missed => local'[p].result[j] = local[p].result[j]
           /\ answer = Failed =>
                 /\ local[p].call = "InternAtom" =>
                       local'[p].result[1] = Failed /\ DOMAIN local[p].result = {1}
                 /\ local[p].call = "InternAtoms" =>
                       /\ local'[p].result[local[p].missed] = None /\ ~local'[p].status
                       /\ \A j \in DOMAIN local[p].result :
                             j # local[p].missed => local'[p].result[j] = local[p].result[j]
                 /\ local[p].call = "GetAtomName" => local'[p].result = local[p].result
           /\ table' \in [Slots -> {None, RESERVED} \cup [name : Names, atom : Names]]
           /\ \A z \in Slots :
                 \/ table'[z] = table[z]
                 \/ /\ answer \notin {None, Failed} /\ table'[z] # RESERVED
                    /\ answer = local[p].items[local[p].missed] => table'[z].name = table'[z].atom
           /\ async_handlers' = RemoveFirst(async_handlers, p)
<1> DEFINE x == local[p]
           k == x.missed
           others == IF answer = Failed /\ ~requests[s].interns THEN AfterError(s) ELSE local
           y == IF answer = Failed THEN AfterFailure(others[p]) ELSE WithResult(x, k, answer)
<1>0. Types /\ LockHeld
  BY DEF AInv
<1>1. /\ local' = [others EXCEPT ![p] = Returned(y)]
      /\ table' = IF answer = Failed THEN table ELSE Cached(p, k, answer)
      /\ async_handlers' = RemoveFirst(async_handlers, p)
  BY DEF Finish, DeqAsyncHandler, WithResult
<1>2. x \in Thread /\ x.result \in Seq(Results) /\ k \in DOMAIN x.result
  <2>1. /\ x \in Thread /\ x.result \in Seq(Results) /\ x.items \in Seq(Names)
        /\ Len(x.result) = Len(x.items) /\ x.i = Len(x.items) + 1 /\ x.missed \in 1..x.i - 1
    BY DEF Running, Thread
  <2> QED BY <2>1
<1>3. ASSUME NEW u \in Threads
      PROVE  others[u] = local[u] \/ (u \in Takers(s) /\ Follows(local[u], others[u]))
  <2>1. CASE others = local
    BY <2>1
  <2>2. CASE others = AfterError(s)
    BY <2>2, ErrorShown
  <2> QED BY <2>1, <2>2
<1>4. others \in [Threads -> Thread \cup {Fresh}]
  <2>1. CASE others = local
    BY <2>1, <1>0 DEF Types
  <2>2. CASE others = AfterError(s)
    <3>1. \A u \in Threads : AfterError(s)[u] \in Thread \cup {Fresh}
      <4>1. \A u \in Threads : local[u] \in Thread \cup {Fresh}
        BY <1>0 DEF Types
      <4> QED BY <4>1, <2>2, <1>3 DEF Follows
    <3>2. AfterError(s) = [u \in Threads |-> AfterError(s)[u]]
      BY DEF AfterError
    <3> QED BY <3>1, <3>2, <2>2
  <2> QED BY <2>1, <2>2
<1>5. /\ Running(others[p]) /\ others[p].at = "WaitForReply" /\ others[p].call = x.call
      /\ others[p].items = x.items /\ others[p].only = x.only /\ others[p].missed = k
      /\ DOMAIN others[p].result = DOMAIN x.result
      /\ x.call \notin {"GetAtomNames"} => others[p] = x
  <2>1. CASE others[p] = x
    BY <2>1
  <2>2. CASE p \in Takers(s) /\ Follows(x, others[p]) /\ others[p] # x
    <3>1. Running(others[p])
      BY <2>2, FollowsRuns
    <3>2. x.call \in Plural /\ x.call \in Calls
      BY <2>2, <1>2, TakerFacts DEF Thread
    <3>3. x.call \notin InternCalls
      BY <2>2
    <3>4. x.call = "GetAtomNames"
      BY <3>2, <3>3 DEF Plural, InternCalls
    <3> QED BY <3>1, <3>4, <2>2 DEF Follows
  <2> QED BY <2>1, <2>2, <1>3
<1>6. /\ Ended(x, y)
      /\ answer # Failed => Changed(x, y, k, answer)
      /\ answer = Failed =>
            /\ x.call = "InternAtom" => y.result[1] = Failed /\ DOMAIN x.result = {1}
            /\ x.call = "InternAtoms" =>
                  /\ y.result[k] = None /\ ~y.status
                  /\ \A j \in DOMAIN x.result : j # k => y.result[j] = x.result[j]
            /\ x.call = "GetAtomName" => y.result = x.result
  <2>1. CASE answer # Failed
    <3>1. answer \in Results
      BY <2>1 DEF Results
    <3>2. Changed(x, y, k, answer)
      BY <2>1, <3>1, <1>2, ResultSet
    <3> HIDE DEF y
    <3> QED BY <3>2, <2>1 DEF Changed, Ended
  <2>2. CASE answer = Failed
    <3>1. y = AfterFailure(others[p])
      BY <2>2
    <3> HIDE DEF y, others, x, k
    <3>2. /\ Ended(others[p], y)
          /\ x.call = "InternAtom" => y.result[1] = Failed /\ DOMAIN others[p].result = {1}
          /\ x.call = "InternAtoms" =>
                /\ y.result[k] = None /\ ~y.status
                /\ \A j \in DOMAIN x.result : j # k => y.result[j] = others[p].result[j]
          /\ x.call = "GetAtomName" => y = others[p]
      BY <3>1, <1>5, Failing DEF InternCalls
    <3> QED BY <3>2, <2>2, <1>5 DEF Ended
  <2> QED BY <2>1, <2>2
<1> HIDE DEF others, y
<1>7. /\ local' \in [Threads -> Thread \cup {Fresh}] /\ local'[p] = Returned(y)
      /\ \A u \in Threads \ {p} : local'[u] = others[u]
  <2>1. Returned(y) \in Thread
    BY <1>6, Returning DEF Ended
  <2> QED BY <2>1, <1>1, <1>4
<1>8. /\ Returned(y).at = "Idle" /\ Returned(y) \in Thread /\ Returned(y).call = y.call
      /\ Returned(y).items = y.items /\ Returned(y).only = y.only
      /\ Returned(y).status = y.status /\ Returned(y).result = y.result
  BY <1>6, Returning DEF Ended
<1>9. /\ table' \in [Slots -> {None, RESERVED} \cup [name : Names, atom : Names]]
      /\ \A z \in Slots :
            \/ table'[z] = table[z]
            \/ /\ answer \notin {None, Failed} /\ table'[z] # RESERVED
               /\ answer = x.items[k] => table'[z].name = table'[z].atom
  <2>1. CASE answer = Failed
    BY <2>1, <1>0, <1>1 DEF Types
  <2>2. CASE answer # Failed
    <3>1. answer \in Names \cup {None}
      BY <2>2
    <3>2. /\ Cached(p, k, answer) \in [Slots -> {None, RESERVED} \cup [name : Names, atom : Names]]
          /\ \A z \in Slots :
                \/ Cached(p, k, answer)[z] = table[z]
                \/ /\ answer # None
                   /\ Cached(p, k, answer)[z] # RESERVED
                   /\ answer = x.items[k] =>
                         Cached(p, k, answer)[z].name = Cached(p, k, answer)[z].atom
      BY <3>1, <1>0, <1>2, AnswerCached
    <3> QED BY <3>2, <2>2, <1>1
  <2> QED BY <2>1, <2>2
<1>10. \A u \in Threads \ {p} :
          local'[u] = local[u] \/ (u \in Takers(s) /\ Follows(local[u], local'[u]))
  BY <1>3, <1>7
<1>11. Ended(x, local'[p]) /\ local'[p].at = "Idle"
       /\ local'[p].result = y.result /\ local'[p].status = y.status
  BY <1>6, <1>7, <1>8 DEF Ended
<1>12. answer # Failed =>
          /\ local'[p].status = x.status
          /\ local'[p].result[k] = answer
          /\ \A j \in DOMAIN x.result : j # k => local'[p].result[j] = x.result[j]
  BY <1>6, <1>11 DEF Changed
<1> QED BY <1>1, <1>2, <1>6, <1>7, <1>9, <1>10, <1>11, <1>12


\* The answer that nobody waits for.
LEMMA DispatchFacts ==
    ASSUME AtomConstants, DistinctNames, AInv, mutex = None, NEW s \in Nat,
           NEW answer \in Names \cup {None, Failed}, Dispatch(s, answer)
    PROVE  /\ local' \in [Threads -> Thread \cup {Fresh}]
           /\ \A u \in Threads :
                 local'[u] = local[u] \/ (u \in Takers(s) /\ Follows(local[u], local'[u]))
           /\ table' \in [Slots -> {None, RESERVED} \cup [name : Names, atom : Names]]
           /\ \A z \in Slots : table'[z] = table[z] \/ table'[z] # RESERVED
           /\ answer = Failed => table' = table /\ local' = AfterError(s)
           /\ answer # Failed /\ Takers(s) # {} =>
                 \E t \in Takers(s) :
                    /\ Changed(local[t], local'[t], First(t), answer)
                    /\ \A z \in Slots :
                          \/ table'[z] = table[z]
                          \/ /\ answer # None
                             /\ answer = local[t].items[First(t)] => table'[z].name = table'[z].atom
<1>0. local \in [Threads -> Thread \cup {Fresh}]
      /\ table \in [Slots -> {None, RESERVED} \cup [name : Names, atom : Names]]
      /\ async_handlers \in Seq(Threads)
  BY DEF AInv, Types
<1>1. CASE answer = Failed \/ Takers(s) = {}
  <2>1. local' = AfterError(s) /\ table' = table
    BY <1>1 DEF Dispatch
  <2>2. \A u \in Threads :
           local'[u] = local[u] \/ (u \in Takers(s) /\ Follows(local[u], local'[u]))
    BY <2>1, ErrorShown
  <2>3. local' \in [Threads -> Thread \cup {Fresh}]
    <3>1. \A u \in Threads : AfterError(s)[u] \in Thread \cup {Fresh}
      <4>1. \A u \in Threads : local[u] \in Thread \cup {Fresh}
        BY <1>0
      <4> QED BY <4>1, <2>1, <2>2 DEF Follows
    <3>2. AfterError(s) = [u \in Threads |-> AfterError(s)[u]]
      BY DEF AfterError
    <3> QED BY <3>1, <3>2, <2>1
  <2> QED BY <1>1, <2>1, <2>2, <2>3, <1>0
<1>2. CASE ~(answer = Failed \/ Takers(s) = {})
  <2> DEFINE I == {i \in 1..Len(async_handlers) : async_handlers[i] \in Takers(s)}
             t == async_handlers[SelectInSeq(async_handlers, LAMBDA u : u \in Takers(s))]
             k == First(t)
             x == local[t]
  <2>1. I # {} /\ I \in SUBSET Nat
    <3>1. PICK u \in Takers(s) : TRUE
      BY <1>2
    <3>2. \E i \in DOMAIN async_handlers : async_handlers[i] = u
      BY <3>1 DEF Takers, Installed
    <3> QED BY <3>1, <3>2, <1>0
  <2>2. t \in Takers(s)
    <3>1. SelectInSeq(async_handlers, LAMBDA u : u \in Takers(s)) = Min(I)
      BY <2>1 DEF SelectInSeq
    <3> HIDE DEF I
    <3>2. Min(I) \in I
      BY <2>1, MinFacts
    <3> QED BY <3>1, <3>2 DEF I
  <2>3. local' = [local EXCEPT ![t] = WithResult(@, k, answer)] /\ table' = Cached(t, k, answer)
    BY <1>2 DEF Dispatch, WithResult
  <2> HIDE DEF t
  <2>4. Running(x) /\ k \in DOMAIN x.result /\ t \in Threads
    BY <2>2, TakerFacts
  <2>5. answer \in Results /\ answer \notin Marks /\ answer \in Names \cup {None}
    BY <1>2, Apart DEF Results
  <2>6. Changed(x, WithResult(x, k, answer), k, answer)
    BY <2>4, <2>5, ResultSet
  <2>7. /\ local' \in [Threads -> Thread \cup {Fresh}] /\ local'[t] = WithResult(x, k, answer)
        /\ \A u \in Threads \ {t} : local'[u] = local[u]
    <3> DEFINE y == WithResult(x, k, answer)
    <3>1. local' = [local EXCEPT ![t] = y]
      BY <2>3
    <3>2. y \in Thread
      BY <2>6 DEF Changed
    <3> HIDE DEF y
    <3>3. Types
      BY DEF AInv
    <3>4. local'[t] = y /\ local' \in [Threads -> Thread \cup {Fresh}]
          /\ \A u \in Threads \ {t} : local'[u] = local[u]
      BY <3>1, <3>2, <3>3, <2>4, OneThread
    <3> QED BY <3>4 DEF y
  <2>8. Changed(x, local'[t], k, answer)
    BY <2>6, <2>7
  <2>9. Follows(x, local'[t])
    BY <2>5, <2>8 DEF Changed, Follows
  <2>10. /\ Cached(t, k, answer) \in [Slots -> {None, RESERVED} \cup [name : Names, atom : Names]]
         /\ \A z \in Slots :
               \/ Cached(t, k, answer)[z] = table[z]
               \/ /\ answer # None
                  /\ Cached(t, k, answer)[z] # RESERVED
                  /\ answer = x.items[k] =>
                        Cached(t, k, answer)[z].name = Cached(t, k, answer)[z].atom
    <3>1. Types
      BY DEF AInv
    <3> QED BY <3>1, <2>4, <2>5, AnswerCached
  <2> HIDE DEF k, x
  <2>11. \A u \in Threads :
            local'[u] = local[u] \/ (u \in Takers(s) /\ Follows(local[u], local'[u]))
    BY <2>2, <2>7, <2>9 DEF x
  <2> QED BY <1>2, <2>2, <2>3, <2>7, <2>8, <2>10, <2>11 DEF k, x
<1> QED BY <1>1, <1>2

\* An answer is read, for which a call waits or not.
LEMMA ReadAInv ==
    ASSUME AtomConstants, DistinctNames, AInv, Read
    PROVE  AInv'
<1> DEFINE s == answered + 1
           p == requests[s].by
<1>0. Types /\ ScriptsKept /\ LockHeld /\ HandlersListed /\ PendingInCall
  BY DEF AInv
<1>1. /\ mutex = None /\ s \in 1..Len(requests) /\ s \in Nat /\ requests[s] \in Req
      /\ answered' = s /\ UNCHANGED <<mutex, requests, script, fatal>> /\ p \in Threads
      /\ early' <=> early \/ \E t \in Takers(s) : local[t].at = "Flushing"
      /\ early' \in BOOLEAN /\ mixed' \in BOOLEAN
  <2>1. /\ mutex = None /\ answered < Len(requests) /\ answered' = s /\ ~fatal
        /\ UNCHANGED <<mutex, requests, script, fatal>>
    BY DEF Read
  <2>2. answered \in Nat /\ Len(requests) \in Nat
    BY <1>0 DEF Types
  <2>3. s \in 1..Len(requests) /\ s \in Nat
    BY <2>1, <2>2
  <2>4. requests[s] \in Req
    BY <2>3, <1>0 DEF Types
  <2>5. early' = (early \/ \E t \in Takers(s) : local[t].at = "Flushing") /\ mixed' \in BOOLEAN
    BY <2>1 DEF Read, At
  <2> QED BY <2>1, <2>3, <2>4, <2>5 DEF Req
<1>2. PICK answer \in Answers(requests[s]) :
          /\ errors' = IF answer = Failed /\ requests[s].interns THEN errors + 1 ELSE errors
          /\ known' = IF answer = Failed THEN known ELSE NewlyKnown(requests[s])
          /\ \/ requests[s].awaited /\ Finish(p, s, answer)
             \/ ~requests[s].awaited /\ Dispatch(s, answer) /\ UNCHANGED async_handlers
  BY DEF Read
<1>3. answer \in Names \cup {None, Failed}
  BY <1>1, <1>2 DEF Answers, Req
<1>4. errors' \in 0..MaxErrors
  <2>1. errors \in 0..MaxErrors /\ MaxErrors \in Nat
    BY <1>0 DEF Types, AtomConstants
  <2>2. answer = Failed /\ requests[s].interns => errors < MaxErrors
    BY <1>1, <1>2, Apart DEF Answers, Req
  <2> QED BY <1>2, <2>1, <2>2
<1>5. Predefined \subseteq known' /\ known' \subseteq Names
  BY <1>0, <1>1, <1>2 DEF Types, NewlyKnown, Req
<1> HIDE DEF s, p
<1>a. s = answered + 1 /\ p = requests[s].by
  BY DEF s, p
<1>6. CASE requests[s].awaited
  <2>0. Finish(p, s, answer)
    BY <1>2, <1>6
  <2>1. Running(local[p]) /\ local[p].at = "WaitForReply"
        /\ (requests[s].interns <=> local[p].call \in InternCalls)
    <3>1. s \in Pending(p)
      <4>1. answered \in Nat /\ Len(requests) \in Nat
        BY <1>0 DEF Types
      <4>2. s \in answered + 1..Len(requests)
        BY <4>1, <1>1, <1>a
      <4> QED BY <4>2, <1>a DEF Pending
    <3>2. InCall(p)
      BY <3>1, <1>0, <1>1 DEF PendingInCall
    <3> QED BY <3>1, <3>2, <1>0, <1>1, <1>6 DEF PendingInCall, LockHeld
  <2>2. /\ local' \in [Threads -> Thread \cup {Fresh}]
        /\ local'[p].at = "Idle"
        /\ \A u \in Threads \ {p} :
              local'[u] = local[u] \/ (u \in Takers(s) /\ Follows(local[u], local'[u]))
        /\ table' \in [Slots -> {None, RESERVED} \cup [name : Names, atom : Names]]
        /\ \A z \in Slots : table'[z] = table[z] \/ table'[z] # RESERVED
        /\ async_handlers' = RemoveFirst(async_handlers, p)
    BY <2>0, <2>1, <1>1, <1>3, FinishFacts
  <2>3. /\ async_handlers' \in Seq(Threads)
        /\ \A i, j \in DOMAIN async_handlers' : async_handlers'[i] = async_handlers'[j] => i = j
        /\ \A u \in Threads : Installed(u)' <=> Installed(u) /\ u # p
    <3> DEFINE q == RemoveFirst(async_handlers, p)
    <3>1. async_handlers \in Seq(Threads)
          /\ \A i, j \in DOMAIN async_handlers : async_handlers[i] = async_handlers[j] => i = j
      BY <1>0 DEF Types, HandlersListed
    <3>2. /\ q \in Seq(Threads)
          /\ \A i, j \in DOMAIN q : q[i] = q[j] => i = j
          /\ \A u : (\E i \in DOMAIN q : q[i] = u)
                    <=> (\E i \in DOMAIN async_handlers : async_handlers[i] = u) /\ u # p
      BY <3>1, Dequeued
    <3>3. async_handlers' = q
      BY <2>2
    <3> HIDE DEF q
    <3> QED BY <3>2, <3>3 DEF Installed
  <2>4. Types'
    <3>1. answered' \in 0..Len(requests')
      BY <1>0, <1>1 DEF Types
    <3> QED BY <3>1, <2>2, <2>3, <1>0, <1>1, <1>4, <1>5 DEF Types
  <2>5. Reserved' \subseteq Reserved
    BY <2>2 DEF Reserved
  <2>6. /\ ScriptsKept' /\ LockHeld' /\ HandlersListed' /\ PendingInCall'
        /\ ~early' => HoldersKnown'
    BY <2>2, <2>3, <2>5, <1>1, <1>6, <1>a, AnswerTaken
  <2> QED BY <2>4, <2>6 DEF AInv
<1>7. CASE ~requests[s].awaited
  <2>0. Dispatch(s, answer) /\ async_handlers' = async_handlers
    BY <1>2, <1>7
  <2>2. /\ local' \in [Threads -> Thread \cup {Fresh}]
        /\ \A u \in Threads :
              local'[u] = local[u] \/ (u \in Takers(s) /\ Follows(local[u], local'[u]))
        /\ table' \in [Slots -> {None, RESERVED} \cup [name : Names, atom : Names]]
        /\ \A z \in Slots : table'[z] = table[z] \/ table'[z] # RESERVED
    BY <2>0, <1>1, <1>3, DispatchFacts
  <2>3. /\ \A i, j \in DOMAIN async_handlers' : async_handlers'[i] = async_handlers'[j] => i = j
        /\ \A u \in Threads : Installed(u)' <=> Installed(u)
    BY <2>0, <1>0 DEF HandlersListed, Installed
  <2>4. Types'
    <3>1. answered' \in 0..Len(requests')
      BY <1>0, <1>1 DEF Types
    <3> QED BY <3>1, <2>0, <2>2, <1>0, <1>1, <1>4, <1>5 DEF Types
  <2>5. Reserved' \subseteq Reserved
    BY <2>2 DEF Reserved
  <2>6. /\ ScriptsKept' /\ LockHeld' /\ HandlersListed' /\ PendingInCall'
        /\ ~early' => HoldersKnown'
    BY <2>2, <2>3, <2>5, <1>1, <1>7, <1>a, AnswerTaken
  <2> QED BY <2>4, <2>6 DEF AInv
<1> QED BY <1>6, <1>7


\* Every step keeps AInv.
LEMMA StepAInv ==
    ASSUME AtomConstants, DistinctNames, AInv, [Next]_vars
    PROVE  AInv'
<1>1. CASE UNCHANGED vars
  <2>1. UNCHANGED <<table, async_handlers, mutex, requests, answered, known, errors, script,
                    local, mixed, early, fatal>>
    BY <1>1 DEF vars, serverVars, threadVars
  <2>2. Types'
    BY <2>1 DEF AInv, Types
  <2>3. ScriptsKept' /\ LockHeld'
    BY <2>1 DEF AInv, ScriptsKept, LockHeld, InCall
  <2>4. HandlersListed'
    BY <2>1 DEF AInv, HandlersListed, Installed, InCall
  <2>5. PendingInCall'
    BY <2>1 DEF AInv, PendingInCall, Pending, InCall
  <2>6. ~early' => HoldersKnown'
    BY <2>1 DEF AInv, HoldersKnown, Holder, Reserved
  <2> QED BY <2>2, <2>3, <2>4, <2>5, <2>6 DEF AInv
<1>2. ASSUME NEW t \in Threads, Enter(t) PROVE AInv'
  BY <1>2, EnterAInv
<1>3. ASSUME NEW t \in Threads, LookUp(t) PROVE AInv'
  BY <1>3, LookUpAInv
<1>4. ASSUME NEW t \in Threads, Flush(t) \/ Relock(t) PROVE AInv'
  BY <1>4, FlushAInv
<1>5. ASSUME NEW t \in Threads, Request(t) PROVE AInv'
  BY <1>5, RequestAInv
<1>6. ASSUME NEW t \in Threads, AllLookedUp(t) PROVE AInv'
  BY <1>6, NothingMissed, SomethingMissed
<1>7. ASSUME Read PROVE AInv'
  BY <1>7, ReadAInv
<1> QED BY <1>1, <1>2, <1>3, <1>4, <1>5, <1>6, <1>7 DEF Next

\* Who holds the lock, which handlers are installed, which requests are
\* unanswered and who has reserved a slot, in every state.
THEOREM CallsAreKept ==
    ASSUME AtomConstants, DistinctNames
    PROVE  Spec => []AInv
<1>1. Init => AInv
  BY InitAInv
<1>2. AInv /\ [Next]_vars => AInv'
  BY StepAInv
<1> QED BY <1>1, <1>2, PTL DEF Spec

\* Every variable has its type.
THEOREM AtomTypesAreKept ==
    ASSUME AtomConstants, DistinctNames
    PROVE  Spec => []TypeOK
<1>1. ASSUME AInv PROVE TypeOK
  <2>1. Types
    BY <1>1 DEF AInv
  <2>2. \A s \in Slots : table[s] \in {None, RESERVED} \cup [name : Names, atom : Names]
    BY <2>1 DEF Types
  <2>3. \A i \in DOMAIN requests : requests[i].by \in Threads /\ requests[i].item \in Names
    <3>1. \A i \in DOMAIN requests : requests[i] \in Req
      BY <2>1 DEF Types
    <3> QED BY <3>1 DEF Req
  <2>4. \A t \in Threads : local[t].at \in Places
    BY <2>1 DEF Types, Thread, Fresh, Places
  <2> QED BY <2>1, <2>2, <2>3, <2>4 DEF Types, TypeOK, Places
<1> QED BY <1>1, CallsAreKept, PTL

\* A slot stays reserved only while a call is looking up its names.
THEOREM ReservedIsInUse ==
    ASSUME AtomConstants, DistinctNames
    PROVE  Spec => []ReservedInUse
<1>1. ASSUME AInv PROVE ReservedInUse
  <2>1. SUFFICES ASSUME ~early, NEW s \in Reserved
                 PROVE  \E t \in Threads :
                           /\ local[t].at \in {"Items", "Request", "Flushing", "Flushed"}
                           /\ local[t].slot = s \/ Waiting(s) \in ToSet(local[t].result)
    BY DEF ReservedInUse
  <2>2. PICK t \in Threads : Holder(t, s)
    BY <1>1, <2>1 DEF AInv, HoldersKnown
  <2>3. (\E k \in DOMAIN local[t].result : local[t].result[k] = Waiting(s)) =>
            Waiting(s) \in ToSet(local[t].result)
    BY DEF ToSet
  <2> QED BY <2>2, <2>3 DEF Holder
<1> QED BY <1>1, CallsAreKept, PTL


-----------------------------------------------------------------------------
(***************************************************************************)
(* The steps again: what the answers are.                                  *)
(***************************************************************************)
MatchOf(t) == \E f \in [Asked(t) -> Pending(t)] : Matches(t, f)

ResultsOf(t) ==
    \A k \in DOMAIN local[t].result :
        /\ InCall(t) => ItemTrue(local[t], k)
        /\ ~InCall(t) => ReturnTrue(local[t], k)

\* A thread that waits for what it waited for.
LEMMA MatchKept ==
    ASSUME NEW t \in Threads, MatchOf(t), Asked(t)' = Asked(t), Pending(t)' = Pending(t),
           local'[t].items = local[t].items, local'[t].stop = local[t].stop,
           local'[t].missed = local[t].missed,
           \A s \in Pending(t) : requests'[s].item = requests[s].item
    PROVE  MatchOf(t)'
<1>1. PICK f \in [Asked(t) -> Pending(t)] : Matches(t, f)
  BY DEF MatchOf
<1>2. \A k \in Asked(t) : requests'[f[k]].item = requests[f[k]].item
  OBVIOUS
<1>3. Matches(t, f)'
  BY <1>1, <1>2 DEF Matches
<1> QED BY <1>3 DEF MatchOf

\* A thread to which nothing happens keeps what it has.
LEMMA Untouched ==
    ASSUME NEW t \in Threads, local'[t] = local[t], ResultsOf(t), InCall(t) => MatchOf(t),
           Pending(t)' = Pending(t),
           \A s \in Pending(t) : requests'[s].item = requests[s].item
    PROVE  ResultsOf(t)' /\ (InCall(t)' => MatchOf(t)')
<1>1. Asked(t)' = Asked(t) /\ (InCall(t)' <=> InCall(t))
  BY DEF Asked, InCall
<1>2. InCall(t) => MatchOf(t)'
  BY <1>1, MatchKept
<1>3. ResultsOf(t)'
  BY <1>1 DEF ResultsOf, ItemTrue, ReturnTrue
<1> QED BY <1>1, <1>2, <1>3

\* What a thread has asked for.
LEMMA AskedFacts ==
    ASSUME AInv, NEW t \in Threads, InCall(t)
    PROVE  /\ Running(local[t]) /\ local[t].i \in Nat /\ Asked(t) \subseteq DOMAIN local[t].result
           /\ DOMAIN local[t].result = 1..Len(local[t].items) /\ Len(local[t].items) \in Nat
           /\ \A k \in Asked(t) : /\ local[t].missed # None /\ k <= local[t].missed
                                  /\ local[t].missed \in Nat /\ k < local[t].i
<1>1. Running(local[t])
  BY DEF AInv, LockHeld
<1>2. /\ local[t].i \in Nat /\ DOMAIN local[t].result = 1..Len(local[t].items)
      /\ Len(local[t].items) \in Nat
      /\ local[t].missed # None => local[t].missed \in 1..local[t].i - 1
  BY <1>1 DEF Running, Thread
<1>3. Asked(t) \subseteq DOMAIN local[t].result
  BY DEF Asked
<1>4. \A k \in Asked(t) : local[t].missed # None /\ k <= local[t].missed
  BY <1>1 DEF Asked, Running
<1> QED BY <1>1, <1>2, <1>3, <1>4

\* The calls whose items are known to the server.
LEMMA AtomsStayKnown ==
    ASSUME AtomConstants, AnswersInv, NEW t \in Threads,
           \A u \in Threads \ {t} :
              /\ script'[u] = script[u]
              /\ InCall(u)' => /\ InCall(u) /\ local'[u].call = local[u].call
                               /\ local'[u].items = local[u].items,
           \/ /\ script'[t] = script[t]
              /\ InCall(t)' => /\ InCall(t) /\ local'[t].call = local[t].call
                               /\ local'[t].items = local[t].items
           \/ /\ script[t] # <<>> /\ script'[t] = Tail(script[t])
              /\ local'[t].call = Head(script[t]).call
              /\ local'[t].items = Head(script[t]).items
    PROVE  AtomsKnown'
<1>0. AtomsKnown /\ Types
  BY DEF AnswersInv, AInv
<1>1. ASSUME NEW u \in Threads,
             script'[u] = script[u],
             InCall(u)' => /\ InCall(u) /\ local'[u].call = local[u].call
                           /\ local'[u].items = local[u].items
      PROVE  /\ \A i \in DOMAIN script'[u] :
                    script'[u][i].call = "GetAtomNames" =>
                        \A k \in DOMAIN script'[u][i].items : script'[u][i].items[k] \in Predefined
             /\ InCall(u)' /\ local'[u].call = "GetAtomNames" =>
                    \A k \in DOMAIN local'[u].items : local'[u].items[k] \in Predefined
  BY <1>0, <1>1 DEF AtomsKnown
<1>2. CASE /\ script[t] # <<>> /\ script'[t] = Tail(script[t])
           /\ local'[t].call = Head(script[t]).call
           /\ local'[t].items = Head(script[t]).items
  <2>1. script[t] \in Seq(AtomCall)
    BY <1>0 DEF Types
  <2>2. \A i \in DOMAIN Tail(script[t]) :
            i + 1 \in DOMAIN script[t] /\ Tail(script[t])[i] = script[t][i + 1]
    BY <2>1, <1>2, TailFacts
  <2>3. 1 \in DOMAIN script[t] /\ Head(script[t]) = script[t][1]
    BY <2>1, <1>2
  <2>4. /\ \A i \in DOMAIN script'[t] :
              script'[t][i].call = "GetAtomNames" =>
                  \A k \in DOMAIN script'[t][i].items : script'[t][i].items[k] \in Predefined
        /\ InCall(t)' /\ local'[t].call = "GetAtomNames" =>
              \A k \in DOMAIN local'[t].items : local'[t].items[k] \in Predefined
    BY <2>2, <2>3, <1>0, <1>2 DEF AtomsKnown
  <2> QED BY <2>4, <1>1 DEF AtomsKnown
<1>3. CASE /\ script'[t] = script[t]
           /\ InCall(t)' => /\ InCall(t) /\ local'[t].call = local[t].call
                            /\ local'[t].items = local[t].items
  BY <1>1, <1>3 DEF AtomsKnown
<1> QED BY <1>2, <1>3

\* Nothing has been answered.
LEMMA InitAnswersInv ==
    ASSUME AtomConstants, DistinctNames, AtomsExist, Init
    PROVE  AnswersInv
<1>1. \A t \in Threads : local[t].at = "Idle" /\ local[t].result = <<>>
  BY DEF Init
<1>2. \A t \in Threads : ~InCall(t)
  BY <1>1 DEF InCall, Calling
<1>3. AtomsKnown
  BY <1>2 DEF Init, AtomsKnown, AtomsExist
<1>4. AnswersMatch /\ ResultsTrue
  BY <1>1, <1>2 DEF AnswersMatch, ResultsTrue
<1>5. EntriesTrue
  BY DEF Init, EntriesTrue
<1> QED BY <1>3, <1>4, <1>5, InitAInv DEF AnswersInv

\* A call has no results yet.
LEMMA EnterAnswersInv ==
    ASSUME AtomConstants, DistinctNames, AnswersInv, NEW t \in Threads, Enter(t)
    PROVE  AnswersInv'
<1> DEFINE c == Head(script[t])
           y == [at |-> "Items", call |-> c.call, items |-> c.items, only |-> c.only,
                 i |-> 1, start |-> Len(requests) + 1, stop |-> None, missed |-> None,
                 slot |-> None, status |-> TRUE,
                 result |-> [k \in DOMAIN c.items |-> Unset]]
<1>0. AInv /\ Types
  BY DEF AnswersInv, AInv
<1>1. /\ local[t].at = "Idle" /\ script[t] # <<>>
      /\ local' = [local EXCEPT ![t] = y]
      /\ script' = [script EXCEPT ![t] = Tail(@)]
      /\ UNCHANGED <<table, requests, answered, known, errors, mixed, early, fatal>>
  BY DEF Enter, At, serverVars
<1>2. /\ y.at = "Items" /\ y.call = c.call /\ y.items = c.items /\ y.i = 1
      /\ \A k \in DOMAIN y.result : y.result[k] = Unset
  OBVIOUS
<1>3. /\ local'[t] = y /\ \A u \in Threads \ {t} : local'[u] = local[u]
      /\ script'[t] = Tail(script[t]) /\ \A u \in Threads \ {t} : script'[u] = script[u]
  BY <1>0, <1>1 DEF Types
<1>4. AInv'
  BY <1>0, EnterAInv
<1>n. \A k \in DOMAIN y.result : k \in Nat /\ k >= 1
  <2>1. Running(local'[t])
    BY <1>2, <1>3, <1>4 DEF AInv, LockHeld, InCall, Calling, Places
  <2>2. local'[t].result \in Seq(Results)
    BY <2>1 DEF Running, Thread
  <2> QED BY <2>2, <1>3
<1> HIDE DEF y, c
<1>5. AtomsKnown'
  <2>1. \A u \in Threads \ {t} : InCall(u)' <=> InCall(u)
    BY <1>3 DEF InCall
  <2> QED BY <2>1, <1>1, <1>2, <1>3, AtomsStayKnown DEF c
<1>6. ASSUME ~mixed' PROVE AnswersMatch' /\ ResultsTrue' /\ EntriesTrue'
  <2>1. \A u \in Threads : Pending(u)' = Pending(u)
    BY <1>1 DEF Pending
  <2>2. EntriesTrue'
    BY <1>1, <1>6 DEF AnswersInv, EntriesTrue
  <2>3. ASSUME NEW u \in Threads, u # t PROVE ResultsOf(u)' /\ (InCall(u)' => MatchOf(u)')
    <3>1. ResultsOf(u) /\ (InCall(u) => MatchOf(u))
      BY <1>1, <1>6 DEF AnswersInv, AnswersMatch, ResultsTrue, ResultsOf, MatchOf
    <3> QED BY <3>1, <2>1, <2>3, <1>1, <1>3, Untouched
  <2>4. ResultsOf(t)'
    BY <1>2, <1>3, <1>n DEF ResultsOf, ItemTrue, InCall, Calling, Places
  <2>5. MatchOf(t)'
    <3>1. Asked(t)' = {}
      BY <1>2, <1>3, Apart DEF Asked
    <3>2. Pending(t)' = {}
      BY <2>1, <1>0, <1>1 DEF AInv, PendingInCall, InCall, Calling
    <3> DEFINE f == [k \in {} |-> 0]
    <3>3. f \in [Asked(t)' -> Pending(t)']
      BY <3>1, <3>2
    <3>4. Matches(t, f)'
      BY <3>1, <3>2, <3>3 DEF Matches
    <3> QED BY <3>3, <3>4 DEF MatchOf
  <2>6. AnswersMatch'
    BY <2>3, <2>5 DEF AnswersMatch, MatchOf
  <2>7. ResultsTrue'
    BY <2>3, <2>4 DEF ResultsTrue, ResultsOf
  <2> QED BY <2>2, <2>6, <2>7
<1> QED BY <1>4, <1>5, <1>6 DEF AnswersInv


\* A step of one thread.
LEMMA OneSteps ==
    ASSUME AnswersInv, ~mixed, NEW t \in Threads,
           \A u \in Threads \ {t} :
              /\ local'[u] = local[u]
              /\ Pending(u)' = Pending(u)
              /\ \A s \in Pending(u) : requests'[s].item = requests[s].item,
           ResultsOf(t)', InCall(t)' => MatchOf(t)'
    PROVE  AnswersMatch' /\ ResultsTrue'
<1>1. ASSUME NEW u \in Threads PROVE ResultsOf(u)' /\ (InCall(u)' => MatchOf(u)')
  <2>1. ResultsOf(u) /\ (InCall(u) => MatchOf(u))
    BY DEF AnswersInv, AnswersMatch, ResultsTrue, ResultsOf, MatchOf
  <2> QED BY <2>1, Untouched
<1>2. AnswersMatch'
  BY <1>1 DEF AnswersMatch, MatchOf
<1>3. ResultsTrue'
  BY <1>1 DEF ResultsTrue, ResultsOf
<1> QED BY <1>2, <1>3

\* A thread that goes on with the results it had.
LEMMA SameResults ==
    ASSUME AnswersInv, ~mixed, NEW t \in Threads, InCall(t), InCall(t)',
           local'[t].result = local[t].result, local'[t].i = local[t].i,
           local'[t].items = local[t].items, local'[t].only = local[t].only,
           local'[t].status = local[t].status
    PROVE  ResultsOf(t)' /\ Asked(t)' = Asked(t)
<1>1. ResultsOf(t)
  BY DEF AnswersInv, ResultsTrue, ResultsOf
<1>2. ResultsOf(t)'
  BY <1>1 DEF ResultsOf, ItemTrue
<1>3. Asked(t)' = Asked(t)
  BY DEF Asked
<1> QED BY <1>2, <1>3

\* What is found in the cache is right, because the entries are.
LEMMA LookUpAnswersInv ==
    ASSUME AtomConstants, DistinctNames, AnswersInv, NEW t \in Threads, LookUp(t)
    PROVE  AnswersInv'
<1> DEFINE x == local[t]
<1>0. AInv /\ Types
  BY DEF AnswersInv, AInv
<1>1. /\ x.at = "Items" /\ Running(x) /\ x.i \in DOMAIN x.result
      /\ UNCHANGED <<async_handlers, mutex, requests, answered, known, errors, script, mixed, early>>
  BY <1>0, LookUpFacts
<1>2. AInv'
  BY <1>0, LookUpAInv
<1>3. InCall(t) /\ \A u \in Threads : Pending(u)' = Pending(u)
  BY <1>1 DEF InCall, Calling, Places, Pending
<1>4. x \in Thread
  BY <1>1 DEF Running
<1>5. CASE UNCHANGED <<table, local>>
  <2>1. \A u \in Threads : InCall(u)' <=> InCall(u)
    BY <1>5 DEF InCall
  <2>2. AtomsKnown'
    BY <2>1, <1>1, <1>5 DEF AnswersInv, AtomsKnown
  <2>3. ASSUME ~mixed PROVE AnswersMatch' /\ ResultsTrue' /\ EntriesTrue'
    <3>1. ResultsOf(t)' /\ (InCall(t)' => MatchOf(t)')
      <4>1. ResultsOf(t) /\ MatchOf(t)
        BY <1>3, <2>3 DEF AnswersInv, AnswersMatch, ResultsTrue, ResultsOf, MatchOf
      <4> QED BY <4>1, <1>1, <1>3, <1>5, Untouched
    <3>2. EntriesTrue'
      BY <1>5, <2>3 DEF AnswersInv, EntriesTrue
    <3> QED BY <3>1, <3>2, <2>3, <1>1, <1>3, <1>5, OneSteps
  <2> QED BY <1>1, <1>2, <2>2, <2>3 DEF AnswersInv
<1>6. ASSUME UNCHANGED table, NEW atom \in Names, EntriesTrue => atom = Item(t),
             local' = [local EXCEPT ![t] = Done(@, atom)]
      PROVE  AnswersInv'
  <2> DEFINE y == Done(x, atom)
  <2>1. /\ y \in Thread
        /\ y.at = x.at /\ y.call = x.call /\ y.items = x.items /\ y.only = x.only
        /\ y.start = x.start /\ y.stop = x.stop /\ y.missed = x.missed /\ y.slot = x.slot
        /\ y.status = x.status /\ y.i = x.i + 1
        /\ y.result = [x.result EXCEPT ![x.i] = atom]
        /\ DOMAIN y.result = DOMAIN x.result
    <3>1. atom \in Results
      BY DEF Results
    <3> HIDE DEF x, y
    <3>2. Running(x) /\ x.at \in {"Items", "Request", "Flushed"} /\ x.i \in DOMAIN x.result
      BY <1>1 DEF x
    <3>3. y = Done(x, atom)
      BY DEF y
    <3> QED BY <3>1, <3>2, <3>3, ItemDone
  <2>2. local'[t] = y /\ \A u \in Threads \ {t} : local'[u] = local[u]
    <3>1. local' = [local EXCEPT ![t] = y]
      BY <1>6
    <3> HIDE DEF y
    <3> QED BY <3>1, <2>1, <1>0, OneThread
  <2> HIDE DEF y
  <2>3. \A k \in DOMAIN y.result : y.result[k] = IF k = x.i THEN atom ELSE x.result[k]
    BY <2>1
  <2>4. \A u \in Threads : (InCall(u)' <=> InCall(u)) /\ local'[u].call = local[u].call
                           /\ local'[u].items = local[u].items
    BY <2>1, <2>2 DEF InCall
  <2>5. AtomsKnown'
    BY <2>4, <1>1, AtomsStayKnown
  <2>6. ASSUME ~mixed PROVE AnswersMatch' /\ ResultsTrue' /\ EntriesTrue'
    <3>1. EntriesTrue /\ ResultsOf(t) /\ MatchOf(t)
      BY <1>3, <2>6 DEF AnswersInv, AnswersMatch, ResultsTrue, ResultsOf, MatchOf
    <3>2. EntriesTrue'
      BY <3>1, <1>6 DEF EntriesTrue
    <3>3. Asked(t)' = Asked(t)
      BY <1>0, <1>3, <2>1, <2>2, <2>3, AskedFacts, Apart DEF Asked
    <3>4. MatchOf(t)'
      BY <3>1, <3>3, <1>1, <1>3, <2>1, <2>2, MatchKept
    <3>5. ResultsOf(t)'
      <4>1. SUFFICES ASSUME NEW k \in DOMAIN x.result PROVE ItemTrue(y, k)
        BY <1>3, <2>1, <2>2, <2>4 DEF ResultsOf
      <4>2. ItemTrue(x, k) /\ k \in Nat /\ x.i \in Nat
        BY <3>1, <1>0, <1>3, AskedFacts DEF ResultsOf
      <4>3. CASE k = x.i
        BY <4>2, <4>3, <3>1, <2>1, <2>3, <1>6 DEF ItemTrue, Item
      <4>4. CASE k # x.i
        <5>1. y.result[k] = x.result[k] /\ (k >= x.i => k >= y.i) /\ (k < x.i => k < y.i)
          BY <4>2, <4>4, <2>1, <2>3
        <5> QED BY <5>1, <4>2, <2>1 DEF ItemTrue
      <4> QED BY <4>3, <4>4
    <3> QED BY <3>2, <3>4, <3>5, <2>2, <2>6, <1>1, <1>3, OneSteps
  <2> QED BY <1>1, <1>2, <2>5, <2>6 DEF AnswersInv
<1>7. ASSUME NEW s \in Slots \cup {None},
             local' = [local EXCEPT ![t] = [@ EXCEPT !.at = "Request", !.slot = s]],
             table' = table \/ (s # None /\ table' = [table EXCEPT ![s] = RESERVED])
      PROVE  AnswersInv'
  <2> DEFINE y == [x EXCEPT !.at = "Request", !.slot = s]
  <2>1. /\ y.at = "Request" /\ y.call = x.call /\ y.items = x.items /\ y.only = x.only
        /\ y.start = x.start /\ y.stop = x.stop /\ y.missed = x.missed
        /\ y.status = x.status /\ y.i = x.i /\ y.result = x.result /\ y \in Thread
    BY <1>4 DEF Thread, Places
  <2>2. local'[t] = y /\ \A u \in Threads \ {t} : local'[u] = local[u]
    <3>1. local' = [local EXCEPT ![t] = y]
      BY <1>7
    <3> HIDE DEF y
    <3> QED BY <3>1, <2>1, <1>0, OneThread
  <2> HIDE DEF y
  <2>4. \A u \in Threads : (InCall(u)' <=> InCall(u)) /\ local'[u].call = local[u].call
                           /\ local'[u].items = local[u].items
    BY <1>3, <2>1, <2>2 DEF InCall, Calling, Places
  <2>5. AtomsKnown'
    BY <2>4, <1>1, AtomsStayKnown
  <2>6. ASSUME ~mixed PROVE AnswersMatch' /\ ResultsTrue' /\ EntriesTrue'
    <3>1. EntriesTrue /\ MatchOf(t)
      BY <1>3, <2>6 DEF AnswersInv, AnswersMatch, MatchOf
    <3>2. EntriesTrue'
      BY <3>1, <1>0, <1>7 DEF EntriesTrue, Types
    <3>3. ResultsOf(t)' /\ Asked(t)' = Asked(t)
      BY <2>1, <2>2, <2>4, <2>6, <1>3, SameResults
    <3>4. MatchOf(t)'
      BY <3>1, <3>3, <1>1, <1>3, <2>1, <2>2, MatchKept
    <3> QED BY <3>2, <3>3, <3>4, <2>2, <2>6, <1>1, <1>3, OneSteps
  <2> QED BY <1>1, <1>2, <2>5, <2>6 DEF AnswersInv
<1> QED BY <1>0, <1>5, <1>6, <1>7, LookUpFacts

\* The lock is given up and taken again in the middle of a call.
LEMMA FlushAnswersInv ==
    ASSUME AtomConstants, DistinctNames, AnswersInv, NEW t \in Threads, Flush(t) \/ Relock(t)
    PROVE  AnswersInv'
<1> DEFINE x == local[t]
           place == IF Flush(t) THEN "Flushing" ELSE "Flushed"
           y == [x EXCEPT !.at = place]
<1>0. AInv /\ Types
  BY DEF AnswersInv, AInv
<1>1. /\ x.at \in {"Request", "Flushing"} /\ place \in {"Flushing", "Flushed"}
      /\ local' = [local EXCEPT ![t] = y]
      /\ UNCHANGED <<table, requests, answered, script, mixed>>
  <2>1. CASE Flush(t)
    BY <2>1, <1>0 DEF Flush, At, serverVars, Types
  <2>2. CASE ~Flush(t)
    BY <2>2, <1>0 DEF Relock, At, serverVars, Types
  <2> QED BY <2>1, <2>2
<1> HIDE DEF place
<1>2. AInv'
  BY <1>0, FlushAInv
<1>3. InCall(t) /\ (\A u \in Threads : Pending(u)' = Pending(u)) /\ x \in Thread
  BY <1>0, <1>1 DEF InCall, Calling, Places, Pending, AInv, LockHeld, Running
<1>4. /\ y.at = place /\ y.call = x.call /\ y.items = x.items /\ y.only = x.only
      /\ y.start = x.start /\ y.stop = x.stop /\ y.missed = x.missed
      /\ y.status = x.status /\ y.i = x.i /\ y.result = x.result /\ y \in Thread
  BY <1>1, <1>3 DEF Thread, Places
<1>5. local'[t] = y /\ \A u \in Threads \ {t} : local'[u] = local[u]
  <2>1. local' = [local EXCEPT ![t] = y]
    BY <1>1
  <2> HIDE DEF y
  <2> QED BY <2>1, <1>0, <1>4, OneThread
<1> HIDE DEF y
<1>6. \A u \in Threads : (InCall(u)' <=> InCall(u)) /\ local'[u].call = local[u].call
                         /\ local'[u].items = local[u].items
  BY <1>1, <1>3, <1>4, <1>5 DEF InCall, Calling, Places
<1>7. AtomsKnown'
  BY <1>6, <1>1, AtomsStayKnown
<1>8. ASSUME ~mixed PROVE AnswersMatch' /\ ResultsTrue' /\ EntriesTrue'
  <2>1. EntriesTrue /\ MatchOf(t)
    BY <1>3, <1>8 DEF AnswersInv, AnswersMatch, MatchOf
  <2>2. EntriesTrue'
    BY <2>1, <1>1 DEF EntriesTrue
  <2>3. ResultsOf(t)' /\ Asked(t)' = Asked(t)
    BY <1>3, <1>4, <1>5, <1>6, <1>8, SameResults
  <2>4. MatchOf(t)'
    BY <2>1, <2>3, <1>1, <1>3, <1>4, <1>5, MatchKept
  <2> QED BY <2>2, <2>3, <2>4, <1>1, <1>3, <1>5, <1>8, OneSteps
<1> QED BY <1>1, <1>2, <1>7, <1>8 DEF AnswersInv


\* The item that is asked for is matched with the new request, the last of both.
LEMMA RequestAnswersInv ==
    ASSUME AtomConstants, DistinctNames, AnswersInv, NEW t \in Threads, Request(t)
    PROVE  AnswersInv'
<1> DEFINE x == local[t]
           y == local'[t]
           n == Len(requests) + 1
<1>0. AInv /\ Types
  BY DEF AnswersInv, AInv
<1>1. /\ x.at \in {"Request", "Flushed"}
      /\ UNCHANGED <<table, answered, known, errors, script, mixed, early, fatal>>
      /\ x.i \in DOMAIN x.result /\ x.i \in Nat
      /\ \A u \in Threads \ {t} : local'[u] = local[u]
  BY <1>0, RequestFacts
<1>2. /\ \A s \in 1..Len(requests) : requests'[s] = requests[s]
      /\ requests'[Len(requests) + 1].item = x.items[x.i]
      /\ Len(requests) \in Nat
  BY <1>0, RequestFacts
<1>3. /\ y.at = "Items" /\ y.call = x.call /\ y.items = x.items /\ y.only = x.only
      /\ y.stop = Len(requests) + 1 /\ y.missed = x.i
      /\ y.status = x.status /\ y.i = x.i + 1
      /\ DOMAIN y.result = DOMAIN x.result
      /\ \A k \in DOMAIN x.result : k # x.i => y.result[k] = x.result[k]
      /\ y.result[x.i] \in Marks
  BY <1>0, RequestFacts
<1>4. \A u \in Threads : Pending(u)' = IF u = t THEN Pending(u) \cup {n} ELSE Pending(u)
  BY <1>0, RequestPending
<1>5. n \in Nat /\ \A u \in Threads : \A s \in Pending(u) : s \in 1..Len(requests) /\ s < n /\ s \in Nat
  <2>1. answered \in Nat
    BY <1>0, <1>2 DEF Types
  <2> QED BY <2>1, <1>2 DEF Pending
<1>n. n = Len(requests) + 1
  OBVIOUS
<1> HIDE DEF x, y, n
<1>6. InCall(t) /\ InCall(t)'
  BY <1>1, <1>3 DEF InCall, Calling, Places, x, y
<1>7. AInv'
  BY <1>0, RequestAInv
<1>8. AtomsKnown'
  <2>1. \A u \in Threads : (InCall(u)' => InCall(u)) /\ local'[u].call = local[u].call
                           /\ local'[u].items = local[u].items
    BY <1>1, <1>3, <1>6 DEF InCall, x, y
  <2> QED BY <2>1, <1>1, AtomsStayKnown
<1>9. ASSUME ~mixed PROVE AnswersMatch' /\ ResultsTrue' /\ EntriesTrue'
  <2>1. EntriesTrue /\ ResultsOf(t) /\ MatchOf(t)
    BY <1>6, <1>9 DEF AnswersInv, AnswersMatch, ResultsTrue, ResultsOf, MatchOf
  <2>2. EntriesTrue'
    BY <2>1, <1>1 DEF EntriesTrue
  <2>3. ASSUME NEW u \in Threads, u # t
        PROVE  /\ local'[u] = local[u] /\ Pending(u)' = Pending(u)
               /\ \A s \in Pending(u) : requests'[s].item = requests[s].item
    BY <2>3, <1>1, <1>2, <1>4, <1>5
  <2>4. ResultsOf(t)'
    <3>1. SUFFICES ASSUME NEW k \in DOMAIN x.result PROVE ItemTrue(y, k)
      BY <1>3, <1>6 DEF ResultsOf, x, y
    <3>2. ItemTrue(x, k) /\ k \in Nat
      BY <2>1, <1>0, <1>6, AskedFacts DEF ResultsOf, x
    <3>3. CASE k = x.i
      BY <3>2, <3>3, <1>1, <1>3 DEF ItemTrue
    <3>4. CASE k # x.i
      <4>1. y.result[k] = x.result[k] /\ (k >= x.i => k >= y.i) /\ (k < x.i => k < y.i)
        BY <3>2, <3>4, <1>1, <1>3
      <4> QED BY <4>1, <3>2, <1>3 DEF ItemTrue
    <3> QED BY <3>3, <3>4
  <2>5. /\ Asked(t)' = Asked(t) \cup {x.i} /\ \A k \in Asked(t) : k < x.i /\ k \in Nat
        /\ x.i \notin Asked(t)
    <3>1. \A k \in Asked(t) : k < x.i /\ k \in DOMAIN x.result /\ k \in Nat
      BY <1>0, <1>6, AskedFacts DEF x
    <3>2. x.i \notin Asked(t)
      BY <3>1, <1>1
    <3>3. Asked(t)' = Asked(t) \cup {x.i}
      BY <3>2, <1>1, <1>3 DEF Asked, x, y
    <3> QED BY <3>1, <3>2, <3>3
  <2>6. MatchOf(t)'
    <3>1. PICK f \in [Asked(t) -> Pending(t)] : Matches(t, f)
      BY <2>1 DEF MatchOf
    <3>2. PICK g \in [Asked(t)' -> Pending(t)'] :
              g[x.i] = n /\ \A k \in Asked(t) : g[k] = f[k] /\ f[k] \in Pending(t)
      <4> DEFINE h == [k \in Asked(t) \cup {x.i} |-> IF k = x.i THEN n ELSE f[k]]
      <4>1. h \in [Asked(t)' -> Pending(t)'] /\ h[x.i] = n
            /\ \A k \in Asked(t) : h[k] = f[k] /\ f[k] \in Pending(t)
        BY <2>5, <1>4
      <4> HIDE DEF h
      <4> QED BY <4>1
    <3>3. \A s \in Pending(t)' : \E k \in Asked(t)' : g[k] = s
      <4>1. \A s \in Pending(t) : \E k \in Asked(t) : f[k] = s
        BY <3>1 DEF Matches
      <4> QED BY <4>1, <3>2, <2>5, <1>4
    <3>4. \A j, k \in Asked(t)' : j < k => g[j] < g[k]
      <4>1. SUFFICES ASSUME NEW j \in Asked(t)', NEW k \in Asked(t)', j < k PROVE g[j] < g[k]
        OBVIOUS
      <4>2. j \in Asked(t)
        BY <4>1, <2>5, <1>1
      <4>3. CASE k = x.i
        BY <4>2, <4>3, <3>2, <1>5
      <4>4. CASE k \in Asked(t)
        BY <4>1, <4>2, <4>4, <3>1, <3>2 DEF Matches
      <4> QED BY <4>3, <4>4, <2>5
    <3>5. \A k \in Asked(t)' : requests'[g[k]].item = local'[t].items[k]
      <4>1. \A k \in Asked(t) : requests[f[k]].item = x.items[k]
        BY <3>1 DEF Matches, x
      <4>2. \A k \in Asked(t) : requests'[g[k]].item = x.items[k]
        BY <4>1, <3>2, <1>2, <1>5
      <4> QED BY <4>2, <3>2, <2>5, <1>2, <1>3, <1>n DEF y
    <3>6. local'[t].stop = n /\ local'[t].missed = x.i /\ x.i \in Asked(t)'
      BY <2>5, <1>3, <1>n DEF y
    <3>7. Matches(t, g)'
      BY <3>2, <3>3, <3>4, <3>5, <3>6 DEF Matches
    <3> QED BY <3>2, <3>7 DEF MatchOf
  <2> QED BY <2>2, <2>3, <2>4, <2>6, <1>9, OneSteps
<1> QED BY <1>1, <1>7, <1>8, <1>9 DEF AnswersInv

\* A call ends with no item asked for, or waits for its last answer.
LEMMA AllLookedUpAnswersInv ==
    ASSUME AtomConstants, DistinctNames, AnswersInv, NEW t \in Threads, AllLookedUp(t)
    PROVE  AnswersInv'
<1> DEFINE x == local[t]
<1>0. AInv /\ Types
  BY DEF AnswersInv, AInv
<1>1. x.at = "Items" /\ x.i > Len(x.items)
      /\ UNCHANGED <<answered, known, errors, script, mixed, early, fatal>>
  BY DEF AllLookedUp, At, serverVars
<1>2. InCall(t) /\ Running(x) /\ x \in Thread
  BY <1>0, <1>1 DEF InCall, Calling, Places, AInv, LockHeld, Running
<1>3. CASE x.missed = None
  <2> DEFINE y == [x EXCEPT !.at = "Idle"]
  <2>1. local' = [local EXCEPT ![t] = y] /\ UNCHANGED <<table, requests>>
    BY <1>3 DEF AllLookedUp, Returned
  <2>2. /\ y.at = "Idle" /\ y.call = x.call /\ y.items = x.items /\ y.only = x.only
        /\ y.status = x.status /\ y.result = x.result /\ y \in Thread
    BY <1>2 DEF Thread, Places
  <2>3. local'[t] = y /\ \A u \in Threads \ {t} : local'[u] = local[u]
    <3> HIDE DEF y
    <3> QED BY <2>1, <2>2, <1>0, OneThread
  <2> HIDE DEF y
  <2>4. AInv'
    BY <1>0, <1>3, NothingMissed
  <2>5. ~InCall(t)' /\ \A u \in Threads : Pending(u)' = Pending(u)
    BY <2>1, <2>2, <2>3, <1>1 DEF InCall, Calling, Pending
  <2>6. AtomsKnown'
    <3>1. \A u \in Threads \ {t} : InCall(u)' => InCall(u)
      BY <2>3 DEF InCall
    <3> QED BY <3>1, <2>3, <2>5, <1>1, AtomsStayKnown
  <2>7. ASSUME ~mixed PROVE AnswersMatch' /\ ResultsTrue' /\ EntriesTrue'
    <3>1. EntriesTrue /\ ResultsOf(t)
      BY <2>7 DEF AnswersInv, ResultsTrue, ResultsOf
    <3>2. EntriesTrue'
      BY <3>1, <2>1 DEF EntriesTrue
    <3>3. ResultsOf(t)'
      <4>1. SUFFICES ASSUME NEW k \in DOMAIN x.result PROVE ReturnTrue(y, k)
        BY <2>2, <2>3, <2>5 DEF ResultsOf
      <4>2. ItemTrue(x, k) /\ k \in Nat /\ k <= Len(x.items)
        BY <3>1, <1>0, <1>2, AskedFacts DEF ResultsOf
      <4>3. x.result[k] \notin Marks /\ x.i \in Nat /\ Len(x.items) \in Nat
        BY <1>2, <1>3 DEF Running, Thread
      <4>4. ~(k >= x.i)
        BY <4>2, <4>3, <1>1
      <4> QED BY <4>2, <4>3, <4>4, <2>2 DEF ItemTrue, ReturnTrue
    <3> QED BY <3>2, <3>3, <2>1, <2>3, <2>5, <2>7, OneSteps
  <2> QED BY <2>4, <2>6, <2>7, <1>1 DEF AnswersInv
<1>4. CASE x.missed # None
  <2> DEFINE y == [x EXCEPT !.at = "WaitForReply"]
  <2>1. /\ local' = [local EXCEPT ![t] = y]
        /\ table' = [s \in Slots |-> IF s \in ReservedBy(t) THEN None ELSE table[s]]
        /\ x.stop \in Pending(t)
        /\ Len(requests') = Len(requests)
        /\ \A s \in 1..Len(requests) : s # x.stop => requests'[s] = requests[s]
        /\ requests'[x.stop].by = t /\ requests'[x.stop].item = requests[x.stop].item
    BY <1>0, <1>4, WaitFacts
  <2>2. /\ y.at = "WaitForReply" /\ y.call = x.call /\ y.items = x.items /\ y.only = x.only
        /\ y.status = x.status /\ y.result = x.result /\ y \in Thread /\ y.i = x.i
        /\ y.stop = x.stop /\ y.missed = x.missed
    BY <1>2 DEF Thread, Places
  <2>3. local'[t] = y /\ \A u \in Threads \ {t} : local'[u] = local[u]
    <3> HIDE DEF y
    <3> QED BY <2>1, <2>2, <1>0, OneThread
  <2> HIDE DEF y
  <2>4. AInv'
    BY <1>0, <1>4, SomethingMissed
  <2>5. InCall(t)'
    BY <2>2, <2>3 DEF InCall, Calling, Places
  <2>6. AtomsKnown'
    <3>1. \A u \in Threads : (InCall(u)' => InCall(u)) /\ local'[u].call = local[u].call
                             /\ local'[u].items = local[u].items
      BY <2>2, <2>3, <1>2 DEF InCall
    <3> QED BY <3>1, <1>1, AtomsStayKnown
  <2>7. /\ \A s \in 1..Len(requests) :
              requests'[s].by = requests[s].by /\ requests'[s].item = requests[s].item
        /\ answered + 1..Len(requests) \subseteq 1..Len(requests)
    <3>1. requests[x.stop].by = t
      BY <2>1 DEF Pending
    <3>2. answered + 1..Len(requests) \subseteq 1..Len(requests)
      BY <1>0 DEF Types
    <3> QED BY <3>1, <3>2, <2>1
  <2>8. \A u \in Threads : Pending(u)' = Pending(u)
    BY <2>1, <2>7, <1>1 DEF Pending
  <2>9. \A u \in Threads : \A s \in Pending(u) : requests'[s].item = requests[s].item
    BY <2>7 DEF Pending
  <2>10. ASSUME ~mixed PROVE AnswersMatch' /\ ResultsTrue' /\ EntriesTrue'
    <3>1. EntriesTrue /\ MatchOf(t)
      BY <1>2, <2>10 DEF AnswersInv, AnswersMatch, MatchOf
    <3>2. EntriesTrue'
      BY <3>1, <2>1 DEF EntriesTrue
    <3>3. ResultsOf(t)' /\ Asked(t)' = Asked(t)
      BY <1>2, <2>2, <2>3, <2>5, <2>10, SameResults
    <3>4. MatchOf(t)'
      BY <3>1, <3>3, <2>2, <2>3, <2>8, <2>9, MatchKept
    <3> QED BY <3>2, <3>3, <3>4, <2>3, <2>8, <2>9, <2>10, OneSteps
  <2> QED BY <2>4, <2>6, <2>10, <1>1 DEF AnswersInv
<1> QED BY <1>3, <1>4


\* The first answer that is still to be read is that to the first item which a
\* call has asked for and not been answered.
LEMMA FirstAsked ==
    ASSUME AtomConstants, DistinctNames, AInv, mutex = None, NEW p \in Threads,
           NEW s, s = answered + 1, s \in Pending(p), MatchOf(p), ResultsOf(p)
    PROVE  \E f \in [Asked(p) -> Pending(p)], k \in Asked(p) :
              /\ Matches(p, f) /\ f[k] = s /\ requests[s].item = local[p].items[k]
              /\ requests[s].awaited => k = local[p].missed /\ Asked(p) = {k}
              /\ ~requests[s].awaited => p \in Takers(s) /\ First(p) = k
<1> DEFINE x == local[p]
<1>1. PICK f \in [Asked(p) -> Pending(p)] : Matches(p, f)
  BY DEF MatchOf
<1>2. PICK k \in Asked(p) : f[k] = s
  BY <1>1 DEF Matches
<1>3. requests[s].item = x.items[k]
  BY <1>1, <1>2 DEF Matches
<1>4. InCall(p) /\ PendingInCall /\ LockHeld /\ HandlersListed /\ Types
  BY DEF AInv, PendingInCall
<1>5. /\ Running(x) /\ x.i \in Nat /\ Asked(p) \subseteq DOMAIN x.result
      /\ DOMAIN x.result = 1..Len(x.items) /\ Len(x.items) \in Nat
      /\ \A j \in Asked(p) : /\ x.missed # None /\ j <= x.missed
                             /\ x.missed \in Nat /\ j < x.i
  BY <1>4, AskedFacts
<1>6. /\ x.missed # None /\ s \in x.start..x.stop /\ x.start \in Nat /\ x.stop \in Nat /\ s \in Nat
      /\ requests[s].awaited <=> x.at = "WaitForReply" /\ s = x.stop
      /\ x.at \in {"Items", "Request", "WaitForReply"} => x.stop \in Pending(p)
  <2>1. /\ x.missed # None /\ s \in x.start..x.stop /\ x.stop \in 1..Len(requests)
        /\ requests[s].awaited <=> x.at = "WaitForReply" /\ s = x.stop
        /\ x.at \in {"Items", "Request", "WaitForReply"} => x.stop \in Pending(p)
    BY <1>4 DEF PendingInCall
  <2>2. x.start \in Nat /\ answered \in Nat /\ Len(requests) \in Nat
    BY <1>4, <1>5 DEF Running, Thread, Types
  <2> QED BY <2>1, <2>2
<1>7. \A z \in Pending(p) : z \in Nat /\ s <= z
  BY <1>4 DEF Pending, Types
<1>8. \A j \in Asked(p) : k <= j
  <2>1. SUFFICES ASSUME NEW j \in Asked(p), j < k PROVE FALSE
    BY <1>5
  <2>2. f[j] < f[k] /\ f[j] \in Pending(p)
    BY <1>1, <2>1 DEF Matches
  <2>3. f[j] \in Nat /\ s <= f[j] /\ f[j] < s /\ s \in Nat
    BY <2>2, <1>2, <1>6, <1>7
  <2> HIDE DEF x
  <2> QED BY <2>3
<1>9. ASSUME requests[s].awaited PROVE k = x.missed /\ Asked(p) = {k}
  <2>1. x.stop = s /\ x.missed \in Asked(p) /\ f[x.missed] = s
    BY <1>1, <1>6, <1>9 DEF Matches
  <2>2. \A z \in Pending(p) : z = s
    <3>1. \A z \in Pending(p) : z \in x.start..x.stop
      BY <1>4 DEF PendingInCall
    <3> QED BY <3>1, <2>1, <1>6, <1>7
  <2>3. \A j \in Asked(p) : f[j] = s
    BY <2>2
  <2>4. ASSUME NEW j \in Asked(p) PROVE j = k
    <3>1. ~(f[k] < f[j]) /\ j \in Nat /\ k \in Nat /\ k <= j
      BY <2>3, <1>5, <1>6, <1>8
    <3> QED BY <3>1, <1>1 DEF Matches
  <2> QED BY <2>1, <2>4
<1>10. ASSUME ~requests[s].awaited PROVE p \in Takers(s) /\ First(p) = k
  <2>1. x.at \in {"Flushing", "WaitForReply"}
    BY <1>4, Apart DEF LockHeld, InCall, Calling, Places
  <2>2. k \in 1..(Len(x.items) - 1)
    <3>1. SUFFICES ASSUME k = Len(x.items) PROVE FALSE
      BY <1>5
    <3>2. x.at = "WaitForReply"
      <4>1. x.i > Len(x.items)
        BY <3>1, <1>5
      <4>2. x.at = "Flushing" => x.i <= Len(x.items)
        BY <1>5 DEF Running
      <4> QED BY <4>1, <4>2, <2>1, <1>5
    <3>3. x.i = Len(x.items) + 1 /\ x.missed \in 1..x.i - 1
      BY <3>2, <1>5, <1>6 DEF Running
    <3>4. k = x.missed
      BY <3>1, <3>3, <1>5
    <3>5. f[k] = x.stop
      BY <3>2, <3>4, <1>1, <1>6 DEF Matches
    <3>6. x.at = "WaitForReply" /\ s = x.stop
      BY <3>2, <3>5, <1>2
    <3> HIDE DEF x
    <3> QED BY <3>6, <1>6, <1>10, Zenon
  <2>3. x.call \in Plural
    <3> DEFINE n == Len(x.items)
    <3>0. n \in Nat /\ k \in 1..(n - 1)
      BY <2>2, <1>5
    <3>1. n # 1
      <4> HIDE DEF n
      <4> QED BY <3>0
    <3> QED BY <3>1, <1>5 DEF Running
  <2>4. k \in Unanswered(p)
    BY <2>2 DEF Unanswered, Asked, IsWaiting, Marks
  <2>5. p \in Takers(s)
    <3>1. Installed(p)
      BY <2>3, <1>4 DEF HandlersListed
    <3>2. InRange(p, s)
      BY <1>6 DEF InRange
    <3> QED BY <3>1, <3>2, <2>4 DEF Takers
  <2>6. First(p) \in Unanswered(p) /\ First(p) <= k /\ First(p) \in DOMAIN x.result
    BY <2>4, <2>5, <1>6, TakerFacts
  <2>7. x.result[First(p)] \in Marks \/ x.result[First(p)] = Unset
    BY <2>6 DEF Unanswered, IsWaiting, Marks
  <2>8. CASE x.result[First(p)] \in Marks
    <3>1. First(p) \in Asked(p)
      BY <2>6, <2>8 DEF Asked
    <3> QED BY <3>1, <2>5, <2>6, <1>5, <1>8
  <2>9. CASE x.result[First(p)] = Unset
    <3>1. ItemTrue(x, First(p)) /\ x.items[First(p)] \in Names
      BY <2>6, <1>4, <1>5 DEF ResultsOf, Running, Thread
    <3>2. First(p) >= x.i
      BY <3>1, <2>9, Apart DEF ItemTrue
    <3> QED BY <3>2, <2>6, <1>5
  <2> QED BY <2>5, <2>7, <2>8, <2>9
<1> QED BY <1>1, <1>2, <1>3, <1>9, <1>10

\* The item is answered.
LEMMA MatchTaken ==
    ASSUME NEW t \in Threads, NEW f \in [Asked(t) -> Pending(t)], Matches(t, f),
           NEW k \in Asked(t), Asked(t) \subseteq Nat, Pending(t) \subseteq Nat,
           Asked(t)' = Asked(t) \ {k}, Pending(t)' = Pending(t) \ {f[k]},
           local'[t].items = local[t].items, local'[t].stop = local[t].stop,
           local'[t].missed = local[t].missed, UNCHANGED requests
    PROVE  MatchOf(t)'
<1>1. \A j \in Asked(t) : j # k => f[j] # f[k]
  <2>1. SUFFICES ASSUME NEW j \in Asked(t), j # k PROVE f[j] < f[k] \/ f[k] < f[j]
    <3>1. \A j \in Asked(t) : f[j] \in Nat
      OBVIOUS
    <3> QED BY <3>1
  <2>2. j < k \/ k < j
    BY <2>1
  <2> QED BY <2>2 DEF Matches
<1>2. PICK g \in [Asked(t)' -> Pending(t)'] : \A j \in Asked(t) : j # k => g[j] = f[j]
  <2> DEFINE h == [j \in Asked(t) \ {k} |-> f[j]]
  <2>1. h \in [Asked(t)' -> Pending(t)'] /\ \A j \in Asked(t) : j # k => h[j] = f[j]
    BY <1>1
  <2> HIDE DEF h
  <2> QED BY <2>1
<1>3. \A s \in Pending(t)' : \E j \in Asked(t)' : g[j] = s
  <2>1. \A s \in Pending(t) : \E j \in Asked(t) : f[j] = s
    BY DEF Matches
  <2> QED BY <2>1, <1>2
<1>4. \A i, j \in Asked(t)' : i < j => g[i] < g[j]
  BY <1>2 DEF Matches
<1>5. \A j \in Asked(t)' : requests'[g[j]].item = local'[t].items[j]
  BY <1>2 DEF Matches
<1>6. local'[t].stop \in Pending(t)' =>
          local'[t].missed \in Asked(t)' /\ g[local'[t].missed] = local'[t].stop
  BY <1>2 DEF Matches
<1>7. Matches(t, g)'
  BY <1>2, <1>3, <1>4, <1>5, <1>6 DEF Matches
<1> QED BY <1>2, <1>7 DEF MatchOf


\* What the server answers to a request for item k of a call.
LEMMA RightAnswer ==
    ASSUME AtomConstants, DistinctNames, AnswersInv, NEW p \in Threads, InCall(p),
           NEW s, requests[s] \in Req, NEW k \in DOMAIN local[p].items,
           requests[s].item = local[p].items[k], requests[s].only = local[p].only,
           requests[s].interns <=> local[p].call \in InternCalls,
           NEW answer \in Answers(requests[s])
    PROVE  /\ answer \in Names \cup {None, Failed}
           /\ answer # Failed => answer = local[p].items[k] \/ (answer = None /\ local[p].only)
           /\ answer = Failed => local[p].call # "GetAtomNames"
<1> DEFINE r == requests[s]
<1>1. r.item \in Names /\ r.interns \in BOOLEAN /\ r.only \in BOOLEAN
  BY DEF Req
<1>2. Failed \notin Names /\ Failed # None
  BY Apart
<1>3. CASE r.interns
  <2>1. answer \in {IF r.item \in NewlyKnown(r) THEN r.item ELSE None} \cup {Failed}
    BY <1>3 DEF Answers
  <2>2. ~r.only => r.item \in NewlyKnown(r)
    BY <1>3 DEF NewlyKnown
  <2>3. local[p].call # "GetAtomNames"
    BY <1>3 DEF InternCalls
  <2> QED BY <2>1, <2>2, <2>3, <1>1
<1>4. CASE ~r.interns
  <2>1. answer = IF r.item \in known THEN r.item ELSE Failed
    BY <1>4 DEF Answers
  <2>2. local[p].call = "GetAtomNames" => r.item \in known
    BY DEF AnswersInv, AtomsKnown, AInv, Types
  <2> QED BY <2>1, <2>2, <1>1, <1>2
<1> QED BY <1>1, <1>3, <1>4

\* A call that has a right result for item k now.
LEMMA ItemAnswered ==
    ASSUME AtomConstants, DistinctNames, NEW p \in Threads, InCall(p), ResultsOf(p),
           Running(local[p]), NEW k \in Asked(p), k < local[p].i,
           local'[p].at = local[p].at, local'[p].items = local[p].items,
           local'[p].i = local[p].i, local'[p].only = local[p].only,
           ~local[p].status => ~local'[p].status,
           DOMAIN local'[p].result = DOMAIN local[p].result,
           \A j \in DOMAIN local[p].result : j # k => local'[p].result[j] = local[p].result[j],
           \/ local'[p].result[k] = local[p].items[k]
           \/ local'[p].result[k] = None /\ (local'[p].only \/ ~local'[p].status)
    PROVE  InCall(p)' /\ ResultsOf(p)' /\ Asked(p)' = Asked(p) \ {k}
<1>1. InCall(p)'
  BY DEF InCall
<1>2. k \in DOMAIN local[p].result /\ local[p].items[k] \in Names
  <2>1. k \in DOMAIN local[p].result
    BY DEF Asked
  <2> QED BY <2>1 DEF Running, Thread
<1>3. local'[p].result[k] \notin Marks
  BY <1>2, Apart
<1>4. Asked(p)' = Asked(p) \ {k}
  BY <1>2, <1>3 DEF Asked
<1>5. ASSUME NEW j \in DOMAIN local[p].result PROVE ItemTrue(local'[p], j)
  <2>1. CASE j = k
    BY <2>1 DEF ItemTrue
  <2>2. CASE j # k
    <3>1. ItemTrue(local[p], j)
      BY DEF ResultsOf
    <3> QED BY <3>1, <2>2 DEF ItemTrue
  <2> QED BY <2>1, <2>2
<1> QED BY <1>1, <1>4, <1>5 DEF ResultsOf


\* The answer for which a call waits ends it with a right result for each item.
LEMMA FinishAnswers ==
    ASSUME AtomConstants, DistinctNames, AnswersInv, ~mixed, mutex = None,
           NEW p \in Threads, NEW s, s = answered + 1, s \in Pending(p), requests[s] \in Req,
           requests[s].awaited, NEW answer \in Answers(requests[s]), Finish(p, s, answer)
    PROVE  ~InCall(p)' /\ ResultsOf(p)' /\ EntriesTrue'
<1> DEFINE x == local[p]
           y == local'[p]
           k == x.missed
<1>1. AInv /\ InCall(p) /\ MatchOf(p) /\ ResultsOf(p) /\ EntriesTrue /\ Running(x)
  BY DEF AnswersInv, AInv, PendingInCall, AnswersMatch, MatchOf, ResultsTrue, ResultsOf, LockHeld
<1>2. /\ x.at = "WaitForReply" /\ requests[s].only = x.only /\ s \in Nat
      /\ requests[s].interns <=> x.call \in InternCalls
  <2>1. s \in Nat
    BY <1>1 DEF AInv, Types
  <2> QED BY <2>1, <1>1 DEF AInv, PendingInCall
<1>3. k \in Asked(p) /\ Asked(p) = {k} /\ requests[s].item = x.items[k]
  BY <1>1, FirstAsked
<1>4. k \in DOMAIN x.items /\ DOMAIN x.items = DOMAIN x.result /\ k \in DOMAIN x.result
  <2>1. DOMAIN x.items = DOMAIN x.result
    BY <1>1 DEF Running, Thread
  <2> QED BY <2>1, <1>3 DEF Asked
<1>5. /\ answer \in Names \cup {None, Failed}
      /\ answer # Failed => answer = x.items[k] \/ (answer = None /\ x.only)
      /\ answer = Failed => x.call # "GetAtomNames"
  BY <1>1, <1>2, <1>3, <1>4, RightAnswer
<1>6. /\ y.at = "Idle" /\ Ended(x, y)
      /\ answer # Failed =>
            /\ y.status = x.status /\ y.result[k] = answer
            /\ \A j \in DOMAIN x.result : j # k => y.result[j] = x.result[j]
      /\ answer = Failed =>
            /\ x.call = "InternAtom" => y.result[1] = Failed /\ DOMAIN x.result = {1}
            /\ x.call = "InternAtoms" =>
                  /\ y.result[k] = None /\ ~y.status
                  /\ \A j \in DOMAIN x.result : j # k => y.result[j] = x.result[j]
            /\ x.call = "GetAtomName" => y.result = x.result
      /\ \A z \in Slots :
            \/ table'[z] = table[z]
            \/ /\ answer \notin {None, Failed}
               /\ answer = x.items[k] => table'[z].name = table'[z].atom
  BY <1>1, <1>2, <1>5, FinishFacts
<1>7. ~InCall(p)'
  BY <1>6 DEF InCall, Calling
<1>8. EntriesTrue'
  <2>1. ASSUME NEW z \in Slots PROVE table'[z] \in {None, RESERVED} \/ table'[z].name = table'[z].atom
    BY <1>1, <1>5, <1>6 DEF EntriesTrue
  <2> QED BY <2>1 DEF EntriesTrue
<1>9. \A j \in DOMAIN x.result : j # k =>
          x.result[j] = x.items[j] \/ (x.result[j] = None /\ (x.only \/ ~x.status))
  <2>1. SUFFICES ASSUME NEW j \in DOMAIN x.result, j # k
                 PROVE  x.result[j] = x.items[j] \/ (x.result[j] = None /\ (x.only \/ ~x.status))
    OBVIOUS
  <2>2. ItemTrue(x, j) /\ x.result[j] \notin Marks
    BY <2>1, <1>1, <1>3 DEF ResultsOf, Asked
  <2>3. ~(j >= x.i)
    <3>1. x.i = Len(x.items) + 1 /\ j \in 1..Len(x.items) /\ Len(x.items) \in Nat
      BY <1>1, <1>2 DEF Running, Thread
    <3> HIDE DEF x
    <3> QED BY <3>1
  <2> QED BY <2>2, <2>3 DEF ItemTrue
<1>10. y.items = x.items /\ y.only = x.only /\ y.call = x.call /\ DOMAIN y.result = DOMAIN x.result
  BY <1>6 DEF Ended
<1> HIDE DEF x, y, k
<1>11. ASSUME NEW j \in DOMAIN y.result PROVE ReturnTrue(y, j)
  <2>1. CASE answer # Failed
    BY <2>1, <1>5, <1>6, <1>9, <1>10 DEF ReturnTrue
  <2>2. CASE answer = Failed /\ x.call = "InternAtom"
    BY <2>2, <1>6, <1>10 DEF ReturnTrue
  <2>3. CASE answer = Failed /\ x.call = "InternAtoms"
    BY <2>3, <1>6, <1>9, <1>10 DEF ReturnTrue
  <2>4. CASE answer = Failed /\ x.call = "GetAtomName"
    <3>1. CASE j = k
      <4>1. x.result[k] \in Marks
        BY <1>3 DEF Asked, x
      <4>2. x.result[k] = Unnamed
        BY <4>1, <2>4, <1>1, <1>4 DEF Running, InternCalls
      <4> QED BY <4>2, <3>1, <2>4, <1>6, <1>10 DEF ReturnTrue
    <3>2. CASE j # k
      <4>1. x.call \notin Plural /\ Len(x.items) = 1 /\ DOMAIN x.result = {1}
        BY <2>4, <1>1 DEF Running, Plural, Thread
      <4> QED BY <4>1, <3>2, <1>4, <1>10
    <3> QED BY <3>1, <3>2
  <2>5. x.call \in Calls
    BY <1>1 DEF Running, Thread
  <2> QED BY <2>1, <2>2, <2>3, <2>4, <2>5, <1>5 DEF Calls, InternCalls
<1>12. ResultsOf(p)'
  BY <1>7, <1>11 DEF ResultsOf, y
<1> QED BY <1>7, <1>8, <1>12

\* XInternAtoms' handler makes the item None.
LEMMA ErrorTaken ==
    ASSUME AtomConstants, DistinctNames, AInv, mutex = None, NEW s \in Nat, NEW t \in Takers(s),
           local[t].call = "InternAtoms"
    PROVE  /\ Follows(local[t], AfterError(s)[t]) /\ AfterError(s)[t].status = FALSE
           /\ AfterError(s)[t].result[First(t)] = None
           /\ \A j \in DOMAIN local[t].result :
                 j # First(t) => AfterError(s)[t].result[j] = local[t].result[j]
<1>1. t \in Threads /\ First(t) \in DOMAIN local[t].result
  BY TakerFacts
<1>2. /\ Follows(local[t], AfterError(s)[t]) /\ AfterError(s)[t].status = FALSE
      /\ \A k \in DOMAIN local[t].result :
            \/ AfterError(s)[t].result[k] = local[t].result[k]
                  /\ ~(local[t].call = "InternAtoms" /\ k = First(t))
            \/ /\ local[t].call = "InternAtoms" /\ k = First(t)
               /\ AfterError(s)[t].result[k] = None
  BY <1>1, ErrorShown
<1> QED BY <1>1, <1>2

\* An answer for which no call waits is taken for the item it is the answer to.
LEMMA DispatchAnswers ==
    ASSUME AtomConstants, DistinctNames, AnswersInv, ~mixed, mutex = None,
           NEW p \in Threads, NEW s, s = answered + 1, s \in Pending(p), requests[s] \in Req,
           ~requests[s].awaited, NEW answer \in Answers(requests[s]), Dispatch(s, answer),
           Takers(s) \subseteq {p}, Pending(p)' = Pending(p) \ {s}, UNCHANGED requests
    PROVE  InCall(p)' /\ ResultsOf(p)' /\ MatchOf(p)' /\ EntriesTrue'
<1> DEFINE x == local[p]
           y == local'[p]
<1>1. AInv /\ InCall(p) /\ MatchOf(p) /\ ResultsOf(p) /\ EntriesTrue /\ Running(x)
  BY DEF AnswersInv, AInv, PendingInCall, AnswersMatch, MatchOf, ResultsTrue, ResultsOf, LockHeld
<1>2. /\ requests[s].only = x.only /\ s \in Nat
      /\ requests[s].interns <=> x.call \in InternCalls
  <2>1. s \in Nat
    BY <1>1 DEF AInv, Types
  <2> QED BY <2>1, <1>1 DEF AInv, PendingInCall
<1>3. PICK f \in [Asked(p) -> Pending(p)], k \in Asked(p) :
          /\ Matches(p, f) /\ f[k] = s /\ requests[s].item = x.items[k]
          /\ p \in Takers(s) /\ First(p) = k
  BY <1>1, FirstAsked
<1>4. /\ k \in DOMAIN x.items /\ DOMAIN x.items = DOMAIN x.result /\ k \in DOMAIN x.result
      /\ k < x.i
  <2>1. DOMAIN x.items = DOMAIN x.result
    BY <1>1 DEF Running, Thread
  <2>2. k < x.i
    BY <1>1, AskedFacts
  <2> QED BY <2>1, <2>2 DEF Asked
<1>5. /\ answer \in Names \cup {None, Failed}
      /\ answer # Failed => answer = x.items[k] \/ (answer = None /\ x.only)
      /\ answer = Failed => x.call # "GetAtomNames"
  <2>1. requests[s].item = x.items[k] /\ k \in DOMAIN x.items
    BY <1>3, <1>4
  <2> QED BY <2>1, <1>1, <1>2, RightAnswer
<1>6. x.call \in Plural
  BY <1>1, <1>2, <1>3, TakerFacts
<1>7. /\ y.at = x.at /\ y.items = x.items /\ y.i = x.i /\ y.only = x.only
      /\ y.stop = x.stop /\ y.missed = x.missed
      /\ ~x.status => ~y.status
      /\ DOMAIN y.result = DOMAIN x.result
      /\ \A j \in DOMAIN x.result : j # k => y.result[j] = x.result[j]
      /\ y.result[k] = x.items[k] \/ (y.result[k] = None /\ (y.only \/ ~y.status))
  <2>1. CASE answer = Failed
    <3>1. local' = AfterError(s)
      BY <2>1, <1>1, <1>2, <1>5, DispatchFacts
    <3>2. x.call = "InternAtoms"
      BY <2>1, <1>5, <1>6 DEF Plural
    <3>3. /\ Follows(x, y) /\ y.status = FALSE /\ y.result[k] = None
          /\ \A j \in DOMAIN x.result : j # k => y.result[j] = x.result[j]
      <4>1. y = AfterError(s)[p] /\ p \in Takers(s) /\ First(p) = k
        BY <3>1, <1>3
      <4>2. /\ Follows(x, y) /\ y.status = FALSE /\ y.result[First(p)] = None
            /\ \A j \in DOMAIN x.result : j # First(p) => y.result[j] = x.result[j]
        <5> HIDE DEF x, y
        <5>1. AInv /\ s \in Nat
          BY <1>1, <1>2
        <5>2. p \in Takers(s) /\ local[p].call = "InternAtoms"
          BY <4>1, <3>2 DEF x
        <5>3. /\ Follows(local[p], AfterError(s)[p]) /\ AfterError(s)[p].status = FALSE
              /\ AfterError(s)[p].result[First(p)] = None
              /\ \A j \in DOMAIN local[p].result :
                    j # First(p) => AfterError(s)[p].result[j] = local[p].result[j]
          BY <5>1, <5>2, ErrorTaken
        <5> QED BY <5>3, <4>1 DEF x
      <4> QED BY <4>1, <4>2
    <3> QED BY <3>3, <1>4 DEF Follows
  <2>2. CASE answer # Failed
    <3>1. Changed(x, y, k, answer)
      BY <2>2, <1>1, <1>2, <1>3, <1>5, DispatchFacts
    <3> QED BY <3>1, <2>2, <1>5 DEF Changed
  <2> QED BY <2>1, <2>2
<1>8. InCall(p)' /\ ResultsOf(p)' /\ Asked(p)' = Asked(p) \ {k}
  BY <1>1, <1>4, <1>7, ItemAnswered
<1>9. MatchOf(p)'
  <2>1. Asked(p) \subseteq Nat /\ Pending(p) \subseteq Nat
    <3>1. answered \in Nat
      BY <1>1 DEF AInv, Types
    <3>2. Pending(p) \subseteq Nat
      BY <3>1 DEF Pending
    <3> QED BY <3>2, <1>1, AskedFacts
  <2> QED BY <2>1, <1>3, <1>7, <1>8, MatchTaken
<1>10. EntriesTrue'
  <2>1. ASSUME NEW z \in Slots
        PROVE  table'[z] = table[z] \/ table'[z].name = table'[z].atom
    <3>1. CASE answer = Failed
      BY <3>1, <1>1, <1>2, <1>5, DispatchFacts
    <3>2. CASE answer # Failed
      BY <3>2, <1>1, <1>2, <1>3, <1>5, DispatchFacts
    <3> QED BY <3>1, <3>2
  <2> QED BY <2>1, <1>1 DEF EntriesTrue
<1> QED BY <1>8, <1>9, <1>10


\* The answer that is read goes to the item that was asked for, if no other handler
\* was in reach.
LEMMA ReadAnswersInv ==
    ASSUME AtomConstants, DistinctNames, AnswersInv, Read
    PROVE  AnswersInv'
<1>0. AInv /\ Types /\ PendingInCall /\ LockHeld
  BY DEF AnswersInv, AInv
<1>1. PICK s \in Nat, p \in Threads :
          /\ s = answered + 1 /\ p = requests[s].by
          /\ mutex = None /\ s \in 1..Len(requests) /\ requests[s] \in Req
          /\ answered' = s /\ UNCHANGED <<requests, script>>
          /\ mixed' <=> mixed \/ Takers(s) \ {p} # {}
          /\ answered \in Nat /\ Len(requests) \in Nat
  <2> DEFINE s == answered + 1
             p == requests[s].by
  <2>1. /\ mutex = None /\ answered < Len(requests) /\ answered' = s
        /\ UNCHANGED <<requests, script>>
        /\ mixed' = (mixed \/ Takers(s) \ {p} # {})
    BY DEF Read
  <2>2. answered \in Nat /\ Len(requests) \in Nat
    BY <1>0 DEF Types
  <2>3. s \in 1..Len(requests) /\ s \in Nat
    BY <2>1, <2>2
  <2>4. requests[s] \in Req
    BY <2>3, <1>0 DEF Types
  <2>5. p \in Threads
    BY <2>4 DEF Req
  <2> QED BY <2>1, <2>2, <2>3, <2>4, <2>5
<1>2. PICK answer \in Answers(requests[s]) :
          \/ requests[s].awaited /\ Finish(p, s, answer)
          \/ ~requests[s].awaited /\ Dispatch(s, answer)
  BY <1>1 DEF Read
<1>3. answer \in Names \cup {None, Failed}
  BY <1>1, <1>2 DEF Answers, Req
<1>4. s \in Pending(p) /\ \A u \in Threads : Pending(u)' = Pending(u) \ {s}
  <2>1. s \in answered + 1..Len(requests)
    BY <1>1
  <2>2. answered' + 1..Len(requests') = (answered + 1..Len(requests)) \ {s}
    BY <1>1
  <2> QED BY <2>1, <2>2, <1>1 DEF Pending
<1>5. /\ InCall(p) /\ Running(local[p])
      /\ requests[s].interns <=> local[p].call \in InternCalls
      /\ requests[s].awaited => local[p].at = "WaitForReply"
  <2>1. InCall(p)
    BY <1>0, <1>1, <1>4 DEF PendingInCall
  <2> QED BY <2>1, <1>0, <1>1, <1>4 DEF PendingInCall, LockHeld
<1>6. \A u \in Threads :
          /\ InCall(u)' => /\ InCall(u) /\ local'[u].call = local[u].call
                           /\ local'[u].items = local[u].items
          /\ u # p /\ u \notin Takers(s) => local'[u] = local[u]
  <2>1. CASE requests[s].awaited
    <3>1. /\ local'[p].at = "Idle"
          /\ \A u \in Threads \ {p} :
                local'[u] = local[u] \/ (u \in Takers(s) /\ Follows(local[u], local'[u]))
      BY <2>1, <1>0, <1>1, <1>2, <1>3, <1>5, FinishFacts
    <3> QED BY <3>1 DEF InCall, Calling, Follows
  <2>2. CASE ~requests[s].awaited
    <3>1. \A u \in Threads :
              local'[u] = local[u] \/ (u \in Takers(s) /\ Follows(local[u], local'[u]))
      BY <2>2, <1>0, <1>1, <1>2, <1>3, DispatchFacts
    <3> QED BY <3>1 DEF InCall, Follows
  <2> QED BY <2>1, <2>2
<1>7. AtomsKnown'
  <2>1. \A u \in Threads : script'[u] = script[u]
    BY <1>1
  <2> QED BY <2>1, <1>1, <1>6, AtomsStayKnown
<1>8. ASSUME ~mixed' PROVE AnswersMatch' /\ ResultsTrue' /\ EntriesTrue'
  <2>1. ~mixed /\ Takers(s) \subseteq {p}
    BY <1>1, <1>8
  <2>2. ASSUME NEW u \in Threads, u # p
        PROVE  /\ local'[u] = local[u] /\ Pending(u)' = Pending(u)
               /\ \A z \in Pending(u) : requests'[z].item = requests[z].item
    <3>1. s \notin Pending(u)
      BY <2>2, <1>1 DEF Pending
    <3>2. local'[u] = local[u]
      BY <2>1, <2>2, <1>6
    <3>3. Pending(u)' = Pending(u)
      BY <3>1, <1>4
    <3> QED BY <3>2, <3>3, <1>1
  <2>3. EntriesTrue' /\ ResultsOf(p)' /\ (InCall(p)' => MatchOf(p)')
    <3>1. CASE requests[s].awaited
      BY <3>1, <2>1, <1>1, <1>2, <1>4, FinishAnswers
    <3>2. CASE ~requests[s].awaited
      <4>1. Pending(p)' = Pending(p) \ {s}
        BY <1>1, <1>4
      <4> QED BY <4>1, <3>2, <2>1, <1>1, <1>2, <1>4, DispatchAnswers
    <3> QED BY <3>1, <3>2
  <2> QED BY <2>1, <2>2, <2>3, <1>1, OneSteps
<1>9. AInv'
  BY <1>0, ReadAInv
<1> QED BY <1>7, <1>8, <1>9 DEF AnswersInv

\* Every step keeps AnswersInv.
LEMMA StepAnswersInv ==
    ASSUME AtomConstants, DistinctNames, AnswersInv, [Next]_vars
    PROVE  AnswersInv'
<1>1. CASE UNCHANGED vars
  <2>1. UNCHANGED <<table, async_handlers, mutex, requests, answered, known, errors, script,
                    local, mixed, early, fatal>>
    BY <1>1 DEF vars, serverVars, threadVars
  <2>2. AInv'
    BY <1>1, StepAInv DEF AnswersInv
  <2>3. \A t \in Threads : /\ (InCall(t)' <=> InCall(t)) /\ Asked(t)' = Asked(t)
                           /\ Pending(t)' = Pending(t)
    BY <2>1 DEF InCall, Asked, Pending
  <2>4. AtomsKnown'
    BY <2>1, <2>3 DEF AnswersInv, AtomsKnown
  <2>5. ASSUME ~mixed' PROVE AnswersMatch' /\ ResultsTrue' /\ EntriesTrue'
    <3>1. AnswersMatch /\ ResultsTrue /\ EntriesTrue
      BY <2>1, <2>5 DEF AnswersInv
    <3>2. EntriesTrue'
      BY <3>1, <2>1 DEF EntriesTrue
    <3>3. ASSUME NEW t \in Threads PROVE ResultsOf(t)' /\ (InCall(t)' => MatchOf(t)')
      <4>1. ResultsOf(t) /\ (InCall(t) => MatchOf(t))
        BY <3>1 DEF AnswersMatch, ResultsTrue, ResultsOf, MatchOf
      <4> QED BY <4>1, <2>1, <2>3, Untouched
    <3> QED BY <3>2, <3>3 DEF AnswersMatch, ResultsTrue, ResultsOf, MatchOf
  <2> QED BY <2>2, <2>4, <2>5 DEF AnswersInv
<1>2. ASSUME NEW t \in Threads, Enter(t) PROVE AnswersInv'
  BY <1>2, EnterAnswersInv
<1>3. ASSUME NEW t \in Threads, LookUp(t) PROVE AnswersInv'
  BY <1>3, LookUpAnswersInv
<1>4. ASSUME NEW t \in Threads, Flush(t) \/ Relock(t) PROVE AnswersInv'
  BY <1>4, FlushAnswersInv
<1>5. ASSUME NEW t \in Threads, Request(t) PROVE AnswersInv'
  BY <1>5, RequestAnswersInv
<1>6. ASSUME NEW t \in Threads, AllLookedUp(t) PROVE AnswersInv'
  BY <1>6, AllLookedUpAnswersInv
<1>7. ASSUME Read PROVE AnswersInv'
  BY <1>7, ReadAnswersInv
<1> QED BY <1>1, <1>2, <1>3, <1>4, <1>5, <1>6, <1>7 DEF Next

\* Which request each item waits for, and what the results and the entries of
\* the cache are, in every state.
THEOREM AnswersAreKept ==
    ASSUME AtomConstants, DistinctNames, AtomsExist
    PROVE  Spec => []AnswersInv
<1>1. Init => AnswersInv
  BY InitAnswersInv
<1>2. AnswersInv /\ [Next]_vars => AnswersInv'
  BY StepAnswersInv
<1> QED BY <1>1, <1>2, PTL DEF Spec

\* An entry of the cache gives the atom that the server has for the name, unless
\* two calls of XInternAtoms or XGetAtomNames have been mixed by a flush.
THEOREM CacheIsTrue ==
    ASSUME AtomConstants, DistinctNames, AtomsExist
    PROVE  Spec => []CacheTrue
<1>1. ASSUME AnswersInv PROVE CacheTrue
  BY <1>1 DEF AnswersInv, EntriesTrue, CacheTrue, Reserved
<1> QED BY <1>1, AnswersAreKept, PTL

\* A call that reports success has the right answer for each of its items, and
\* no call returns a wrong atom or name.
THEOREM AnswersAreTrue ==
    ASSUME AtomConstants, DistinctNames, AtomsExist
    PROVE  Spec => []AnswersTrue
<1>1. ASSUME AnswersInv PROVE AnswersTrue
  <2>1. SUFFICES ASSUME ~mixed, NEW t \in Threads, At(t, "Idle"),
                        NEW k \in DOMAIN local[t].result
                 PROVE  LET result == local[t].result[k] IN
                        \/ result = local[t].items[k]
                        \/ result = None /\ (local[t].only \/ ~local[t].status)
                        \/ result = Unnamed /\ (~local[t].status \/ local[t].call = "GetAtomName")
                        \/ result = Failed /\ local[t].call = "InternAtom"
    BY DEF AnswersTrue
  <2>2. ~InCall(t)
    BY <2>1 DEF At, InCall, Calling
  <2>3. ReturnTrue(local[t], k)
    BY <1>1, <2>1, <2>2 DEF AnswersInv, ResultsTrue
  <2> QED BY <2>3 DEF ReturnTrue
<1> QED BY <1>1, AnswersAreKept, PTL
=============================================================================
