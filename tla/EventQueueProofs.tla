--------------------------- MODULE EventQueueProofs ---------------------------
(***************************************************************************)
(* Proofs about EventQueue, for every number of threads and of elements,   *)
(* all scripts and all items:                                              *)
(*   - TypeOK, and the queue and the free list stay two disjoint lists     *)
(*     without cycles that agree with qlen, tail, the serial numbers and   *)
(*     the places of the scans (QueueWellFormed);                          *)
(*   - with one thread that makes X...IfEvent calls the display lock       *)
(*     excludes (LockExcludes).                                            *)
(*                                                                         *)
(* A list is a sequence that the links follow (IsPath).  The lemmas up to  *)
(* DiscardStep say what the operations do to such sequences; those about   *)
(* moves say where each action takes its thread (Moved, Fits); the         *)
(* invariant QInv then needs one step for each of its parts.               *)
(***************************************************************************)
EXTENDS EventQueue, TLAPS, WellFoundedInduction, FiniteSetTheorems

(***************************************************************************)
(* Linked lists.                                                           *)
(***************************************************************************)
\* s is the list that begins with the element c.
IsPath(links, s, c) ==
    /\ s \in Seq(Elements)
    /\ c = IF s = <<>> THEN Nil ELSE s[1]
    /\ \A i, j \in 1..Len(s) : j = i + 1 => links[s[i]] = s[j]
    /\ \A i \in 1..Len(s) : i = Len(s) => links[s[i]] = Nil

\* q and f are two such lists, and every element up to n is in one of them once.
TwoLists(links, q, h, f, fr, n) ==
    /\ IsPath(links, q, h) /\ IsPath(links, f, fr)
    /\ IsInjective(q) /\ IsInjective(f)
    /\ Range(q) \cap Range(f) = {}
    /\ Range(q) \cup Range(f) = 1..n

\* A nonempty set of numbers has a least one.
LEMMA LeastNat ==
    ASSUME NEW S \in SUBSET Nat, S # {}
    PROVE  \E m \in S : \A k \in S : m <= k
<1>1. PICK m \in S : \A k \in S : <<k, m>> \notin OpToRel(<, Nat)
  BY WFMin, NatLessThanWellFounded
<1>2. ASSUME NEW k \in S PROVE m <= k
  <2>1. k \in Nat /\ m \in Nat OBVIOUS
  <2>2. CASE k < m
    BY <2>2, <2>1, <1>1 DEF OpToRel
  <2> QED BY <2>1, <2>2
<1> QED BY <1>2

\* The members of a path are elements.
LEMMA PathFacts ==
    ASSUME NEW links, NEW s, NEW c, IsPath(links, s, c)
    PROVE  /\ s \in Seq(Elements) /\ Len(s) \in Nat
           /\ \A i \in 1..Len(s) : s[i] \in Elements /\ s[i] \in Nat /\ s[i] # Nil
           /\ Range(s) = {s[i] : i \in 1..Len(s)}
<1>1. s \in Seq(Elements) /\ Len(s) \in Nat /\ DOMAIN s = 1..Len(s)
  BY DEF IsPath
<1>2. \A i \in 1..Len(s) : s[i] \in Elements
  BY <1>1
<1> QED BY <1>1, <1>2, BoundsAssumption DEF Elements, Nil, Range

\* An injective list is no longer than there are elements.
LEMMA ListIsShort ==
    ASSUME NEW s \in Seq(Elements), IsInjective(s)
    PROVE  Len(s) <= NumElements
<1>0. NumElements \in Nat /\ Len(s) \in Nat
  BY BoundsAssumption
<1>1. s \in Injection(1..Len(s), Elements)
  BY DEF Injection
<1>2. IsFiniteSet(1..Len(s)) /\ Cardinality(1..Len(s)) = Len(s)
  BY <1>0, FS_Interval
<1>3. IsFiniteSet(Elements) /\ Cardinality(Elements) = NumElements
  BY <1>0, FS_Interval DEF Elements
<1> QED BY <1>1, <1>2, <1>3, FS_Injection

\* Following the links finds the path.
LEMMA PathFollowed ==
    ASSUME NEW links, NEW s, NEW c, IsPath(links, s, c), Len(s) <= NumElements
    PROVE  Follow(links, c) = s
<1> DEFINE N == NumElements + 1
           Along(f) == f = [i \in 1..N |->
                              IF i = 1 THEN c
                              ELSE IF f[i - 1] = Nil THEN Nil ELSE links[f[i - 1]]]
           walk == [i \in 1..N |-> IF i <= Len(s) THEN s[i] ELSE Nil]
<1>0. N \in Nat /\ N >= 1 /\ Len(s) \in 0..(N - 1) /\ s \in Seq(Elements)
      /\ \A i \in 1..Len(s) : s[i] \in Elements /\ s[i] # Nil
  BY BoundsAssumption, PathFacts
<1>1. Along(walk)
  <2>1. ASSUME NEW i \in 1..N
        PROVE  walk[i] = IF i = 1 THEN c
                         ELSE IF walk[i - 1] = Nil THEN Nil ELSE links[walk[i - 1]]
    <3>1. CASE i = 1
      BY <3>1, <1>0 DEF IsPath
    <3>2. CASE i # 1 /\ i <= Len(s)
      <4>1. i - 1 \in 1..Len(s) /\ i \in 1..Len(s) /\ i = (i - 1) + 1
        BY <3>2, <1>0
      <4>2. links[s[i - 1]] = s[i]
        BY <4>1 DEF IsPath
      <4> QED BY <4>1, <4>2, <1>0
    <3>3. CASE i # 1 /\ i = Len(s) + 1
      <4>1. i - 1 \in 1..Len(s) /\ i - 1 = Len(s)
        BY <3>3, <1>0
      <4>2. links[s[i - 1]] = Nil
        BY <4>1 DEF IsPath
      <4> QED BY <4>1, <4>2, <1>0
    <3>4. CASE i # 1 /\ i > Len(s) + 1
      BY <3>4, <1>0
    <3> QED BY <3>1, <3>2, <3>3, <3>4, <1>0
  <2> QED BY <2>1
<1>2. ASSUME NEW f, Along(f) PROVE f = walk
  <2> DEFINE Bad == {i \in 1..N : f[i] # walk[i]}
  <2>1. CASE Bad # {}
    <3>0. Bad \in SUBSET Nat
      BY <1>0
    <3>1. PICK m \in Bad : \A k \in Bad : m <= k
      <4> HIDE DEF Bad
      <4> QED BY <2>1, <3>0, LeastNat
    <3>2. m # 1 /\ m \in 1..N
      BY <1>0, <1>1, <1>2
    <3>3. m - 1 \in 1..N /\ m - 1 \notin Bad
      BY <1>0, <3>1, <3>2
    <3>4. f[m - 1] = walk[m - 1]
      BY <3>3
    <3>5. /\ f[m] = IF f[m - 1] = Nil THEN Nil ELSE links[f[m - 1]]
          /\ walk[m] = IF walk[m - 1] = Nil THEN Nil ELSE links[walk[m - 1]]
      <4> HIDE DEF walk, N
      <4> QED BY <3>2, <1>0, <1>1, <1>2
    <3>6. f[m] = walk[m]
      <4> HIDE DEF walk, N, Along
      <4> QED BY <3>4, <3>5
    <3> QED BY <3>6, <3>1
  <2>2. CASE Bad = {}
    <3>1. \A i \in 1..N : f[i] = walk[i] BY <2>2
    <3>2. f = [i \in 1..N |-> f[i]] BY <1>2
    <3> HIDE DEF Bad
    <3> QED BY <3>1, <3>2
  <2> QED BY <2>1, <2>2
<1> DEFINE nth == CHOOSE f : Along(f)
<1>3. nth = walk
  BY <1>1, <1>2
<1>4. Follow(links, c) = SubSeq(nth, 1, Cardinality({i \in 1..N : nth[i] # Nil}))
  BY DEF Follow
<1>5. {i \in 1..N : walk[i] # Nil} = 1..Len(s)
  BY <1>0
<1>6. Cardinality(1..Len(s)) = Len(s)
  <2>1. Len(s) \in Nat
    BY <1>0
  <2>2. Cardinality(1..Len(s)) = IF 1 > Len(s) THEN 0 ELSE Len(s) - 1 + 1
    BY <2>1, FS_Interval
  <2> QED BY <2>1, <2>2
<1>7. SubSeq(walk, 1, Len(s)) = s
  BY <1>0
<1> QED BY <1>3, <1>4, <1>5, <1>6, <1>7

\* Following the links from the first element of a list without repetitions
\* finds that list.
LEMMA PathFound ==
    ASSUME NEW links, NEW s, NEW c, IsPath(links, s, c), IsInjective(s)
    PROVE  Follow(links, c) = s
BY PathFollowed, ListIsShort, PathFacts

(***************************************************************************)
(* What happens to lists.                                                  *)
(***************************************************************************)
\* Links elsewhere do not matter.
LEMMA PathKept ==
    ASSUME NEW links, NEW new, NEW s, NEW c, IsPath(links, s, c),
           \A i \in 1..Len(s) : new[s[i]] = links[s[i]]
    PROVE  IsPath(new, s, c)
BY DEF IsPath

\* The first element is taken off.
LEMMA PathTail ==
    ASSUME NEW links, NEW s, NEW c, IsPath(links, s, c), c # Nil
    PROVE  /\ s # <<>> /\ s[1] = c /\ c \in Elements
           /\ Tail(s) \in Seq(Elements) /\ Len(Tail(s)) = Len(s) - 1
           /\ \A i \in 1..(Len(s) - 1) : Tail(s)[i] = s[i + 1]
           /\ IsPath(links, Tail(s), links[c])
<1> DEFINE r == Tail(s)
<1>1. s # <<>> /\ s[1] = c /\ s \in Seq(Elements) /\ Len(s) \in Nat \ {0} /\ c \in Elements
  BY DEF IsPath
<1>2. r \in Seq(Elements) /\ Len(r) = Len(s) - 1 /\ \A i \in 1..(Len(s) - 1) : r[i] = s[i + 1]
  BY <1>1
<1> HIDE DEF r
<1>3. links[c] = IF r = <<>> THEN Nil ELSE r[1]
  <2>1. CASE Len(s) = 1
    <3>1. Len(r) = 0
      BY <2>1, <1>2
    <3>2. links[s[1]] = Nil
      BY <2>1, <1>1 DEF IsPath
    <3> QED BY <3>1, <3>2, <1>1, <1>2
  <2>2. CASE Len(s) > 1
    <3>1. links[s[1]] = s[1 + 1] /\ r[1] = s[1 + 1] /\ Len(r) # 0
      BY <2>2, <1>1, <1>2 DEF IsPath
    <3> QED BY <3>1, <1>1, <1>2
  <2>3. Len(s) = 1 \/ Len(s) > 1
    <3>1. ASSUME NEW n \in Nat \ {0} PROVE n = 1 \/ n > 1
      OBVIOUS
    <3> QED BY <3>1, <1>1
  <2> QED BY <2>1, <2>2, <2>3
<1>4. ASSUME NEW i \in 1..Len(r), NEW j \in 1..Len(r), j = i + 1 PROVE links[r[i]] = r[j]
  BY <1>1, <1>2, <1>4 DEF IsPath
<1>5. ASSUME NEW i \in 1..Len(r), i = Len(r) PROVE links[r[i]] = Nil
  <2>1. r[i] = s[i + 1] /\ i + 1 = Len(s) /\ i + 1 \in 1..Len(s)
    BY <1>1, <1>2, <1>5
  <2> QED BY <2>1 DEF IsPath
<1> QED BY <1>1, <1>2, <1>3, <1>4, <1>5 DEF IsPath, r

\* An element is put in front.
LEMMA PathCons ==
    ASSUME NEW links, NEW s, NEW c, IsPath(links, s, c), NEW x \in Elements, links[x] = c
    PROVE  /\ <<x>> \o s \in Seq(Elements) /\ Len(<<x>> \o s) = Len(s) + 1
           /\ \A i \in 1..(Len(s) + 1) : (<<x>> \o s)[i] = IF i = 1 THEN x ELSE s[i - 1]
           /\ IsPath(links, <<x>> \o s, x)
<1>1. s \in Seq(Elements) /\ Len(s) \in Nat
  BY DEF IsPath
<1>2. /\ <<x>> \o s \in Seq(Elements) /\ Len(<<x>> \o s) = Len(s) + 1
      /\ \A i \in 1..(Len(s) + 1) : (<<x>> \o s)[i] = IF i = 1 THEN x ELSE s[i - 1]
  BY <1>1
<1> DEFINE r == <<x>> \o s
<1> HIDE DEF r
<1>3. ASSUME NEW i \in 1..(Len(s) + 1), NEW j \in 1..(Len(s) + 1), j = i + 1
      PROVE  links[r[i]] = r[j]
  BY <1>1, <1>2, <1>3 DEF IsPath, r
<1>4. ASSUME NEW i \in 1..(Len(s) + 1), i = Len(s) + 1 PROVE links[r[i]] = Nil
  BY <1>1, <1>2, <1>4 DEF IsPath, r
<1> QED BY <1>1, <1>2, <1>3, <1>4 DEF IsPath, r

\* One list is hung to the end of another.
LEMMA PathConcat ==
    ASSUME NEW links, NEW new, NEW s, NEW c, NEW r, NEW d, IsPath(links, s, c), IsPath(links, r, d),
           s # <<>>,
           \A i \in 1..(Len(s) - 1) : new[s[i]] = links[s[i]],
           \A i \in 1..Len(r) : new[r[i]] = links[r[i]],
           new[s[Len(s)]] = d
    PROVE  /\ s \o r \in Seq(Elements) /\ Len(s \o r) = Len(s) + Len(r)
           /\ \A i \in 1..(Len(s) + Len(r)) :
                 (s \o r)[i] = IF i <= Len(s) THEN s[i] ELSE r[i - Len(s)]
           /\ IsPath(new, s \o r, c)
<1>1. s \in Seq(Elements) /\ Len(s) \in Nat \ {0} /\ r \in Seq(Elements) /\ Len(r) \in Nat
  BY DEF IsPath
<1>2. /\ s \o r \in Seq(Elements) /\ Len(s \o r) = Len(s) + Len(r)
      /\ \A i \in 1..(Len(s) + Len(r)) :
            (s \o r)[i] = IF i <= Len(s) THEN s[i] ELSE r[i - Len(s)]
  BY <1>1
<1> DEFINE q == s \o r
<1> HIDE DEF q
<1>3. ASSUME NEW i \in 1..(Len(s) + Len(r)), NEW j \in 1..(Len(s) + Len(r)), j = i + 1
      PROVE  new[q[i]] = q[j]
  <2>1. CASE i < Len(s)
    BY <2>1, <1>1, <1>2, <1>3 DEF IsPath, q
  <2>2. CASE i = Len(s)
    BY <2>2, <1>1, <1>2, <1>3 DEF IsPath, q
  <2>3. CASE i > Len(s)
    BY <2>3, <1>1, <1>2, <1>3 DEF IsPath, q
  <2> QED BY <2>1, <2>2, <2>3, <1>1
<1>4. ASSUME NEW i \in 1..(Len(s) + Len(r)), i = Len(s) + Len(r) PROVE new[q[i]] = Nil
  <2>1. CASE i = Len(s)
    BY <2>1, <1>1, <1>2, <1>4 DEF IsPath, q
  <2>2. CASE i > Len(s)
    BY <2>2, <1>1, <1>2, <1>4 DEF IsPath, q
  <2> QED BY <2>1, <2>2, <1>1, <1>4
<1>5. c = IF q = <<>> THEN Nil ELSE q[1]
  BY <1>1, <1>2 DEF IsPath, q
<1> QED BY <1>1, <1>2, <1>3, <1>4, <1>5 DEF IsPath, q

\* The members of two sequences that are put together.
LEMMA ConcatFacts ==
    ASSUME NEW S, NEW a \in Seq(S), NEW b \in Seq(S)
    PROVE  /\ a \o b \in Seq(S) /\ Len(a \o b) = Len(a) + Len(b)
           /\ \A i \in 1..(Len(a) + Len(b)) :
                 (a \o b)[i] = IF i <= Len(a) THEN a[i] ELSE b[i - Len(a)]
OBVIOUS

\* What RemoveAt returns.
LEMMA RemoveAtFacts ==
    ASSUME NEW S, NEW s \in Seq(S), NEW i \in 1..Len(s)
    PROVE  /\ RemoveAt(s, i) \in Seq(S) /\ Len(RemoveAt(s, i)) = Len(s) - 1
           /\ \A j \in 1..(Len(s) - 1) :
                 RemoveAt(s, i)[j] = IF j < i THEN s[j] ELSE s[j + 1]
<1> DEFINE a == SubSeq(s, 1, i - 1)
           b == SubSeq(s, i + 1, Len(s))
           r == a \o b
<1>0. Len(s) \in Nat /\ i \in 1..Len(s)
  OBVIOUS
<1>1. a \in Seq(S) /\ Len(a) = i - 1 /\ \A j \in 1..(i - 1) : a[j] = s[j]
  OBVIOUS
<1>2. b \in Seq(S) /\ Len(b) = Len(s) - i /\ \A j \in 1..(Len(s) - i) : b[j] = s[i + j]
  OBVIOUS
<1>3. RemoveAt(s, i) = r
  BY DEF RemoveAt
<1> HIDE DEF a, b
<1>4. /\ r \in Seq(S) /\ Len(r) = Len(a) + Len(b)
      /\ \A j \in 1..(Len(a) + Len(b)) : r[j] = IF j <= Len(a) THEN a[j] ELSE b[j - Len(a)]
  BY <1>1, <1>2, ConcatFacts
<1> HIDE DEF r
<1>5. ASSUME NEW j \in 1..(Len(s) - 1) PROVE r[j] = IF j < i THEN s[j] ELSE s[j + 1]
  <2>0. j \in 1..(Len(a) + Len(b)) /\ Len(a) = i - 1 /\ Len(b) = Len(s) - i
    <3> HIDE DEF r
    <3> QED BY <1>0, <1>1, <1>2
  <2>1. CASE j < i
    <3>1. j <= Len(a) /\ j \in 1..(i - 1)
      BY <2>0, <2>1, <1>0
    <3>2. r[j] = a[j]
      BY <3>1, <2>0, <1>4
    <3> QED BY <3>1, <3>2, <2>1, <1>1
  <2>2. CASE j >= i
    <3>0. ~(j <= Len(a))
      BY <2>0, <2>2, <1>0
    <3>1. r[j] = b[j - Len(a)] /\ j - Len(a) \in 1..(Len(s) - i) /\ i + (j - Len(a)) = j + 1
      BY <3>0, <2>0, <2>2, <1>0, <1>4
    <3>2. b[j - Len(a)] = s[i + (j - Len(a))]
      BY <3>1, <1>2
    <3>3. r[j] = s[j + 1] /\ ~(j < i)
      BY <3>1, <3>2, <2>2, <1>0
    <3> QED BY <3>3
  <2> QED BY <2>1, <2>2, <1>0
<1>6. r \in Seq(S) /\ Len(r) = Len(s) - 1
  BY <1>0, <1>1, <1>2, <1>4
<1> QED BY <1>3, <1>5, <1>6

\* An element is taken out.
LEMMA PathRemove ==
    ASSUME NEW links, NEW new, NEW s, NEW c, IsPath(links, s, c), IsInjective(s),
           NEW i \in 1..Len(s),
           \A j \in 1..Len(s) : j # i /\ j # i - 1 => new[s[j]] = links[s[j]],
           \A j \in 1..Len(s) : j = i - 1 => new[s[j]] = links[s[i]]
    PROVE  IsPath(new, RemoveAt(s, i), IF i = 1 THEN links[s[1]] ELSE c)
<1> DEFINE r == RemoveAt(s, i)
<1>1. s \in Seq(Elements) /\ Len(s) \in Nat \ {0}
  BY DEF IsPath
<1>2. /\ r \in Seq(Elements) /\ Len(r) = Len(s) - 1
      /\ \A j \in 1..(Len(s) - 1) : r[j] = IF j < i THEN s[j] ELSE s[j + 1]
  BY <1>1, RemoveAtFacts
<1> HIDE DEF r
<1>3. ASSUME NEW j \in 1..Len(r), NEW k \in 1..Len(r), k = j + 1 PROVE new[r[j]] = r[k]
  <2>1. CASE j < i - 1
    BY <2>1, <1>1, <1>2, <1>3 DEF IsPath
  <2>2. CASE j = i - 1
    <3>1. new[s[j]] = links[s[i]] /\ r[j] = s[j] /\ r[k] = s[k + 1]
      BY <2>2, <1>1, <1>2, <1>3
    <3>2. k = i /\ k + 1 \in 1..Len(s) /\ links[s[i]] = s[k + 1]
      BY <2>2, <1>1, <1>2, <1>3 DEF IsPath
    <3> QED BY <3>1, <3>2
  <2>3. CASE j >= i
    <3>1. r[j] = s[j + 1] /\ r[k] = s[k + 1] /\ j + 1 \in 1..Len(s) /\ k + 1 \in 1..Len(s)
      BY <2>3, <1>1, <1>2, <1>3
    <3>2. new[s[j + 1]] = links[s[j + 1]]
      BY <2>3, <3>1, <1>1
    <3>3. links[s[j + 1]] = s[k + 1]
      BY <3>1, <1>3 DEF IsPath
    <3> QED BY <3>1, <3>2, <3>3
  <2> QED BY <2>1, <2>2, <2>3, <1>1, <1>2
<1>5. ASSUME NEW j \in 1..Len(r), j = Len(r) PROVE new[r[j]] = Nil
  <2>1. CASE j = i - 1
    BY <2>1, <1>1, <1>2, <1>5 DEF IsPath
  <2>2. CASE j >= i
    BY <2>2, <1>1, <1>2, <1>5 DEF IsPath
  <2> QED BY <2>1, <2>2, <1>1, <1>2, <1>5
<1>4. (IF i = 1 THEN links[s[1]] ELSE c) = IF r = <<>> THEN Nil ELSE r[1]
  BY <1>1, <1>2 DEF IsPath
<1> QED BY <1>2, <1>3, <1>4, <1>5 DEF IsPath, r

\* An element is hung to the end.
LEMMA PathAppend ==
    ASSUME NEW links, NEW new, NEW s, NEW c, IsPath(links, s, c), NEW x \in Elements,
           \A i \in 1..(Len(s) - 1) : new[s[i]] = links[s[i]],
           s # <<>> => new[s[Len(s)]] = x,
           new[x] = Nil
    PROVE  IsPath(new, Append(s, x), IF s = <<>> THEN x ELSE c)
<1>1. s \in Seq(Elements) /\ Len(s) \in Nat
  BY DEF IsPath
<1>2. /\ Append(s, x) \in Seq(Elements) /\ Len(Append(s, x)) = Len(s) + 1
      /\ \A j \in 1..(Len(s) + 1) : Append(s, x)[j] = IF j <= Len(s) THEN s[j] ELSE x
  BY <1>1
<1> DEFINE r == Append(s, x)
<1> HIDE DEF r
<1>3. ASSUME NEW i \in 1..(Len(s) + 1), NEW j \in 1..(Len(s) + 1), j = i + 1
      PROVE  new[r[i]] = r[j]
  <2>1. CASE i < Len(s)
    BY <2>1, <1>1, <1>2, <1>3 DEF IsPath, r
  <2>2. CASE i = Len(s)
    BY <2>2, <1>1, <1>2, <1>3 DEF r
  <2> QED BY <2>1, <2>2, <1>1, <1>3
<1>4. (IF s = <<>> THEN x ELSE c) = IF r = <<>> THEN Nil ELSE r[1]
  BY <1>1, <1>2 DEF IsPath, r
<1>5. ASSUME NEW i \in 1..(Len(s) + 1), i = Len(s) + 1 PROVE new[r[i]] = Nil
  BY <1>1, <1>2, <1>5 DEF r
<1> QED BY <1>2, <1>3, <1>4, <1>5 DEF IsPath, r

\* The end of a list is the list from there.
LEMMA PathSuffix ==
    ASSUME NEW links, NEW s, NEW c, IsPath(links, s, c), NEW k \in 0..Len(s)
    PROVE  /\ SubSeq(s, k + 1, Len(s)) \in Seq(Elements)
           /\ Len(SubSeq(s, k + 1, Len(s))) = Len(s) - k
           /\ \A i \in 1..(Len(s) - k) : SubSeq(s, k + 1, Len(s))[i] = s[k + i]
           /\ IsPath(links, SubSeq(s, k + 1, Len(s)), IF k = 0 THEN c ELSE links[s[k]])
<1> DEFINE r == SubSeq(s, k + 1, Len(s))
<1>1. s \in Seq(Elements) /\ Len(s) \in Nat
  BY DEF IsPath
<1>2. r \in Seq(Elements) /\ Len(r) = Len(s) - k /\ \A i \in 1..(Len(s) - k) : r[i] = s[k + i]
  BY <1>1
<1> HIDE DEF r
<1>3. ASSUME NEW i \in 1..Len(r), NEW j \in 1..Len(r), j = i + 1 PROVE links[r[i]] = r[j]
  BY <1>1, <1>2, <1>3 DEF IsPath
<1>4. (IF k = 0 THEN c ELSE links[s[k]]) = IF r = <<>> THEN Nil ELSE r[1]
  <2>1. CASE k = 0 \/ k = Len(s)
    BY <2>1, <1>1, <1>2 DEF IsPath
  <2>2. CASE k # 0 /\ k # Len(s)
    <3>1. r[1] = s[k + 1] /\ links[s[k]] = s[k + 1] /\ r # <<>>
      BY <2>2, <1>1, <1>2 DEF IsPath
    <3> QED BY <2>2, <3>1
  <2> QED BY <2>1, <2>2
<1>5. ASSUME NEW i \in 1..Len(r), i = Len(r) PROVE links[r[i]] = Nil
  <2>1. r[i] = s[k + i] /\ k + i = Len(s) /\ k + i \in 1..Len(s)
    BY <1>1, <1>2, <1>5
  <2> QED BY <2>1 DEF IsPath
<1> QED BY <1>2, <1>3, <1>4, <1>5 DEF IsPath, r

\* The members of a sequence, by their places.
LEMMA RangeFacts ==
    ASSUME NEW S, NEW s \in Seq(S)
    PROVE  /\ Len(s) \in Nat
           /\ \A x : x \in Range(s) <=> \E i \in 1..Len(s) : x = s[i]
           /\ IsInjective(s) <=> \A i, j \in 1..Len(s) : s[i] = s[j] => i = j
BY DEF Range, IsInjective

\* Appending a new member.
LEMMA AppendMembers ==
    ASSUME NEW S, NEW s \in Seq(S), NEW x \in S, IsInjective(s), x \notin Range(s)
    PROVE  /\ IsInjective(Append(s, x))
           /\ Range(Append(s, x)) = Range(s) \cup {x}
<1> DEFINE r == Append(s, x)
<1>1. /\ r \in Seq(S) /\ Len(r) = Len(s) + 1 /\ Len(s) \in Nat
      /\ \A j \in 1..(Len(s) + 1) : r[j] = IF j <= Len(s) THEN s[j] ELSE x
  OBVIOUS
<1> HIDE DEF r
<1>2. IsInjective(r)
  BY <1>1, RangeFacts
<1>3. ASSUME NEW y PROVE y \in Range(r) <=> y \in Range(s) \cup {x}
  <2>1. ASSUME y \in Range(r) PROVE y \in Range(s) \cup {x}
    BY <2>1, <1>1, RangeFacts
  <2>2. ASSUME y \in Range(s) PROVE y \in Range(r)
    <3>1. PICK i \in 1..Len(s) : y = s[i]
      BY <2>2, RangeFacts
    <3>2. i \in 1..Len(r) /\ r[i] = y
      BY <3>1, <1>1
    <3> QED BY <3>2, <1>1, RangeFacts
  <2>3. x \in Range(r)
    <3>1. Len(s) + 1 \in 1..Len(r) /\ r[Len(s) + 1] = x
      BY <1>1
    <3> QED BY <3>1, <1>1, RangeFacts
  <2> QED BY <2>1, <2>2, <2>3
<1>4. Range(r) = Range(s) \cup {x}
  BY <1>3
<1> QED BY <1>2, <1>4 DEF r

\* Joining two sequences that have no member in common.
LEMMA ConcatMembers ==
    ASSUME NEW S, NEW a \in Seq(S), NEW b \in Seq(S), IsInjective(a), IsInjective(b),
           Range(a) \cap Range(b) = {}
    PROVE  /\ IsInjective(a \o b)
           /\ Range(a \o b) = Range(a) \cup Range(b)
<1> DEFINE r == a \o b
<1>1. /\ r \in Seq(S) /\ Len(r) = Len(a) + Len(b) /\ Len(a) \in Nat /\ Len(b) \in Nat
      /\ \A j \in 1..(Len(a) + Len(b)) : r[j] = IF j <= Len(a) THEN a[j] ELSE b[j - Len(a)]
  BY ConcatFacts
<1> HIDE DEF r
<1>2. ASSUME NEW i \in 1..Len(r), NEW j \in 1..Len(r), r[i] = r[j] PROVE i = j
  <2>1. CASE i <= Len(a) /\ j <= Len(a)
    BY <2>1, <1>2, <1>1, RangeFacts
  <2>2. CASE i > Len(a) /\ j > Len(a)
    <3>1. i - Len(a) \in 1..Len(b) /\ j - Len(a) \in 1..Len(b)
      BY <2>2, <1>1
    <3>2. b[i - Len(a)] = b[j - Len(a)]
      BY <2>2, <1>2, <1>1
    <3>3. i - Len(a) = j - Len(a)
      BY <3>1, <3>2, RangeFacts
    <3> QED BY <3>3, <1>1
  <2>3. CASE i <= Len(a) /\ j > Len(a)
    <3>1. r[i] \in Range(a) /\ r[j] \in Range(b)
      <4>1. j - Len(a) \in 1..Len(b) /\ i \in 1..Len(a) /\ r[i] = a[i] /\ r[j] = b[j - Len(a)]
        BY <2>3, <1>1
      <4> QED BY <4>1, RangeFacts
    <3> QED BY <3>1, <1>2
  <2>4. CASE i > Len(a) /\ j <= Len(a)
    <3>1. r[j] \in Range(a) /\ r[i] \in Range(b)
      <4>1. i - Len(a) \in 1..Len(b) /\ j \in 1..Len(a) /\ r[j] = a[j] /\ r[i] = b[i - Len(a)]
        BY <2>4, <1>1
      <4> QED BY <4>1, RangeFacts
    <3> QED BY <3>1, <1>2
  <2> QED BY <2>1, <2>2, <2>3, <2>4, <1>1
<1>3. IsInjective(r)
  BY <1>1, <1>2, RangeFacts
<1>4. ASSUME NEW y PROVE y \in Range(r) <=> y \in Range(a) \cup Range(b)
  <2>1. ASSUME y \in Range(r) PROVE y \in Range(a) \cup Range(b)
    <3>1. PICK i \in 1..Len(r) : y = r[i]
      BY <2>1, <1>1, RangeFacts
    <3>2. CASE i <= Len(a)
      <4>1. i \in 1..Len(a) /\ y = a[i]
        BY <3>1, <3>2, <1>1
      <4> QED BY <4>1, RangeFacts
    <3>3. CASE i > Len(a)
      <4>1. i - Len(a) \in 1..Len(b) /\ y = b[i - Len(a)]
        BY <3>1, <3>3, <1>1
      <4> QED BY <4>1, RangeFacts
    <3> QED BY <3>2, <3>3, <1>1
  <2>2. ASSUME y \in Range(a) PROVE y \in Range(r)
    <3>1. PICK i \in 1..Len(a) : y = a[i]
      BY <2>2, RangeFacts
    <3>2. i \in 1..Len(r) /\ r[i] = y
      BY <3>1, <1>1
    <3> QED BY <3>2, <1>1, RangeFacts
  <2>3. ASSUME y \in Range(b) PROVE y \in Range(r)
    <3>1. PICK i \in 1..Len(b) : y = b[i]
      BY <2>3, RangeFacts
    <3>2. Len(a) + i \in 1..Len(r) /\ (Len(a) + i) - Len(a) = i /\ ~(Len(a) + i <= Len(a))
      BY <3>1, <1>1
    <3>3. r[Len(a) + i] = y
      BY <3>1, <3>2, <1>1
    <3> QED BY <3>2, <3>3, <1>1, RangeFacts
  <2> QED BY <2>1, <2>2, <2>3
<1>5. Range(r) = Range(a) \cup Range(b)
  BY <1>4
<1> QED BY <1>3, <1>5 DEF r

\* Putting a new member first.
LEMMA ConsMembers ==
    ASSUME NEW S, NEW s \in Seq(S), NEW x \in S, IsInjective(s), x \notin Range(s)
    PROVE  /\ IsInjective(<<x>> \o s)
           /\ Range(<<x>> \o s) = Range(s) \cup {x}
<1> DEFINE a == <<x>>
<1>1. a \in Seq(S) /\ Len(a) = 1 /\ a[1] = x
  OBVIOUS
<1>2. IsInjective(a)
  BY <1>1 DEF IsInjective
<1>3. Range(a) = {x}
  BY <1>1 DEF Range
<1> HIDE DEF a
<1>4. Range(a) \cap Range(s) = {}
  BY <1>3
<1>5. IsInjective(a \o s) /\ Range(a \o s) = Range(a) \cup Range(s)
  BY <1>1, <1>2, <1>4, ConcatMembers
<1> QED BY <1>3, <1>5 DEF a

\* Removing the i-th member.
LEMMA RemoveMembers ==
    ASSUME NEW S, NEW s \in Seq(S), NEW i \in 1..Len(s), IsInjective(s)
    PROVE  /\ IsInjective(RemoveAt(s, i))
           /\ Range(RemoveAt(s, i)) = Range(s) \ {s[i]}
<1> DEFINE r == RemoveAt(s, i)
<1>1. /\ r \in Seq(S) /\ Len(r) = Len(s) - 1 /\ Len(s) \in Nat /\ i \in 1..Len(s)
      /\ \A j \in 1..(Len(s) - 1) : r[j] = IF j < i THEN s[j] ELSE s[j + 1]
  BY RemoveAtFacts
<1> HIDE DEF r
<1>s. \A j, k \in 1..Len(s) : s[j] = s[k] => j = k
  BY RangeFacts
<1> DEFINE p(j) == IF j < i THEN j ELSE j + 1
<1>2. ASSUME NEW j \in 1..Len(r) PROVE p(j) \in 1..Len(s) /\ p(j) # i /\ r[j] = s[p(j)]
  BY <1>1
<1>3. ASSUME NEW j \in 1..Len(r), NEW k \in 1..Len(r), r[j] = r[k] PROVE j = k
  <2>1. p(j) = p(k)
    <3> HIDE DEF p
    <3> QED BY <1>2, <1>3, <1>s
  <2> QED BY <2>1, <1>1
<1>4. IsInjective(r)
  BY <1>1, <1>3, RangeFacts
<1>5. ASSUME NEW y PROVE y \in Range(r) <=> y \in Range(s) \ {s[i]}
  <2>1. ASSUME y \in Range(r) PROVE y \in Range(s) \ {s[i]}
    <3>1. PICK j \in 1..Len(r) : y = r[j]
      BY <2>1, <1>1, RangeFacts
    <3>2. p(j) \in 1..Len(s) /\ p(j) # i /\ y = s[p(j)]
      BY <3>1, <1>2
    <3> HIDE DEF p
    <3>3. y \in Range(s) /\ y # s[i]
      BY <3>2, <1>s, <1>1, RangeFacts
    <3> QED BY <3>3
  <2>2. ASSUME y \in Range(s), y # s[i] PROVE y \in Range(r)
    <3>1. PICK j \in 1..Len(s) : y = s[j]
      BY <2>2, RangeFacts
    <3>2. CASE j < i
      <4>1. j \in 1..Len(r) /\ r[j] = y
        BY <3>1, <3>2, <1>1
      <4> QED BY <4>1, <1>1, RangeFacts
    <3>3. CASE j > i
      <4>1. j - 1 \in 1..Len(r) /\ ~(j - 1 < i) /\ (j - 1) + 1 = j
        BY <3>3, <1>1
      <4>2. r[j - 1] = y
        BY <4>1, <3>1, <1>1
      <4> QED BY <4>1, <4>2, <1>1, RangeFacts
    <3>4. j # i
      BY <3>1, <2>2
    <3> QED BY <3>2, <3>3, <3>4, <1>1
  <2> QED BY <2>1, <2>2
<1>6. Range(r) = Range(s) \ {s[i]}
  BY <1>5
<1> QED BY <1>4, <1>6 DEF r

\* Removing the first one.
LEMMA TailMembers ==
    ASSUME NEW S, NEW s \in Seq(S), s # <<>>, IsInjective(s)
    PROVE  /\ IsInjective(Tail(s))
           /\ Range(Tail(s)) = Range(s) \ {s[1]}
<1> DEFINE r == Tail(s)
<1>1. /\ r \in Seq(S) /\ Len(r) = Len(s) - 1 /\ Len(s) \in Nat /\ 1 \in 1..Len(s)
      /\ \A j \in 1..(Len(s) - 1) : r[j] = s[j + 1]
  OBVIOUS
<1> HIDE DEF r
<1>s. \A j, k \in 1..Len(s) : s[j] = s[k] => j = k
  BY RangeFacts
<1>3. ASSUME NEW j \in 1..Len(r), NEW k \in 1..Len(r), r[j] = r[k] PROVE j = k
  <2>1. j + 1 \in 1..Len(s) /\ k + 1 \in 1..Len(s) /\ s[j + 1] = s[k + 1]
    BY <1>1, <1>3
  <2>2. j + 1 = k + 1
    BY <2>1, <1>s
  <2> QED BY <2>2, <1>1
<1>4. IsInjective(r)
  BY <1>1, <1>3, RangeFacts
<1>5. ASSUME NEW y PROVE y \in Range(r) <=> y \in Range(s) \ {s[1]}
  <2>1. ASSUME y \in Range(r) PROVE y \in Range(s) \ {s[1]}
    <3>1. PICK j \in 1..Len(r) : y = r[j]
      BY <2>1, <1>1, RangeFacts
    <3>2. j + 1 \in 1..Len(s) /\ j + 1 # 1 /\ y = s[j + 1]
      BY <3>1, <1>1
    <3> QED BY <3>2, <1>s, <1>1, RangeFacts
  <2>2. ASSUME y \in Range(s), y # s[1] PROVE y \in Range(r)
    <3>1. PICK j \in 1..Len(s) : y = s[j]
      BY <2>2, RangeFacts
    <3>2. j # 1
      BY <3>1, <2>2
    <3>3. j - 1 \in 1..Len(r) /\ (j - 1) + 1 = j
      BY <3>1, <3>2, <1>1
    <3>4. r[j - 1] = y
      BY <3>1, <3>3, <1>1
    <3> QED BY <3>3, <3>4, <1>1, RangeFacts
  <2> QED BY <2>1, <2>2
<1>6. Range(r) = Range(s) \ {s[1]}
  BY <1>5
<1> QED BY <1>4, <1>6 DEF r

(***************************************************************************)
(* The two lists of a Display.                                             *)
(***************************************************************************)
\* The queue and the free list hold each element that was allocated once, and
\* qlen and tail are right.
Lists ==
    /\ TwoLists(next, Queue, head, Free, qfree, allocated)
    /\ Len(Queue) = qlen
    /\ tail = IF Queue = <<>> THEN Nil ELSE Queue[Len(Queue)]

\* Elements in the queue have different serial numbers, the others none.
Serials ==
    /\ next_event_serial_num # 0
    /\ \A c \in Elements : c \notin Range(Queue) => qserial_num[c] = 0
    /\ \A c \in Range(Queue) : qserial_num[c] \in 1..(next_event_serial_num - 1)
    /\ \A c, d \in Range(Queue) : qserial_num[c] = qserial_num[d] => c = d

\* What the invariant says of the two lists.
LEMMA ListFacts ==
    ASSUME TypeOK, Lists
    PROVE  /\ Queue \in Seq(Elements) /\ Free \in Seq(Elements)
           /\ Len(Queue) \in Nat /\ Len(Free) \in Nat
           /\ \A i \in 1..Len(Queue) : Queue[i] \in Elements /\ Queue[i] \in Nat \ {0}
           /\ Range(Queue) \subseteq Elements /\ Range(Free) \subseteq Elements
           /\ IsPath(next, Queue, head) /\ IsPath(next, Free, qfree)
           /\ IsInjective(Queue) /\ IsInjective(Free)
           /\ \A i, j \in 1..Len(Queue) : Queue[i] = Queue[j] => i = j
           /\ Range(Queue) \cap Range(Free) = {}
           /\ Range(Queue) \cup Range(Free) = 1..allocated
           /\ allocated \in 0..NumElements /\ NumElements \in Nat
<1>1. IsPath(next, Queue, head) /\ IsPath(next, Free, qfree)
      /\ IsInjective(Queue) /\ IsInjective(Free)
      /\ Range(Queue) \cap Range(Free) = {}
      /\ Range(Queue) \cup Range(Free) = 1..allocated
  BY DEF Lists, TwoLists
<1>2. Queue \in Seq(Elements) /\ Free \in Seq(Elements)
      /\ Len(Queue) \in Nat /\ Len(Free) \in Nat
      /\ \A i \in 1..Len(Queue) : Queue[i] \in Elements /\ Queue[i] \in Nat \ {0}
  BY <1>1, PathFacts DEF Nil
<1>3. allocated \in 0..NumElements /\ NumElements \in Nat
  BY BoundsAssumption DEF TypeOK
<1>4. Range(Queue) \subseteq Elements /\ Range(Free) \subseteq Elements
  <2>1. 1..allocated \subseteq Elements
    BY <1>3 DEF Elements
  <2> QED BY <2>1, <1>1
<1>5. \A i, j \in 1..Len(Queue) : Queue[i] = Queue[j] => i = j
  BY <1>1, <1>2, RangeFacts
<1> QED BY <1>1, <1>2, <1>3, <1>4, <1>5

\* Two paths in the new links are the new queue and the new free list.
LEMMA NewLists ==
    ASSUME NEW q, NEW f, IsPath(next', q, head'), IsPath(next', f, qfree'),
           IsInjective(q), IsInjective(f)
    PROVE  Queue' = q /\ Free' = f
<1>1. Follow(next', head') = q /\ Follow(next', qfree') = f
  BY PathFound
<1> QED BY <1>1 DEF Queue, Free, From

\* Nothing happens to the lists.
LEMMA SameLists ==
    ASSUME UNCHANGED queueVars
    PROVE  Queue' = Queue /\ Free' = Free /\ Lists' = Lists /\ Serials' = Serials
<1>1. UNCHANGED <<head, tail, qfree, qlen, next_event_serial_num, next, qserial_num, event, allocated>>
  BY DEF queueVars
<1>2. Queue' = Queue /\ Free' = Free
  BY <1>1 DEF Queue, Free, From
<1> QED BY <1>1, <1>2 DEF Lists, Serials

\* The element that is used next is in no list but the free one.
LEMMA NewElementFacts ==
    ASSUME TypeOK, Lists, CanAllocate
    PROVE  /\ NewElement \in Elements /\ NewElement \notin Range(Queue)
           /\ qfree # Nil => Free # <<>> /\ Free[1] = NewElement /\ NewElement = qfree
           /\ qfree = Nil => Free = <<>> /\ NewElement = allocated + 1
<1>1. CASE qfree # Nil
  <2>1. Free # <<>> /\ Free[1] = qfree /\ qfree \in Elements
    BY <1>1, PathTail, ListFacts
  <2>2. qfree \in Range(Free)
    <3>1. 1 \in 1..Len(Free)
      BY <2>1, ListFacts
    <3> QED BY <2>1, <3>1, ListFacts, RangeFacts
  <2>3. NewElement = qfree
    BY <1>1 DEF NewElement
  <2> QED BY <2>1, <2>2, <2>3, <1>1, ListFacts
<1>2. CASE qfree = Nil
  <2>1. Free = <<>>
    BY <1>2, ListFacts, PathFacts DEF IsPath
  <2>2. NewElement = allocated + 1 /\ allocated < NumElements
    BY <1>2 DEF NewElement, CanAllocate
  <2>3. allocated + 1 \in Elements /\ allocated + 1 \notin 1..allocated
    BY <2>2, ListFacts DEF Elements
  <2> QED BY <2>1, <2>2, <2>3, <1>2, ListFacts
<1> QED BY <1>1, <1>2

\* What is left of the free list when its first element is used.
LEMMA RestOfFree ==
    ASSUME TypeOK, Lists, CanAllocate, Allocated
    PROVE  /\ \E f : /\ f \in Seq(Elements) /\ IsPath(next, f, FreeList) /\ IsInjective(f)
                     /\ NewElement \notin Range(f)
                     /\ Range(Queue) \cap Range(f) = {}
                     /\ Range(Queue) \cup Range(f) \cup {NewElement} = 1..allocated'
                     /\ Range(f) \subseteq Range(Free)
           /\ allocated' \in 0..NumElements
<1>1. CASE qfree # Nil
  <2>1. /\ Tail(Free) \in Seq(Elements) /\ IsPath(next, Tail(Free), next[qfree])
        /\ Free # <<>> /\ Free[1] = qfree
    BY <1>1, PathTail, ListFacts
  <2>2. IsInjective(Tail(Free)) /\ Range(Tail(Free)) = Range(Free) \ {qfree}
    BY <2>1, TailMembers, ListFacts
  <2>3. FreeList = next[qfree] /\ allocated' = allocated /\ NewElement = qfree
    BY <1>1 DEF FreeList, Allocated, NewElement
  <2>4. qfree \in Range(Free)
    <3>1. 1 \in 1..Len(Free)
      BY <2>1, ListFacts
    <3> QED BY <2>1, <3>1, ListFacts, RangeFacts
  <2>5. /\ NewElement \notin Range(Tail(Free))
        /\ Range(Queue) \cap Range(Tail(Free)) = {}
        /\ Range(Queue) \cup Range(Tail(Free)) \cup {NewElement} = 1..allocated'
        /\ Range(Tail(Free)) \subseteq Range(Free)
        /\ allocated' \in 0..NumElements
    BY <2>2, <2>3, <2>4, ListFacts
  <2> QED BY <2>1, <2>2, <2>3, <2>5
<1>2. CASE qfree = Nil
  <2>1. Free = <<>> /\ NewElement = allocated + 1 /\ FreeList = Nil /\ allocated' = allocated + 1
        /\ allocated < NumElements /\ NewElement \notin Range(Queue)
    BY <1>2, NewElementFacts DEF FreeList, Allocated, CanAllocate
  <2>2. IsPath(next, Free, FreeList)
    BY <2>1, <1>2, ListFacts
  <2>3. Range(Queue) \cup Range(Free) \cup {NewElement} = 1..allocated'
    <3>1. 1..allocated' = (1..allocated) \cup {allocated + 1}
      BY <2>1, ListFacts
    <3> QED BY <3>1, <2>1, ListFacts
  <2>4. NewElement \notin Range(Free)
    <3>1. Range(Free) = {}
      BY <2>1 DEF Range
    <3> QED BY <3>1
  <2>5. allocated' \in 0..NumElements
    BY <2>1, ListFacts
  <2> QED BY <2>1, <2>2, <2>3, <2>4, <2>5, ListFacts
<1> QED BY <1>1, <1>2

\* _XEnq of an event.
LEMMA EnqStep ==
    ASSUME TypeOK, Lists, Serials, NEW item, Enq(item), kind[item] # "ignored"
    PROVE  /\ Queue' = Append(Queue, NewElement)
           /\ NewElement \in Elements /\ NewElement \notin Range(Queue)
           /\ Lists' /\ Serials'
<1> DEFINE c == NewElement
<1>0. /\ CanAllocate /\ Allocated
      /\ qfree' = FreeList
      /\ next' = IF tail # Nil THEN [next EXCEPT ![c] = Nil, ![tail] = c]
                 ELSE [next EXCEPT ![c] = Nil]
      /\ head' = IF tail # Nil THEN head ELSE c
      /\ tail' = c
      /\ qlen' = qlen + 1
      /\ qserial_num' = [qserial_num EXCEPT ![c] = next_event_serial_num]
      /\ next_event_serial_num' = next_event_serial_num + 1
  BY DEF Enq
<1>1. c \in Elements /\ c \notin Range(Queue)
  BY <1>0, NewElementFacts
<1>2. PICK f : /\ f \in Seq(Elements) /\ IsPath(next, f, FreeList) /\ IsInjective(f)
               /\ c \notin Range(f)
               /\ Range(Queue) \cap Range(f) = {}
               /\ Range(Queue) \cup Range(f) \cup {c} = 1..allocated'
  BY <1>0, RestOfFree
<1> HIDE DEF c
<1>3. /\ next \in [Elements -> {Nil} \cup Elements]
      /\ tail = IF Queue = <<>> THEN Nil ELSE Queue[Len(Queue)]
      /\ Len(Queue) = qlen
  BY DEF TypeOK, Lists
<1>4. tail # Nil <=> Queue # <<>>
  <2>1. ASSUME Queue # <<>> PROVE tail # Nil
    <3>1. Len(Queue) \in 1..Len(Queue)
      BY <2>1, ListFacts
    <3> QED BY <3>1, <2>1, <1>3, ListFacts DEF Nil
  <2> QED BY <2>1, <1>3
<1>5. \A i \in 1..Len(Queue) : Queue[i] # c
  BY <1>1, ListFacts, RangeFacts
<1>6. IsPath(next', Append(Queue, c), head')
  <2>0. Queue # <<>> =>
           /\ tail = Queue[Len(Queue)] /\ tail # Nil /\ Len(Queue) \in 1..Len(Queue)
           /\ tail \in Elements /\ tail # c
    <3> SUFFICES ASSUME Queue # <<>>
                 PROVE  /\ tail = Queue[Len(Queue)] /\ tail # Nil /\ Len(Queue) \in 1..Len(Queue)
                        /\ tail \in Elements /\ tail # c
      OBVIOUS
    <3>1. tail = Queue[Len(Queue)] /\ tail # Nil /\ Len(Queue) \in 1..Len(Queue)
      BY <1>3, <1>4, ListFacts
    <3> QED BY <3>1, <1>5, ListFacts
  <2>1. next'[c] = Nil
    BY <2>0, <1>0, <1>1, <1>3, <1>4
  <2>2. Queue # <<>> => next'[Queue[Len(Queue)]] = c
    BY <2>0, <1>0, <1>1, <1>3, <1>4
  <2>3. ASSUME NEW i \in 1..(Len(Queue) - 1) PROVE next'[Queue[i]] = next[Queue[i]]
    <3>1. i \in 1..Len(Queue) /\ i # Len(Queue)
      BY ListFacts
    <3>2. Queue # <<>>
      BY <3>1
    <3>3. Queue[i] # c /\ Queue[i] # tail /\ Queue[i] \in Elements
      BY <3>1, <3>2, <2>0, <1>5, ListFacts
    <3> QED BY <3>3, <1>0, <1>3
  <2>4. IsPath(next', Append(Queue, c), IF Queue = <<>> THEN c ELSE head)
    <3>1. IsPath(next, Queue, head)
      BY ListFacts
    <3> QED BY <3>1, <2>1, <2>2, <2>3, <1>1, PathAppend
  <2>5. head' = IF Queue = <<>> THEN c ELSE head
    BY <1>0, <1>4
  <2> QED BY <2>4, <2>5
<1>7. IsPath(next', f, qfree')
  <2>1. ASSUME NEW i \in 1..Len(f) PROVE next'[f[i]] = next[f[i]]
    <3>1. f[i] \in Range(f) /\ f[i] \in Elements
      BY <1>2, RangeFacts
    <3>2. f[i] # c
      BY <3>1, <1>2
    <3>3. CASE Queue = <<>>
      BY <3>3, <3>1, <3>2, <1>0, <1>3, <1>4
    <3>4. CASE Queue # <<>>
      <4>1. tail = Queue[Len(Queue)] /\ tail # Nil /\ Len(Queue) \in 1..Len(Queue)
        BY <3>4, <1>3, <1>4, ListFacts
      <4>2. tail \in Range(Queue)
        BY <4>1, ListFacts, RangeFacts
      <4>3. f[i] # tail
        BY <4>2, <3>1, <1>2
      <4> QED BY <4>1, <4>3, <3>1, <3>2, <1>0, <1>3
    <3> QED BY <3>3, <3>4
  <2> QED BY <2>1, <1>0, <1>2, PathKept
<1>8. /\ IsInjective(Append(Queue, c))
      /\ Range(Append(Queue, c)) = Range(Queue) \cup {c}
  BY <1>1, AppendMembers, ListFacts
<1>9. Queue' = Append(Queue, c) /\ Free' = f
  BY <1>2, <1>6, <1>7, <1>8, NewLists
<1>10. Lists'
  <2>1. TwoLists(next', Queue', head', Free', qfree', allocated')
    BY <1>2, <1>6, <1>7, <1>8, <1>9 DEF TwoLists
  <2>2. Len(Queue') = Len(Queue) + 1 /\ Queue' # <<>> /\ Queue'[Len(Queue) + 1] = c
    BY <1>9, <1>1, ListFacts
  <2> QED BY <2>1, <2>2, <1>0, <1>3, ListFacts DEF Lists, c
<1>11. Serials'
  <2>0. /\ qserial_num \in [Elements -> Nat] /\ next_event_serial_num \in Nat
        /\ Range(Queue') = Range(Queue) \cup {c} /\ Range(Queue) \subseteq Elements
    BY <1>8, <1>9, ListFacts DEF TypeOK
  <2>1. /\ qserial_num'[c] = next_event_serial_num
        /\ \A d \in Elements : d # c => qserial_num'[d] = qserial_num[d]
        /\ next_event_serial_num' = next_event_serial_num + 1
    BY <2>0, <1>0, <1>1 DEF c
  <2> QED BY <2>0, <2>1, <1>1 DEF Serials
<1> QED BY <1>1, <1>9, <1>10, <1>11 DEF c

\* _XEnq of an event that an extension ignores.
LEMMA IgnoredStep ==
    ASSUME TypeOK, Lists, Serials, NEW item, Enq(item), kind[item] = "ignored"
    PROVE  /\ Queue' = Queue /\ UNCHANGED <<next_event_serial_num, qserial_num, event>>
           /\ Lists' /\ Serials'
<1> DEFINE c == NewElement
<1>0. /\ CanAllocate /\ Allocated
      /\ qfree' = c
      /\ next' = [next EXCEPT ![c] = FreeList]
      /\ UNCHANGED <<head, tail, qlen, next_event_serial_num, qserial_num, event>>
  BY DEF Enq
<1>1. c \in Elements /\ c \notin Range(Queue)
  BY <1>0, NewElementFacts
<1>2. PICK f : /\ f \in Seq(Elements) /\ IsPath(next, f, FreeList) /\ IsInjective(f)
               /\ c \notin Range(f)
               /\ Range(Queue) \cap Range(f) = {}
               /\ Range(Queue) \cup Range(f) \cup {c} = 1..allocated'
  BY <1>0, RestOfFree
<1> HIDE DEF c
<1>3. next'[c] = FreeList /\ \A d \in Elements : d # c => next'[d] = next[d]
  BY <1>0, <1>1 DEF TypeOK
<1>4. IsPath(next', f, FreeList)
  <2>1. ASSUME NEW i \in 1..Len(f) PROVE next'[f[i]] = next[f[i]]
    <3>1. f[i] \in Range(f) /\ f[i] \in Elements
      BY <1>2, RangeFacts
    <3> QED BY <3>1, <1>2, <1>3
  <2> QED BY <2>1, <1>2, PathKept
<1>5. IsPath(next', <<c>> \o f, qfree')
  BY <1>0, <1>1, <1>3, <1>4, PathCons
<1>6. IsPath(next', Queue, head')
  <2>1. ASSUME NEW i \in 1..Len(Queue) PROVE next'[Queue[i]] = next[Queue[i]]
    <3>1. Queue[i] \in Range(Queue) /\ Queue[i] \in Elements
      BY ListFacts, RangeFacts
    <3> QED BY <3>1, <1>1, <1>3
  <2> QED BY <2>1, <1>0, PathKept, ListFacts
<1>7. IsInjective(<<c>> \o f) /\ Range(<<c>> \o f) = Range(f) \cup {c}
  BY <1>1, <1>2, ConsMembers
<1>8. Queue' = Queue /\ Free' = <<c>> \o f
  BY <1>5, <1>6, <1>7, NewLists, ListFacts
<1>9. TwoLists(next', Queue', head', Free', qfree', allocated')
  <2>1. Range(Queue) \cap Range(<<c>> \o f) = {} /\ Range(Queue) \cup Range(<<c>> \o f) = 1..allocated'
    BY <1>1, <1>2, <1>7
  <2> QED BY <2>1, <1>5, <1>6, <1>7, <1>8, ListFacts DEF TwoLists
<1>10. Lists'
  BY <1>0, <1>8, <1>9 DEF Lists
<1>11. Serials'
  BY <1>0, <1>8 DEF Serials
<1> QED BY <1>0, <1>8, <1>10, <1>11

\* _XDeq of the i-th event.
LEMMA DeqStep ==
    ASSUME TypeOK, Lists, Serials, NEW i \in 1..Len(Queue),
           NEW prev, prev = (IF i = 1 THEN Nil ELSE Queue[i - 1]), Deq(prev, Queue[i])
    PROVE  /\ Queue' = RemoveAt(Queue, i)
           /\ Lists' /\ Serials'
           /\ UNCHANGED <<next_event_serial_num, event>>
           /\ \A c \in Elements : c # Queue[i] => qserial_num'[c] = qserial_num[c]
<1> DEFINE c == Queue[i]
<1>0. /\ head' = IF prev = Nil THEN next[c] ELSE head
      /\ tail' = IF next[c] = Nil THEN prev ELSE tail
      /\ next' = [x \in Elements |-> IF x = c THEN qfree
                                     ELSE IF x = prev THEN next[c] ELSE next[x]]
      /\ qserial_num' = [qserial_num EXCEPT ![c] = 0]
      /\ qfree' = c
      /\ qlen' = qlen - 1
      /\ UNCHANGED <<next_event_serial_num, event, allocated>>
  BY DEF Deq, Zeroed
<1>1. c \in Elements /\ c \in Range(Queue)
  BY ListFacts, RangeFacts
<1>2. prev = Nil <=> i = 1
  <2>1. ASSUME i # 1 PROVE prev # Nil
    <3>1. i - 1 \in 1..Len(Queue)
      BY <2>1, ListFacts
    <3> QED BY <3>1, <2>1, ListFacts DEF Nil
  <2> QED BY <2>1
<1>3. IsPath(next', RemoveAt(Queue, i), head')
  <2>1. ASSUME NEW j \in 1..Len(Queue), j # i, j # i - 1 PROVE next'[Queue[j]] = next[Queue[j]]
    <3>1. Queue[j] # c /\ Queue[j] \in Elements /\ Queue[j] # Nil
      BY <2>1, ListFacts DEF Nil
    <3>2. Queue[j] # prev
      <4>1. CASE i = 1
        BY <4>1, <1>2, <3>1
      <4>2. CASE i # 1
        <5>1. i - 1 \in 1..Len(Queue)
          BY <4>2, ListFacts
        <5> QED BY <5>1, <4>2, <2>1, ListFacts
      <4> QED BY <4>1, <4>2
    <3> HIDE DEF c
    <3> QED BY <3>1, <3>2, <1>0
  <2>2. ASSUME NEW j \in 1..Len(Queue), j = i - 1 PROVE next'[Queue[j]] = next[Queue[i]]
    <3>1. j # i /\ i # 1 /\ Queue[j] = prev
      BY <2>2, ListFacts
    <3>2. Queue[j] # c /\ Queue[j] \in Elements
      BY <3>1, ListFacts
    <3> QED BY <3>1, <3>2, <1>0
  <2>3. IsPath(next', RemoveAt(Queue, i), IF i = 1 THEN next[Queue[1]] ELSE head)
    BY <2>1, <2>2, PathRemove, ListFacts
  <2>4. head' = IF i = 1 THEN next[Queue[1]] ELSE head
    BY <1>0, <1>2
  <2> QED BY <2>3, <2>4
<1>4. IsPath(next', Free, qfree)
  <2>1. ASSUME NEW j \in 1..Len(Free) PROVE next'[Free[j]] = next[Free[j]]
    <3>1. Free[j] \in Range(Free) /\ Free[j] \in Elements
      BY ListFacts, RangeFacts
    <3>2. Free[j] # c
      BY <3>1, <1>1, ListFacts
    <3>3. Free[j] # prev
      <4>1. CASE i = 1
        BY <4>1, <3>1, <1>2, ListFacts, PathFacts
      <4>2. CASE i # 1
        <5>1. i - 1 \in 1..Len(Queue)
          BY <4>2, ListFacts
        <5>2. prev \in Range(Queue)
          BY <5>1, <4>2, ListFacts, RangeFacts
        <5> QED BY <5>2, <3>1, ListFacts
      <4> QED BY <4>1, <4>2
    <3> HIDE DEF c
    <3> QED BY <3>1, <3>2, <3>3, <1>0
  <2> QED BY <2>1, PathKept, ListFacts
<1> HIDE DEF c
<1>5. IsPath(next', <<c>> \o Free, qfree')
  <2>1. next'[c] = qfree
    BY <1>0, <1>1
  <2> QED BY <2>1, <1>0, <1>1, <1>4, PathCons
<1>6. /\ IsInjective(RemoveAt(Queue, i))
      /\ Range(RemoveAt(Queue, i)) = Range(Queue) \ {c}
  BY RemoveMembers, ListFacts DEF c
<1>7. /\ IsInjective(<<c>> \o Free)
      /\ Range(<<c>> \o Free) = Range(Free) \cup {c}
  <2>1. c \notin Range(Free)
    BY <1>1, ListFacts
  <2> QED BY <2>1, <1>1, ConsMembers, ListFacts
<1>8. Queue' = RemoveAt(Queue, i) /\ Free' = <<c>> \o Free
  BY <1>3, <1>5, <1>6, <1>7, NewLists
<1>9. TwoLists(next', Queue', head', Free', qfree', allocated')
  <2>1. /\ Range(Queue') \cap Range(Free') = {}
        /\ Range(Queue') \cup Range(Free') = 1..allocated'
    BY <1>0, <1>1, <1>6, <1>7, <1>8, ListFacts
  <2> QED BY <2>1, <1>3, <1>5, <1>6, <1>7, <1>8 DEF TwoLists
<1>10. /\ Len(Queue') = Len(Queue) - 1
       /\ \A j \in 1..(Len(Queue) - 1) : Queue'[j] = IF j < i THEN Queue[j] ELSE Queue[j + 1]
       /\ Queue' \in Seq(Elements)
  <2> DEFINE r == RemoveAt(Queue, i)
  <2>1. Queue \in Seq(Elements) /\ i \in 1..Len(Queue)
    BY ListFacts
  <2>2. /\ r \in Seq(Elements) /\ Len(r) = Len(Queue) - 1
        /\ \A j \in 1..(Len(Queue) - 1) : r[j] = IF j < i THEN Queue[j] ELSE Queue[j + 1]
    BY <2>1, RemoveAtFacts
  <2>3. Queue' = r
    BY <1>8
  <2> HIDE DEF r
  <2> QED BY <2>2, <2>3
<1>11. tail' = IF Queue' = <<>> THEN Nil ELSE Queue'[Len(Queue')]
  <2>0. i \in 1..Len(Queue) /\ Len(Queue) \in Nat /\ tail = Queue[Len(Queue)]
    <3>1. Len(Queue) # 0
      BY ListFacts
    <3> QED BY <3>1, ListFacts DEF Lists
  <2>1. CASE i = Len(Queue)
    <3>1. next[c] = Nil
      BY <2>1, ListFacts DEF IsPath, c
    <3>2. tail' = prev
      BY <3>1, <1>0
    <3>3. CASE i = 1
      <4>1. Len(Queue') = 0
        BY <3>3, <2>1, <1>10
      <4> QED BY <4>1, <3>2, <3>3, <1>2, <1>10
    <3>4. CASE i # 1
      <4>1. Len(Queue') = i - 1 /\ i - 1 \in 1..(Len(Queue) - 1) /\ i - 1 < i
        BY <3>4, <2>1, <2>0, <1>10
      <4>2. Queue'[i - 1] = Queue[i - 1] /\ Queue' # <<>>
        BY <4>1, <1>10
      <4> QED BY <4>1, <4>2, <3>2, <3>4
    <3> QED BY <3>3, <3>4
  <2>2. CASE i # Len(Queue)
    <3>1. i + 1 \in 1..Len(Queue)
      BY <2>2, <2>0
    <3>2. next[c] = Queue[i + 1]
      BY <3>1, ListFacts DEF IsPath, c
    <3>3. next[c] # Nil
      BY <3>1, <3>2, ListFacts DEF Nil
    <3>4. tail' = Queue[Len(Queue)]
      BY <3>3, <1>0, <2>0
    <3>5. Len(Queue') = Len(Queue) - 1 /\ Len(Queue) - 1 \in 1..(Len(Queue) - 1)
          /\ ~(Len(Queue) - 1 < i) /\ (Len(Queue) - 1) + 1 = Len(Queue)
      BY <3>1, <2>0, <2>2, <1>10
    <3>6. Queue'[Len(Queue) - 1] = Queue[Len(Queue)] /\ Queue' # <<>>
      BY <3>5, <1>10
    <3> QED BY <3>4, <3>5, <3>6
  <2> QED BY <2>1, <2>2
<1>12. Lists'
  BY <1>0, <1>9, <1>10, <1>11 DEF Lists
<1>13. /\ qserial_num'[c] = 0
       /\ \A d \in Elements : d # c => qserial_num'[d] = qserial_num[d]
  BY <1>0, <1>1 DEF TypeOK
<1>14. Serials'
  <2>1. Range(Queue') = Range(Queue) \ {c} /\ Range(Queue) \subseteq Elements
    BY <1>6, <1>8, ListFacts
  <2> QED BY <2>1, <1>0, <1>13 DEF Serials
<1> QED BY <1>0, <1>8, <1>12, <1>13, <1>14 DEF c

\* XPutBackEvent.
LEMMA PutBackStep ==
    ASSUME TypeOK, Lists, Serials, NEW t \in Threads, PutBack(t), local[t].got # 0
    PROVE  /\ Queue' = <<NewElement>> \o Queue
           /\ NewElement \in Elements /\ NewElement \notin Range(Queue)
           /\ Lists' /\ Serials'
<1> DEFINE c == NewElement
<1>0. /\ CanAllocate /\ Allocated
      /\ qfree' = FreeList
      /\ next' = [next EXCEPT ![c] = head]
      /\ head' = c
      /\ tail' = IF tail = Nil THEN c ELSE tail
      /\ qlen' = qlen + 1
      /\ qserial_num' = [qserial_num EXCEPT ![c] = next_event_serial_num]
      /\ next_event_serial_num' = next_event_serial_num + 1
  BY DEF PutBack
<1>1. c \in Elements /\ c \notin Range(Queue)
  BY <1>0, NewElementFacts
<1>2. PICK f : /\ f \in Seq(Elements) /\ IsPath(next, f, FreeList) /\ IsInjective(f)
               /\ c \notin Range(f)
               /\ Range(Queue) \cap Range(f) = {}
               /\ Range(Queue) \cup Range(f) \cup {c} = 1..allocated'
  BY <1>0, RestOfFree
<1> HIDE DEF c
<1>3. next'[c] = head /\ \A d \in Elements : d # c => next'[d] = next[d]
  BY <1>0, <1>1 DEF TypeOK
<1>4. IsPath(next', f, qfree')
  <2>1. ASSUME NEW i \in 1..Len(f) PROVE next'[f[i]] = next[f[i]]
    <3>1. f[i] \in Range(f) /\ f[i] \in Elements
      BY <1>2, RangeFacts
    <3> QED BY <3>1, <1>2, <1>3
  <2> QED BY <2>1, <1>0, <1>2, PathKept
<1>5. IsPath(next', Queue, head)
  <2>1. ASSUME NEW i \in 1..Len(Queue) PROVE next'[Queue[i]] = next[Queue[i]]
    <3>1. Queue[i] \in Range(Queue) /\ Queue[i] \in Elements
      BY ListFacts, RangeFacts
    <3> QED BY <3>1, <1>1, <1>3
  <2> QED BY <2>1, PathKept, ListFacts
<1> DEFINE q == <<c>> \o Queue
<1>6. /\ q \in Seq(Elements) /\ Len(q) = Len(Queue) + 1
      /\ \A i \in 1..(Len(Queue) + 1) : q[i] = IF i = 1 THEN c ELSE Queue[i - 1]
      /\ IsPath(next', q, head')
  <2>1. c \in Elements /\ next'[c] = head /\ IsPath(next', Queue, head)
    BY <1>1, <1>3, <1>5
  <2>2. /\ q \in Seq(Elements) /\ Len(q) = Len(Queue) + 1
        /\ \A i \in 1..(Len(Queue) + 1) : q[i] = IF i = 1 THEN c ELSE Queue[i - 1]
        /\ IsPath(next', q, c)
    BY <2>1, PathCons
  <2> HIDE DEF q
  <2> QED BY <2>2, <1>0
<1>7. IsInjective(q) /\ Range(q) = Range(Queue) \cup {c}
  BY <1>1, ConsMembers, ListFacts
<1> HIDE DEF q
<1>8. Queue' = q /\ Free' = f
  BY <1>2, <1>4, <1>6, <1>7, NewLists
<1>9. TwoLists(next', Queue', head', Free', qfree', allocated')
  <2>1. Range(q) \cap Range(f) = {} /\ Range(q) \cup Range(f) = 1..allocated'
    BY <1>1, <1>2, <1>7
  <2> QED BY <2>1, <1>2, <1>4, <1>6, <1>7, <1>8 DEF TwoLists
<1>10. tail' = IF Queue' = <<>> THEN Nil ELSE Queue'[Len(Queue')]
  <2>0. Len(q) # 0 /\ q # <<>>
    BY <1>6, ListFacts
  <2>1. CASE Queue = <<>>
    <3>1. tail = Nil /\ Len(Queue) = 0
      BY <2>1 DEF Lists
    <3>2. q[Len(q)] = c
      BY <3>1, <1>6
    <3> QED BY <3>1, <3>2, <2>0, <1>0, <1>8
  <2>2. CASE Queue # <<>>
    <3>1. tail = Queue[Len(Queue)] /\ Len(Queue) \in 1..Len(Queue)
      BY <2>2, ListFacts DEF Lists
    <3>2. tail # Nil
      BY <3>1, ListFacts DEF Nil
    <3>3. Len(Queue) + 1 # 1 /\ (Len(Queue) + 1) - 1 = Len(Queue)
      BY <3>1
    <3>4. q[Len(q)] = Queue[Len(Queue)]
      BY <3>1, <3>3, <1>6
    <3> QED BY <3>1, <3>2, <3>4, <2>0, <1>0, <1>8
  <2> QED BY <2>1, <2>2
<1>11. Lists'
  BY <1>0, <1>6, <1>8, <1>9, <1>10 DEF Lists
<1>12. Serials'
  <2>0. /\ qserial_num \in [Elements -> Nat] /\ next_event_serial_num \in Nat
        /\ Range(Queue') = Range(Queue) \cup {c} /\ Range(Queue) \subseteq Elements
    BY <1>7, <1>8, ListFacts DEF TypeOK
  <2>1. /\ qserial_num'[c] = next_event_serial_num
        /\ \A d \in Elements : d # c => qserial_num'[d] = qserial_num[d]
        /\ next_event_serial_num' = next_event_serial_num + 1
    BY <2>0, <1>0, <1>1 DEF c
  <2> QED BY <2>0, <2>1, <1>1 DEF Serials
<1> QED BY <1>1, <1>8, <1>11, <1>12 DEF c, q

\* Linking the last element of a list to another list joins them.
LEMMA PathJoined ==
    ASSUME NEW links, NEW new, NEW s, NEW c, NEW r, NEW d, IsPath(links, s, c), IsPath(links, r, d),
           s # <<>>,
           \A i \in 1..(Len(s) - 1) : new[s[i]] = links[s[i]],
           \A i \in 1..Len(r) : new[r[i]] = links[r[i]],
           new[s[Len(s)]] = d
    PROVE  s \o r \in Seq(Elements) /\ IsPath(new, s \o r, c)
<1> DEFINE q == s \o r
<1>1. /\ q \in Seq(Elements) /\ Len(q) = Len(s) + Len(r)
      /\ IsPath(new, q, c)
  BY PathConcat
<1> HIDE DEF q
<1>2. q \in Seq(Elements) /\ IsPath(new, q, c)
  BY <1>1
<1> QED BY <1>2 DEF q

\* XSync that discards.
LEMMA DiscardStep ==
    ASSUME TypeOK, Lists, Serials, NEW t \in Threads, Discard(t)
    PROVE  /\ Queue' = <<>>
           /\ Lists' /\ Serials'
           /\ UNCHANGED <<next_event_serial_num, event>>
<1>0. head = Nil <=> Queue = <<>>
  <2>1. ASSUME Queue # <<>> PROVE head # Nil
    <3>1. 1 \in 1..Len(Queue)
      BY <2>1, ListFacts
    <3> QED BY <3>1, <2>1, ListFacts DEF IsPath, Nil
  <2>2. ASSUME Queue = <<>> PROVE head = Nil
    BY <2>2, ListFacts DEF IsPath
  <2> QED BY <2>1, <2>2
<1>1. CASE head = Nil
  <2>1. UNCHANGED queueVars
    BY <1>1 DEF Discard
  <2> QED BY <2>1, <1>0, <1>1, SameLists DEF queueVars
<1>2. CASE head # Nil
  <2>0. /\ qserial_num' = AllZeroed
        /\ next' = [next EXCEPT ![tail] = qfree]
        /\ qfree' = head
        /\ head' = Nil /\ tail' = Nil
        /\ qlen' = 0
        /\ UNCHANGED <<next_event_serial_num, event, allocated>>
    BY <1>2 DEF Discard
  <2>1. tail = Queue[Len(Queue)] /\ Len(Queue) \in 1..Len(Queue) /\ Queue # <<>>
    BY <1>2, <1>0, ListFacts DEF Lists
  <2>2. tail \in Elements /\ tail \in Range(Queue)
    BY <2>1, ListFacts, RangeFacts
  <2>3. next'[tail] = qfree /\ \A d \in Elements : d # tail => next'[d] = next[d]
    BY <2>0, <2>2 DEF TypeOK
  <2>4. ASSUME NEW i \in 1..(Len(Queue) - 1) PROVE next'[Queue[i]] = next[Queue[i]]
    <3>1. i \in 1..Len(Queue) /\ i # Len(Queue)
      BY ListFacts
    <3>2. Queue[i] # tail /\ Queue[i] \in Elements
      BY <3>1, <2>1, ListFacts
    <3> QED BY <3>2, <2>3
  <2>5. ASSUME NEW i \in 1..Len(Free) PROVE next'[Free[i]] = next[Free[i]]
    <3>1. Free[i] \in Range(Free) /\ Free[i] \in Elements
      BY ListFacts, RangeFacts
    <3>2. Free[i] # tail
      BY <3>1, <2>2, ListFacts
    <3> QED BY <3>1, <3>2, <2>3
  <2> DEFINE f == Queue \o Free
  <2>6. f \in Seq(Elements) /\ IsPath(next', f, qfree')
    <3>1. IsPath(next, Queue, head) /\ IsPath(next, Free, qfree)
      BY ListFacts
    <3>2. next'[Queue[Len(Queue)]] = qfree
      BY <2>1, <2>3
    <3>3. /\ \A i \in 1..(Len(Queue) - 1) : next'[Queue[i]] = next[Queue[i]]
          /\ \A i \in 1..Len(Free) : next'[Free[i]] = next[Free[i]]
      BY <2>4, <2>5
    <3>4. f \in Seq(Elements) /\ IsPath(next', f, head)
      <4> DEFINE q == Queue
                 r == Free
      <4>1. /\ IsPath(next, q, head) /\ IsPath(next, r, qfree) /\ q # <<>>
            /\ \A i \in 1..(Len(q) - 1) : next'[q[i]] = next[q[i]]
            /\ \A i \in 1..Len(r) : next'[r[i]] = next[r[i]]
            /\ next'[q[Len(q)]] = qfree
        BY <3>1, <3>2, <3>3, <2>1
      <4> HIDE DEF q, r
      <4>2. q \o r \in Seq(Elements) /\ IsPath(next', q \o r, head)
        BY <4>1, PathJoined
      <4> QED BY <4>2 DEF q, r
    <3> HIDE DEF f
    <3> QED BY <3>4, <2>0
  <2>7. IsInjective(f) /\ Range(f) = Range(Queue) \cup Range(Free)
    BY ConcatMembers, ListFacts
  <2> HIDE DEF f
  <2> DEFINE e == <<>>
  <2>8. e \in Seq(Elements) /\ Len(e) = 0 /\ IsPath(next', e, head') /\ IsInjective(e) /\ Range(e) = {}
    BY <2>0 DEF IsPath, IsInjective, Range
  <2>9. Queue' = e /\ Free' = f
    BY <2>6, <2>7, <2>8, NewLists
  <2>10. TwoLists(next', Queue', head', Free', qfree', allocated')
    BY <2>0, <2>6, <2>7, <2>8, <2>9, ListFacts DEF TwoLists
  <2>11. Lists'
    BY <2>0, <2>8, <2>9, <2>10 DEF Lists
  <2>12. \A c \in Elements : qserial_num'[c] = 0
    BY <2>0 DEF AllZeroed, Serials, Queue
  <2>13. Serials'
    BY <2>0, <2>8, <2>9, <2>12 DEF Serials
  <2> QED BY <2>0, <2>9, <2>11, <2>13
<1> QED BY <1>1, <1>2

-----------------------------------------------------------------------------
(***************************************************************************)
(* What a scan looks at.                                                   *)
(***************************************************************************)
\* The place of the last element that t has looked at, 0 if there is none.
IsPlace(t, k) ==
    /\ k \in 0..Len(Queue)
    /\ local[t].prev = IF k = 0 THEN Nil ELSE Queue[k]

\* A scan that has not lost its place has one in the queue.
LEMMA PlaceExists ==
    ASSUME TypeOK, Lists, NEW t \in Threads, local[t].prev \in {Nil} \cup Range(Queue)
    PROVE  \E k : IsPlace(t, k)
<1>1. CASE local[t].prev = Nil
  <2>1. IsPlace(t, 0)
    BY <1>1, ListFacts DEF IsPlace
  <2> QED BY <2>1
<1>2. CASE local[t].prev \in Range(Queue)
  <2>1. PICK k \in 1..Len(Queue) : local[t].prev = Queue[k]
    BY <1>2, ListFacts, RangeFacts
  <2>2. IsPlace(t, k)
    BY <2>1, ListFacts DEF IsPlace
  <2> QED BY <2>2
<1> QED BY <1>1, <1>2

\* It looks at what follows.
LEMMA AheadFacts ==
    ASSUME TypeOK, Lists, NEW t \in Threads, NEW k, IsPlace(t, k)
    PROVE  /\ Ahead(t) \in Seq(Elements)
           /\ Len(Ahead(t)) = Len(Queue) - k
           /\ DOMAIN Ahead(t) = 1..(Len(Queue) - k)
           /\ \A i \in 1..(Len(Queue) - k) : Ahead(t)[i] = Queue[k + i]
           /\ k \in 0..Len(Queue) /\ Len(Queue) \in Nat
<1> DEFINE r == SubSeq(Queue, k + 1, Len(Queue))
           c == IF k = 0 THEN head ELSE next[Queue[k]]
<1>0. k \in 0..Len(Queue) /\ Len(Queue) \in Nat /\ IsPath(next, Queue, head)
  BY ListFacts DEF IsPlace
<1>1. /\ r \in Seq(Elements) /\ Len(r) = Len(Queue) - k
      /\ \A i \in 1..(Len(Queue) - k) : r[i] = Queue[k + i]
      /\ IsPath(next, r, c)
  BY <1>0, PathSuffix
<1> HIDE DEF r
<1>2. IsInjective(r)
  <2>1. ASSUME NEW i \in 1..Len(r), NEW j \in 1..Len(r), r[i] = r[j] PROVE i = j
    <3>1. k + i \in 1..Len(Queue) /\ k + j \in 1..Len(Queue) /\ Queue[k + i] = Queue[k + j]
      BY <2>1, <1>0, <1>1
    <3>2. k + i = k + j
      BY <3>1, ListFacts
    <3> QED BY <3>2, <1>0, <1>1
  <2> QED BY <2>1, <1>1, RangeFacts
<1>3. Follow(next, c) = r
  BY <1>1, <1>2, PathFound
<1>4. (IF local[t].prev = Nil THEN head ELSE next[local[t].prev]) = c
  <2>1. CASE k = 0
    BY <2>1 DEF IsPlace
  <2>2. CASE k # 0
    <3>1. k \in 1..Len(Queue)
      BY <2>2, <1>0
    <3>2. Queue[k] # Nil
      BY <3>1, ListFacts DEF Nil
    <3> QED BY <3>2, <2>2 DEF IsPlace
  <2> QED BY <2>1, <2>2
<1>5. Ahead(t) = r
  BY <1>3, <1>4 DEF Ahead, From
<1> QED BY <1>0, <1>1, <1>5

(***************************************************************************)
(* Where the threads are.                                                  *)
(***************************************************************************)
HeadCalls == {"NextEvent", "PeekEvent"}
Waits == (Scans \ CheckCalls) \cup HeadCalls

\* Among the loops that take in what has come.
Polling(l, r) ==
    l \in {"Poll", "XError", "UserErrorHandler"} \/ (l = "Asleep" /\ r.back = "XError")

ModeFits(r) ==
    /\ r.mode \in {"Read", "Drain"} => r.call \in Waits
    /\ r.mode = "Check" => r.call \in CheckCalls
    /\ r.mode = "Pending" => r.call = "Pending"
    /\ r.mode = "Sync" => r.call = "SyncDiscard"

\* A thread at the label l with the locals r is in a call that gets there.
Fits(l, r) ==
    /\ l = "Scan" => r.call \in Scans
    /\ l \in {"Head", "TakeHead"} => r.call \in HeadCalls
    /\ l = "AfterRead" => r.call \in Scans \cup HeadCalls
    /\ l = "PutBack" => r.call = "PutBack"
    /\ l = "Pending" => r.call = "Pending"
    /\ l \in {"RoundTrip", "WaitForReply", "Discard"} => r.call = "SyncDiscard"
    /\ l \in {"ReadLoop", "WaitForEvent"} => r.call \in Waits
    /\ l = "Asleep" /\ r.back = "ReadLoop" => r.call \in Waits
    /\ l = "Asleep" => r.back \in {"ReadLoop", "XError"}
    /\ Polling(l, r) => ModeFits(r)
    /\ Polling(l, r) /\ l # "Poll" => r.resume = IF r.mode = "Read" THEN "ReadLoop" ELSE "Poll"
    /\ (Polling(l, r) \/ l = "AfterRead") /\ r.call \in CheckCalls => r.n # 0

Control == \A t \in Threads : Fits(pc[t], local[t])

\* What a thread keeps while it waits.
SameSearch(r, s) ==
    /\ r.call = s.call /\ r.wants = s.wants /\ r.prev = s.prev
    /\ r.qe_serial = s.qe_serial /\ r.n = s.n /\ r.serial = s.serial
    /\ r.got = s.got /\ r.tested = s.tested

Moved(t, l, r) ==
    /\ pc' = [pc EXCEPT ![t] = l] /\ local' = [local EXCEPT ![t] = r]
    /\ l \in Labels /\ r \in Locals
    /\ Fits(l, r)

\* A move changes the place and the locals of its thread only.
LEMMA MovedFacts ==
    ASSUME TypeOK, NEW t \in Threads, NEW l, NEW r, Moved(t, l, r)
    PROVE  /\ pc' \in [Threads -> Labels] /\ local' \in [Threads -> Locals]
           /\ pc'[t] = l /\ local'[t] = r
           /\ \A u \in Threads : u # t => pc'[u] = pc[u] /\ local'[u] = local[u]
           /\ Control => Control'
<1>1. /\ pc' \in [Threads -> Labels] /\ local' \in [Threads -> Locals]
      /\ pc'[t] = l /\ local'[t] = r
      /\ \A u \in Threads : u # t => pc'[u] = pc[u] /\ local'[u] = local[u]
  BY DEF TypeOK, Moved
<1>2. ASSUME Control, NEW u \in Threads PROVE Fits(pc[u], local[u])'
  <2>1. CASE u = t
    BY <1>1, <2>1 DEF Moved
  <2>2. CASE u # t
    <3>1. Fits(pc[u], local[u])
      BY <1>2 DEF Control
    <3> QED BY <3>1, <1>1, <2>2
  <2> QED BY <2>1, <2>2
<1> QED BY <1>1, <1>2 DEF Control

\* A thread that has not moved.
LEMMA NotMoved ==
    ASSUME TypeOK, Control, NEW t \in Threads, UNCHANGED <<pc, local>>
    PROVE  Moved(t, pc[t], local[t])
BY DEF TypeOK, Control, Moved

\* The types of the locals.
LEMMA LocalTypes ==
    ASSUME TypeOK, NEW t \in Threads
    PROVE  /\ local \in [Threads -> Locals] /\ local[t] \in Locals
           /\ local[t].call \in Calls /\ local[t].wants \in SUBSET Kinds
           /\ local[t].prev \in {Nil} \cup Elements
           /\ local[t].qe_serial \in Nat /\ local[t].n \in 0..2 /\ local[t].serial \in Nat
           /\ local[t].mode \in {"Read", "Drain", "Check", "Pending", "Sync"}
           /\ local[t].back \in Labels /\ local[t].resume \in Labels
           /\ local[t].got \in Nat /\ local[t].tested \in SUBSET Nat
<1>1. local \in [Threads -> Locals] /\ local[t] \in Locals
  BY DEF TypeOK
<1> QED BY <1>1 DEF Locals

-----------------------------------------------------------------------------
(***************************************************************************)
(* How each action moves its thread.                                       *)
(***************************************************************************)
LEMMA MoveUnlock ==
    ASSUME TypeOK, Control, NEW t \in Threads, UnlockDisplay(t)
    PROVE  Moved(t, "Idle", local[t])
<1>1. pc' = [pc EXCEPT ![t] = "Idle"] /\ local' = [local EXCEPT ![t] = local[t]]
  BY DEF TypeOK, UnlockDisplay, Goto
<1>2. "Idle" \in Labels /\ Fits("Idle", local[t])
  BY DEF Labels, Fits, Polling
<1> QED BY <1>1, <1>2, LocalTypes DEF Moved

\* A thread that got the lock again goes on where it waited.
LEMMA MoveResume ==
    ASSUME TypeOK, Control, NEW t \in Threads, Resume(t)
    PROVE  Moved(t, local[t].back, local[t])
<1>1. pc' = [pc EXCEPT ![t] = local[t].back] /\ local' = [local EXCEPT ![t] = local[t]]
      /\ pc[t] = "Asleep"
  BY DEF TypeOK, Resume, Goto, At
<1>2. Fits("Asleep", local[t])
  BY <1>1 DEF Control
<1>3. Fits(local[t].back, local[t]) /\ local[t].back \in {"ReadLoop", "XError"}
  BY <1>2 DEF Fits, Polling
<1> QED BY <1>1, <1>3, LocalTypes DEF Moved

\* The loop of _XReadEvents: src/src/xcb_io.c:366-410.
LEMMA MoveReadLoop ==
    ASSUME TypeOK, Control, NEW t \in Threads, ReadLoop(t)
    PROVE  \E l, r : /\ Moved(t, l, r) /\ SameSearch(r, local[t])
                     /\ l \in {"AfterRead", "Poll", "Asleep", "WaitForEvent"}
<1>1. pc[t] = "ReadLoop" /\ Fits("ReadLoop", local[t])
  BY DEF Control, ReadLoop, At
<1>2. CASE local' = [local EXCEPT ![t].mode = "Drain"] /\ Goto(t, IF event_waiter THEN "AfterRead" ELSE "Poll")
  <2> DEFINE r == [local[t] EXCEPT !.mode = "Drain"]
  <2>1. r \in Locals /\ SameSearch(r, local[t]) /\ r.mode = "Drain"
    BY LocalTypes DEF Locals, SameSearch
  <2>2. local' = [local EXCEPT ![t] = r]
    BY <1>2, LocalTypes
  <2>3. ASSUME NEW l \in {"AfterRead", "Poll"} PROVE Fits(l, r) /\ l \in Labels
    <3>1. r.call \in Waits
      BY <1>1, <2>1 DEF Fits, SameSearch
    <3> HIDE DEF r
    <3> QED BY <3>1, <2>1 DEF Fits, Polling, ModeFits, Waits, HeadCalls, Scans, CheckCalls, IfCalls, Labels
  <2> HIDE DEF r
  <2>4. PICK l \in {"AfterRead", "Poll"} : Goto(t, l)
    BY <1>2
  <2>5. Moved(t, l, r)
    BY <2>1, <2>2, <2>3, <2>4 DEF Moved, Goto
  <2> QED BY <2>1, <2>5
<1>3. CASE local' = [local EXCEPT ![t].back = "ReadLoop"] /\ Goto(t, "Asleep")
  <2> DEFINE r == [local[t] EXCEPT !.back = "ReadLoop"]
  <2>1. r \in Locals /\ SameSearch(r, local[t]) /\ r.back = "ReadLoop"
    BY LocalTypes DEF Locals, SameSearch, Labels
  <2>2. local' = [local EXCEPT ![t] = r]
    BY <1>3, LocalTypes
  <2>3. Fits("Asleep", r) /\ "Asleep" \in Labels
    <3>1. r.call \in Waits
      BY <1>1, <2>1 DEF Fits, SameSearch
    <3> HIDE DEF r
    <3> QED BY <3>1, <2>1 DEF Fits, Polling, Labels
  <2> HIDE DEF r
  <2>5. Moved(t, "Asleep", r)
    BY <2>1, <2>2, <2>3, <1>3 DEF Moved, Goto
  <2> QED BY <2>1, <2>5
<1>4. CASE UNCHANGED local /\ Goto(t, "WaitForEvent")
  <2>1. Fits("WaitForEvent", local[t]) /\ "WaitForEvent" \in Labels
    BY <1>1 DEF Fits, Polling, Labels
  <2>2. local' = [local EXCEPT ![t] = local[t]]
    BY <1>4, LocalTypes
  <2>3. Moved(t, "WaitForEvent", local[t])
    BY <2>1, <2>2, <1>4, LocalTypes DEF Moved, Goto
  <2> QED BY <2>3 DEF SameSearch
<1> QED BY <1>2, <1>3, <1>4 DEF ReadLoop

\* After events were read: src/src/IfEvent.c:68-73.
LEMMA MoveAfterRead ==
    ASSUME TypeOK, Control, NEW t \in Threads, AfterRead(t)
    PROVE  \/ /\ local[t].call \in Scans
              /\ \E r : /\ Moved(t, "Scan", r)
                        /\ r.call = local[t].call /\ r.wants = local[t].wants
                        /\ r.prev = IF Snatched(t) THEN Nil ELSE local[t].prev
                        /\ r.qe_serial = local[t].qe_serial /\ r.serial = local[t].serial
                        /\ r.got = local[t].got /\ r.tested = local[t].tested
           \/ /\ local[t].call \in HeadCalls
              /\ Moved(t, "TakeHead", local[t])
<1>1. pc[t] = "AfterRead" /\ Fits("AfterRead", local[t])
  BY DEF Control, AfterRead, At
<1>2. CASE local[t].call \in Scans
  <2> DEFINE p == IF Snatched(t) THEN Nil ELSE local[t].prev
             n == Count(t)
             r == [local[t] EXCEPT !.prev = p, !.n = n]
  <2>1. p \in {Nil} \cup Elements /\ n \in 0..2
    BY <1>1, <1>2, LocalTypes DEF Fits, Count
  <2>2. local' = [local EXCEPT ![t] = r] /\ Goto(t, "Scan")
    BY <1>2, LocalTypes DEF AfterRead
  <2>3. r.call = local[t].call /\ r.wants = local[t].wants /\ r.prev = p
        /\ r.qe_serial = local[t].qe_serial /\ r.serial = local[t].serial
        /\ r.got = local[t].got /\ r.tested = local[t].tested
    BY LocalTypes DEF Locals
  <2>4. r \in Locals
    <3> HIDE DEF p, n
    <3> QED BY <2>1, LocalTypes DEF Locals
  <2>5. Fits("Scan", r) /\ "Scan" \in Labels
    BY <1>2, <2>3 DEF Fits, Polling, Labels
  <2> HIDE DEF r
  <2> QED BY <1>2, <2>2, <2>3, <2>4, <2>5 DEF Moved, Goto
<1>3. CASE local[t].call \notin Scans
  <2>1. local[t].call \in HeadCalls
    BY <1>1, <1>3 DEF Fits
  <2>2. local' = [local EXCEPT ![t] = local[t]] /\ Goto(t, "TakeHead")
    BY <1>3, LocalTypes DEF AfterRead
  <2>3. Fits("TakeHead", local[t]) /\ "TakeHead" \in Labels
    BY <2>1 DEF Fits, Polling, Labels
  <2> QED BY <2>1, <2>2, <2>3, LocalTypes DEF Moved, Goto
<1> QED BY <1>2, <1>3

\* XNextEvent looks at the queue.
LEMMA MoveNextEvent ==
    ASSUME TypeOK, Control, NEW t \in Threads, NextEvent(t)
    PROVE  /\ local[t].call \in HeadCalls
           /\ \E l, r : /\ Moved(t, l, r) /\ l \in {"TakeHead", "ReadLoop"}
                        /\ r.call = local[t].call /\ r.got = local[t].got
<1>1. local[t].call \in HeadCalls
  BY DEF Control, NextEvent, At, Fits
<1>2. CASE head # Nil
  <2>1. local' = [local EXCEPT ![t] = local[t]] /\ Goto(t, "TakeHead")
    BY <1>2, LocalTypes DEF NextEvent
  <2>2. Fits("TakeHead", local[t]) /\ "TakeHead" \in Labels
    BY <1>1 DEF Fits, Polling, Labels
  <2>3. Moved(t, "TakeHead", local[t])
    BY <2>1, <2>2, LocalTypes DEF Moved, Goto
  <2> QED BY <1>1, <2>3
<1>3. CASE head = Nil
  <2> DEFINE r == [local[t] EXCEPT !.serial = next_event_serial_num, !.mode = "Read"]
  <2>1. local' = [local EXCEPT ![t] = r] /\ Goto(t, "ReadLoop")
    BY <1>3, LocalTypes DEF NextEvent
  <2>2. r \in Locals /\ r.call = local[t].call /\ r.got = local[t].got
    <3>1. next_event_serial_num \in Nat /\ local[t] \in Locals
      BY LocalTypes DEF TypeOK
    <3> QED BY <3>1 DEF Locals
  <2> HIDE DEF r
  <2>3. Fits("ReadLoop", r) /\ "ReadLoop" \in Labels
    BY <1>1, <2>2 DEF Fits, Polling, Labels, Waits
  <2>4. Moved(t, "ReadLoop", r)
    BY <2>1, <2>2, <2>3 DEF Moved, Goto
  <2> QED BY <1>1, <2>2, <2>4
<1> QED BY <1>2, <1>3

\* XNextEvent and XPeekEvent, at the head of the queue.
LEMMA MoveTakeHead ==
    ASSUME TypeOK, Control, NEW t \in Threads, TakeHead(t)
    PROVE  /\ local[t].call \in HeadCalls
           /\ \/ UNCHANGED <<queueVars, returned>> /\ Moved(t, "Unlock", local[t])
              \/ /\ head # Nil /\ Deq(Nil, head)
                 /\ \E r : /\ Moved(t, "Unlock", r) /\ r.call = local[t].call
                           /\ r.got = event[head]
<1>1. local[t].call \in HeadCalls
  BY DEF Control, TakeHead, At, Fits
<1>2. Fits("Unlock", local[t]) /\ "Unlock" \in Labels /\ Goto(t, "Unlock")
  BY DEF Fits, Polling, Labels, TakeHead
<1>3. CASE UNCHANGED <<queueVars, returned, local>>
  <2>1. local' = [local EXCEPT ![t] = local[t]]
    BY <1>3, LocalTypes
  <2>2. Moved(t, "Unlock", local[t])
    BY <1>2, <2>1, LocalTypes DEF Moved, Goto
  <2> QED BY <1>1, <1>3, <2>2
<1>4. CASE /\ head # Nil /\ Deq(Nil, head)
           /\ local' = [local EXCEPT ![t].got = event[head]]
  <2> DEFINE r == [local[t] EXCEPT !.got = event[head]]
  <2>1. local' = [local EXCEPT ![t] = r]
    BY <1>4, LocalTypes
  <2>2. event[head] \in Nat
    BY <1>4 DEF TypeOK
  <2>3. r \in Locals /\ r.call = local[t].call /\ r.got = event[head]
    BY <2>2, LocalTypes DEF Locals
  <2> HIDE DEF r
  <2>4. Fits("Unlock", r)
    BY DEF Fits, Polling
  <2>5. Moved(t, "Unlock", r)
    BY <1>2, <2>1, <2>3, <2>4 DEF Moved, Goto
  <2> QED BY <1>1, <1>4, <2>3, <2>5
<1> QED BY <1>3, <1>4 DEF TakeHead

\* XPutBackEvent ends its call.
LEMMA MovePutBack ==
    ASSUME TypeOK, Control, NEW t \in Threads, PutBack(t)
    PROVE  /\ local[t].call = "PutBack"
           /\ \/ UNCHANGED <<queueVars, returned>> /\ Moved(t, "Unlock", local[t])
              \/ /\ local[t].got # 0
                 /\ event' = [event EXCEPT ![NewElement] = local[t].got]
                 /\ \E r : /\ Moved(t, "Unlock", r) /\ r.call = local[t].call
                           /\ r.got = 0
<1>1. local[t].call = "PutBack"
  BY DEF Control, PutBack, At, Fits
<1>2. Fits("Unlock", local[t]) /\ "Unlock" \in Labels /\ Goto(t, "Unlock")
  BY DEF Fits, Polling, Labels, PutBack
<1>3. CASE local[t].got = 0
  <2>1. local' = [local EXCEPT ![t] = local[t]] /\ UNCHANGED <<queueVars, returned>>
    BY <1>3, LocalTypes DEF PutBack
  <2>2. Moved(t, "Unlock", local[t])
    BY <1>2, <2>1, LocalTypes DEF Moved, Goto
  <2> QED BY <1>1, <2>1, <2>2
<1>4. CASE local[t].got # 0
  <2> DEFINE r == [local[t] EXCEPT !.got = 0]
  <2>1. local' = [local EXCEPT ![t] = r] /\ event' = [event EXCEPT ![NewElement] = local[t].got]
    BY <1>4, LocalTypes DEF PutBack
  <2>3. r \in Locals /\ r.call = local[t].call /\ r.got = 0
    BY LocalTypes DEF Locals
  <2> HIDE DEF r
  <2>4. Fits("Unlock", r)
    BY DEF Fits, Polling
  <2>5. Moved(t, "Unlock", r)
    BY <1>2, <2>1, <2>3, <2>4 DEF Moved, Goto
  <2> QED BY <1>1, <1>4, <2>1, <2>3, <2>5
<1> QED BY <1>3, <1>4

\* XSync waits for the reply.
LEMMA MoveRoundTrip ==
    ASSUME TypeOK, Control, NEW t \in Threads, RoundTrip(t)
    PROVE  Moved(t, "WaitForReply", local[t]) /\ local[t].call = "SyncDiscard"
<1>1. local[t].call = "SyncDiscard"
  BY DEF Control, RoundTrip, At, Fits
<1>2. pc' = [pc EXCEPT ![t] = "WaitForReply"] /\ local' = [local EXCEPT ![t] = local[t]]
  BY DEF TypeOK, RoundTrip, Goto
<1>3. "WaitForReply" \in Labels /\ Fits("WaitForReply", local[t])
  BY <1>1 DEF Labels, Fits, Polling
<1> QED BY <1>1, <1>2, <1>3, LocalTypes DEF Moved

\* XSync has the reply.
LEMMA MoveWaitForReply ==
    ASSUME TypeOK, Control, NEW t \in Threads, WaitForReply(t)
    PROVE  /\ local[t].call = "SyncDiscard"
           /\ \E l, r : /\ Moved(t, l, r) /\ l \in {"Discard", "Poll"}
                        /\ SameSearch(r, local[t])
<1>1. local[t].call = "SyncDiscard"
  BY DEF Control, WaitForReply, At, Fits
<1> DEFINE r == [local[t] EXCEPT !.mode = "Sync"]
<1>2. local' = [local EXCEPT ![t] = r]
  BY LocalTypes DEF WaitForReply
<1>3. r \in Locals /\ SameSearch(r, local[t]) /\ r.mode = "Sync"
  BY LocalTypes DEF Locals, SameSearch
<1> HIDE DEF r
<1>4. ASSUME NEW l \in {"Discard", "Poll"} PROVE Fits(l, r) /\ l \in Labels
  <2>1. r.call = "SyncDiscard"
    BY <1>1, <1>3 DEF SameSearch
  <2> QED BY <2>1, <1>3 DEF Fits, Polling, ModeFits, Labels, CheckCalls
<1>5. PICK l \in {"Discard", "Poll"} : Goto(t, l)
  BY DEF WaitForReply
<1>6. Moved(t, l, r)
  BY <1>2, <1>3, <1>4, <1>5 DEF Moved, Goto
<1> QED BY <1>1, <1>3, <1>6

\* XSync frees the queue and ends.
LEMMA MoveDiscard ==
    ASSUME TypeOK, Control, NEW t \in Threads, Discard(t)
    PROVE  Moved(t, "Unlock", local[t]) /\ local[t].call = "SyncDiscard"
<1>1. local[t].call = "SyncDiscard"
  BY DEF Control, Discard, At, Fits
<1>2. pc' = [pc EXCEPT ![t] = "Unlock"] /\ local' = [local EXCEPT ![t] = local[t]]
  BY DEF TypeOK, Discard, Goto
<1>3. "Unlock" \in Labels /\ Fits("Unlock", local[t])
  BY DEF Labels, Fits, Polling
<1> QED BY <1>1, <1>2, <1>3, LocalTypes DEF Moved

\* XPending looks for events.
LEMMA MovePending ==
    ASSUME TypeOK, Control, NEW t \in Threads, Pending(t)
    PROVE  /\ local[t].call = "Pending"
           /\ \E l, r : /\ Moved(t, l, r) /\ l \in {"Unlock", "Poll"}
                        /\ SameSearch(r, local[t])
<1>1. local[t].call = "Pending"
  BY DEF Control, Pending, At, Fits
<1> DEFINE r == [local[t] EXCEPT !.mode = "Pending"]
<1>2. local' = [local EXCEPT ![t] = r]
  BY LocalTypes DEF Pending
<1>3. r \in Locals /\ SameSearch(r, local[t]) /\ r.mode = "Pending"
  BY LocalTypes DEF Locals, SameSearch
<1> HIDE DEF r
<1>4. ASSUME NEW l \in {"Unlock", "Poll"} PROVE Fits(l, r) /\ l \in Labels
  <2>1. r.call = "Pending"
    BY <1>1, <1>3 DEF SameSearch
  <2> QED BY <2>1, <1>3 DEF Fits, Polling, ModeFits, Labels, CheckCalls
<1>5. PICK l \in {"Unlock", "Poll"} : Goto(t, l)
  BY DEF Pending
<1>6. Moved(t, l, r)
  BY <1>2, <1>3, <1>4, <1>5 DEF Moved, Goto
<1> QED BY <1>1, <1>3, <1>6

\* A thread that waited for events goes to take the lock.
LEMMA MoveWaitForEvent ==
    ASSUME TypeOK, Control, NEW t \in Threads, WaitForEvent(t)
    PROVE  \E r : Moved(t, "Poll", r) /\ SameSearch(r, local[t])
<1>1. local[t].call \in Waits
  BY DEF Control, WaitForEvent, At, Fits
<1> DEFINE r == [local[t] EXCEPT !.mode = "Read"]
<1>2. local' = [local EXCEPT ![t] = r] /\ Goto(t, "Poll")
  BY LocalTypes DEF WaitForEvent
<1>3. r \in Locals /\ SameSearch(r, local[t]) /\ r.mode = "Read"
  BY LocalTypes DEF Locals, SameSearch
<1> HIDE DEF r
<1>4. Fits("Poll", r) /\ "Poll" \in Labels
  <2>1. r.call \in Waits
    BY <1>1, <1>3 DEF SameSearch
  <2> QED BY <2>1, <1>3 DEF Fits, Polling, ModeFits, Labels, Waits, Scans, IfCalls, HeadCalls, CheckCalls
<1>5. Moved(t, "Poll", r)
  BY <1>2, <1>3, <1>4 DEF Moved, Goto
<1> QED BY <1>3, <1>5

\* Where Poll goes on.
LEMMA AfterPollFits ==
    ASSUME TypeOK, NEW t \in Threads, Fits("Poll", local[t])
    PROVE  /\ Fits(AfterPoll(t), local[t])
           /\ AfterPoll(t) \in {"AfterRead", "Discard", "Unlock", "ReadLoop"}
           /\ AfterPoll(t) = "Unlock" => local[t].call = "Pending"
<1>1. ModeFits(local[t]) /\ local[t].call \in Calls
      /\ (local[t].call \in CheckCalls => local[t].n # 0)
  BY LocalTypes DEF Fits, Polling
<1>2. local[t].mode \in {"Read", "Drain", "Check", "Pending", "Sync"}
  BY LocalTypes
<1>3. CASE local[t].mode \in {"Drain", "Check"}
  <2>1. AfterPoll(t) = "AfterRead"
    BY <1>3 DEF AfterPoll
  <2>2. local[t].call \in Scans \cup HeadCalls
    BY <1>1, <1>3 DEF ModeFits, Waits, CheckCalls, Scans, IfCalls
  <2> QED BY <2>1, <2>2, <1>1 DEF Fits, Polling
<1>4. CASE local[t].mode = "Sync"
  <2>1. AfterPoll(t) = "Discard" /\ local[t].call = "SyncDiscard"
    BY <1>1, <1>4 DEF AfterPoll, ModeFits
  <2> QED BY <2>1 DEF Fits, Polling
<1>5. CASE local[t].mode = "Pending"
  <2>1. AfterPoll(t) = "Unlock" /\ local[t].call = "Pending"
    BY <1>1, <1>5 DEF AfterPoll, ModeFits
  <2> QED BY <2>1 DEF Fits, Polling
<1>6. CASE local[t].mode = "Read"
  <2>1. AfterPoll(t) = "ReadLoop" /\ local[t].call \in Waits
    BY <1>1, <1>6 DEF AfterPoll, ModeFits
  <2> QED BY <2>1 DEF Fits, Polling
<1> QED BY <1>2, <1>3, <1>4, <1>5, <1>6

\* The four ends of Poll.
LEMMA MovePoll ==
    ASSUME TypeOK, Control, NEW t \in Threads, Poll(t)
    PROVE  /\ pc[t] = "Poll"
           /\ \E l, r :
                 /\ Moved(t, l, r) /\ SameSearch(r, local[t])
                 /\ \/ l = "Poll" /\ r = local[t] /\ UNCHANGED <<queueVars, arrived>>
                    \/ /\ l = AfterPoll(t)
                       /\ l \in {"AfterRead", "Discard", "Unlock", "ReadLoop"}
                       /\ l = "Unlock" => local[t].call = "Pending"
                       /\ UNCHANGED <<queueVars, arrived>>
                    \/ /\ l = "XError" /\ arrived # <<>> /\ kind[Head(arrived)] = "error"
                       /\ arrived' = Tail(arrived) /\ UNCHANGED queueVars
                    \/ /\ l \in {"Poll", "ReadLoop"}
                       /\ arrived # <<>> /\ kind[Head(arrived)] # "error"
                       /\ arrived' = Tail(arrived) /\ Enq(Head(arrived))
<1> DEFINE again == IF local[t].mode = "Read" THEN "ReadLoop" ELSE "Poll"
<1>1. pc[t] = "Poll" /\ Fits("Poll", local[t])
  BY DEF Control, Poll, At
<1>2. again \in {"Poll", "ReadLoop"} /\ again \in Labels /\ Fits(again, local[t])
  <2>1. CASE local[t].mode = "Read"
    <3>1. local[t].call \in Waits
      BY <1>1, <2>1 DEF Fits, Polling, ModeFits
    <3> QED BY <3>1, <2>1 DEF Fits, Polling, Labels
  <2>2. CASE local[t].mode # "Read"
    BY <2>2, <1>1 DEF Labels
  <2> QED BY <2>1, <2>2
<1>3. CASE UNCHANGED <<queueVars, arrived, pc, local>>
  <2>1. Moved(t, "Poll", local[t])
    BY <1>1, <1>3, NotMoved
  <2> QED BY <1>1, <1>3, <2>1 DEF SameSearch
<1>4. CASE Goto(t, AfterPoll(t)) /\ UNCHANGED <<queueVars, arrived, local>>
  <2>1. local' = [local EXCEPT ![t] = local[t]]
    BY <1>4, LocalTypes
  <2>2. AfterPoll(t) \in Labels
    BY <1>1, AfterPollFits DEF Labels
  <2>3. Moved(t, AfterPoll(t), local[t])
    BY <1>1, <1>4, <2>1, <2>2, AfterPollFits, LocalTypes DEF Moved, Goto
  <2> QED BY <1>1, <1>4, <2>3, AfterPollFits DEF SameSearch
<1>5. CASE /\ arrived # <<>> /\ kind[Head(arrived)] = "error"
           /\ arrived' = Tail(arrived)
           /\ local' = [local EXCEPT ![t].resume = again]
           /\ Goto(t, "XError")
           /\ UNCHANGED queueVars
  <2> DEFINE r == [local[t] EXCEPT !.resume = again]
  <2>1. local' = [local EXCEPT ![t] = r]
    BY <1>5, LocalTypes
  <2>2. r \in Locals /\ SameSearch(r, local[t]) /\ r.resume = again /\ r.mode = local[t].mode
    <3> HIDE DEF again
    <3> QED BY <1>2, LocalTypes DEF Locals, SameSearch
  <2> HIDE DEF r
  <2>3. Fits("XError", r) /\ "XError" \in Labels
    <3>1. ModeFits(local[t]) /\ (local[t].call \in CheckCalls => local[t].n # 0)
      BY <1>1 DEF Fits, Polling
    <3>2. ModeFits(r) /\ (r.call \in CheckCalls => r.n # 0)
      BY <3>1, <2>2 DEF ModeFits, SameSearch
    <3> QED BY <3>2, <2>2 DEF Fits, Polling, Labels
  <2>4. Moved(t, "XError", r)
    BY <1>5, <2>1, <2>2, <2>3 DEF Moved, Goto
  <2> QED BY <1>1, <1>5, <2>2, <2>4
<1>6. CASE /\ arrived # <<>> /\ kind[Head(arrived)] # "error"
           /\ Enq(Head(arrived))
           /\ arrived' = Tail(arrived)
           /\ Goto(t, again)
           /\ UNCHANGED local
  <2>1. local' = [local EXCEPT ![t] = local[t]]
    BY <1>6, LocalTypes
  <2> HIDE DEF again
  <2>2. Moved(t, again, local[t])
    BY <1>2, <1>6, <2>1, LocalTypes DEF Moved, Goto
  <2> QED BY <1>1, <1>2, <1>6, <2>2 DEF SameSearch
<1> QED BY <1>3, <1>4, <1>5, <1>6 DEF Poll

\* An error goes to the handler or is ignored.
LEMMA MoveXError ==
    ASSUME TypeOK, Control, NEW t \in Threads, XError(t)
    PROVE  \E l, r : /\ Moved(t, l, r) /\ SameSearch(r, local[t])
                     /\ l \in {"Asleep", "UserErrorHandler"}
<1>1. pc[t] = "XError" /\ Fits("XError", local[t])
  BY DEF Control, XError, At
<1>2. /\ ModeFits(local[t]) /\ (local[t].call \in CheckCalls => local[t].n # 0)
      /\ local[t].resume = IF local[t].mode = "Read" THEN "ReadLoop" ELSE "Poll"
  BY <1>1 DEF Fits, Polling
<1>3. CASE local' = [local EXCEPT ![t].back = "XError"] /\ Goto(t, "Asleep")
  <2> DEFINE r == [local[t] EXCEPT !.back = "XError"]
  <2>1. local' = [local EXCEPT ![t] = r]
    BY <1>3, LocalTypes
  <2>2. /\ r \in Locals /\ SameSearch(r, local[t]) /\ r.back = "XError"
        /\ r.resume = local[t].resume /\ r.mode = local[t].mode
    BY LocalTypes DEF Locals, SameSearch, Labels
  <2> HIDE DEF r
  <2>3. Fits("Asleep", r) /\ "Asleep" \in Labels
    <3>1. /\ ModeFits(r) /\ (r.call \in CheckCalls => r.n # 0)
          /\ r.resume = IF r.mode = "Read" THEN "ReadLoop" ELSE "Poll"
      BY <1>2, <2>2 DEF ModeFits, SameSearch
    <3> QED BY <3>1, <2>2 DEF Fits, Polling, Labels
  <2>4. Moved(t, "Asleep", r)
    BY <1>3, <2>1, <2>2, <2>3 DEF Moved, Goto
  <2> QED BY <2>2, <2>4
<1>4. CASE UNCHANGED local /\ Goto(t, "UserErrorHandler")
  <2>1. local' = [local EXCEPT ![t] = local[t]]
    BY <1>4, LocalTypes
  <2>2. Fits("UserErrorHandler", local[t]) /\ "UserErrorHandler" \in Labels
    BY <1>2 DEF Fits, Polling, Labels
  <2>3. Moved(t, "UserErrorHandler", local[t])
    BY <1>4, <2>1, <2>2, LocalTypes DEF Moved, Goto
  <2> QED BY <2>3 DEF SameSearch
<1> QED BY <1>3, <1>4 DEF XError

\* The error handler returns.
LEMMA MoveUserErrorHandler ==
    ASSUME TypeOK, Control, NEW t \in Threads, UserErrorHandler(t)
    PROVE  Moved(t, local[t].resume, local[t]) /\ local[t].resume \in {"Poll", "ReadLoop"}
<1>1. pc[t] = "UserErrorHandler" /\ Fits("UserErrorHandler", local[t])
  BY DEF Control, UserErrorHandler, At
<1>2. /\ ModeFits(local[t]) /\ (local[t].call \in CheckCalls => local[t].n # 0)
      /\ local[t].resume = IF local[t].mode = "Read" THEN "ReadLoop" ELSE "Poll"
  BY <1>1 DEF Fits, Polling
<1>3. local[t].resume \in {"Poll", "ReadLoop"}
  BY <1>2
<1>4. Fits(local[t].resume, local[t]) /\ local[t].resume \in Labels
  <2>1. CASE local[t].mode = "Read"
    <3>1. local[t].call \in Waits
      BY <1>2, <2>1 DEF ModeFits
    <3> QED BY <3>1, <2>1, <1>2 DEF Fits, Polling, Labels
  <2>2. CASE local[t].mode # "Read"
    BY <2>2, <1>2 DEF Fits, Polling, Labels
  <2> QED BY <2>1, <2>2
<1>5. local' = [local EXCEPT ![t] = local[t]] /\ Goto(t, local[t].resume)
  BY LocalTypes DEF UserErrorHandler
<1> QED BY <1>3, <1>4, <1>5, LocalTypes DEF Moved, Goto

\* The first call of a script, and the rest.
LEMMA HeadTailTypes ==
    ASSUME NEW S, NEW s \in Seq(S), s # <<>>
    PROVE  Head(s) \in S /\ Tail(s) \in Seq(S)
OBVIOUS

\* What is left of the scripts.
ScriptsOK == script \in [Threads -> Seq([call : Calls, wants : SUBSET Kinds])]

CallBegins(t, l, r) ==
    /\ Moved(t, l, r) /\ l \in {"Scan", "Head", "RoundTrip", "PutBack", "Pending"}
    /\ Acquired(t, FALSE) /\ EnterIfEvent(t, r.call)
    /\ script[t] # <<>> /\ script' = [script EXCEPT ![t] = Tail(@)]
    /\ r.call = Head(script[t]).call
    /\ r.call \in Scans => l = "Scan"
    /\ r.prev = Nil /\ r.qe_serial = 0 /\ r.tested = {}
    /\ r.got = local[t].got
    /\ UNCHANGED sleeping

\* A call begins, or must wait for the user lock.
LEMMA MoveLock ==
    ASSUME TypeOK, Control, ScriptsOK, NEW t \in Threads, LockDisplay(t)
    PROVE  /\ pc[t] = "Idle" /\ ScriptsOK'
           /\ \/ /\ UNCHANGED <<pc, local, script, in_ifevent, ifevent_thread>> /\ MustWait(t)
              \/ \E l, r : CallBegins(t, l, r)
<1> DEFINE c == Head(script[t])
<1>1. pc[t] = "Idle" /\ script[t] # <<>> /\ script[t] \in Seq([call : Calls, wants : SUBSET Kinds])
  BY DEF LockDisplay, At, ScriptsOK
<1>2. c.call \in Calls /\ c.wants \in SUBSET Kinds
      /\ Tail(script[t]) \in Seq([call : Calls, wants : SUBSET Kinds])
  <2>1. c \in [call : Calls, wants : SUBSET Kinds]
        /\ Tail(script[t]) \in Seq([call : Calls, wants : SUBSET Kinds])
    BY <1>1, HeadTailTypes
  <2> QED BY <2>1
<1>3. CASE MustWait(t) /\ UNCHANGED <<pc, script, local, ifeventVars>>
  BY <1>1, <1>3 DEF ScriptsOK, ifeventVars
<1>4. CASE /\ Acquired(t, FALSE)
           /\ EnterIfEvent(t, c.call)
           /\ Goto(t, FirstLabel(c.call))
           /\ script' = [script EXCEPT ![t] = Tail(@)]
           /\ local' = [local EXCEPT ![t].call = c.call, ![t].wants = c.wants,
                                     ![t].prev = Nil, ![t].qe_serial = 0,
                                     ![t].n = 2, ![t].tested = {}]
           /\ UNCHANGED sleeping
  <2> DEFINE r == [local[t] EXCEPT !.call = c.call, !.wants = c.wants, !.prev = Nil,
                                   !.qe_serial = 0, !.n = 2, !.tested = {}]
             l == FirstLabel(c.call)
  <2>1. ScriptsOK'
    BY <1>2, <1>4 DEF ScriptsOK
  <2> HIDE DEF c
  <2>2. local' = [local EXCEPT ![t] = r]
    BY <1>4, LocalTypes
  <2>3. /\ r \in Locals /\ r.call = c.call /\ r.prev = Nil /\ r.qe_serial = 0 /\ r.tested = {}
        /\ r.got = local[t].got /\ r.n = 2
    <3> DEFINE p == Nil
               q == 0
               n == 2
               e == {}
    <3>1. /\ p \in {Nil} \cup Elements /\ q \in Nat /\ n \in 0..2 /\ e \in SUBSET Nat
          /\ local[t] \in Locals
      BY LocalTypes
    <3>2. r = [local[t] EXCEPT !.call = c.call, !.wants = c.wants, !.prev = p,
                               !.qe_serial = q, !.n = n, !.tested = e]
      OBVIOUS
    <3> HIDE DEF r, p, q, n, e
    <3>3. /\ r \in Locals /\ r.call = c.call /\ r.prev = p /\ r.qe_serial = q
          /\ r.tested = e /\ r.got = local[t].got /\ r.n = n
      BY <1>2, <3>1, <3>2 DEF Locals
    <3> QED BY <3>3 DEF p, q, n, e
  <2>4. /\ l \in Labels /\ l \in {"Scan", "Head", "RoundTrip", "PutBack", "Pending"}
        /\ c.call \in Scans => l = "Scan"
        /\ Fits(l, r)
    <3> HIDE DEF r
    <3>0. c.call \in Scans \cup {"NextEvent", "PeekEvent", "PutBack", "SyncDiscard", "Pending"}
      BY <1>2 DEF Calls
    <3>1. CASE c.call \in Scans
      <4>1. l = "Scan"
        BY <3>1 DEF FirstLabel, Scans, IfCalls
      <4> QED BY <4>1, <3>1, <2>3 DEF Fits, Polling, Labels
    <3>2. CASE c.call \in {"NextEvent", "PeekEvent"}
      <4>1. l = "Head" /\ c.call \notin Scans
        BY <3>2 DEF FirstLabel, Scans, IfCalls
      <4> QED BY <4>1, <3>2, <2>3 DEF Fits, Polling, Labels, HeadCalls
    <3>3. CASE c.call = "SyncDiscard"
      <4>1. l = "RoundTrip" /\ c.call \notin Scans
        BY <3>3 DEF FirstLabel, Scans, IfCalls
      <4> QED BY <4>1, <3>3, <2>3 DEF Fits, Polling, Labels
    <3>4. CASE c.call \in {"PutBack", "Pending"}
      <4>1. l = c.call /\ c.call \notin Scans
        BY <3>4 DEF FirstLabel, Scans, IfCalls
      <4> QED BY <4>1, <3>4, <2>3 DEF Fits, Polling, Labels
    <3> QED BY <3>0, <3>1, <3>2, <3>3, <3>4
  <2> HIDE DEF r, l
  <2>5. Moved(t, l, r)
    BY <1>4, <2>2, <2>3, <2>4 DEF Moved, Goto, l
  <2>6. r.call = Head(script[t]).call /\ EnterIfEvent(t, r.call)
    BY <2>3, <1>4 DEF c
  <2>7. CallBegins(t, l, r)
    BY <1>1, <1>4, <2>3, <2>4, <2>5, <2>6 DEF CallBegins
  <2> QED BY <1>1, <2>1, <2>7
<1> QED BY <1>3, <1>4 DEF LockDisplay

(***************************************************************************)
(* What the scans remember.                                                *)
(***************************************************************************)
Searching(l, r) == r.call \in Scans /\ l \notin {"Idle", "Unlock"}

PlaceOK(l, r) ==
    Searching(l, r) =>
        /\ r.qe_serial < next_event_serial_num
        /\ r.prev # Nil => r.qe_serial # 0
        /\ l = "Scan" => r.prev \in {Nil} \cup Range(Queue)

Places == \A t \in Threads : PlaceOK(pc[t], local[t])

\* An X...IfEvent call that ends is counted down.
CountedDown(t, l) ==
    in_ifevent' = IF l = "Unlock" /\ local[t].call \in IfCalls THEN in_ifevent - 1 ELSE in_ifevent

ScanFound(t, k, j) ==
    /\ k \in 0..Len(Queue) /\ j \in 1..Len(Queue) /\ k < j
    /\ Matches(t, Queue[j])
    /\ \A m \in 1..Len(Queue) : k < m /\ m < j => ~Matches(t, Queue[m])
    /\ CountedDown(t, "Unlock")
    /\ \/ UNCHANGED <<queueVars, returned>> /\ Moved(t, "Unlock", local[t])
       \/ /\ Deq(IF j = 1 THEN Nil ELSE Queue[j - 1], Queue[j])
          /\ returned' = returned \cup {event[Queue[j]]}
          /\ \E r : /\ Moved(t, "Unlock", r) /\ r.call = local[t].call
                    /\ r.got = event[Queue[j]]

ScanMissed(t, k) ==
    /\ k \in 0..Len(Queue)
    /\ \A m \in 1..Len(Queue) : k < m => ~Matches(t, Queue[m])
    /\ UNCHANGED <<queueVars, returned>>
    /\ \E l, r :
          /\ Moved(t, l, r) /\ l \in {"Unlock", "AfterRead", "Poll", "ReadLoop"}
          /\ CountedDown(t, l)
          /\ r.call = local[t].call /\ r.wants = local[t].wants /\ r.got = local[t].got
          /\ r.prev = IF Queue = <<>> THEN Nil ELSE Queue[Len(Queue)]
          /\ r.qe_serial = IF r.prev = Nil THEN local[t].qe_serial ELSE qserial_num[r.prev]
          /\ r.serial = next_event_serial_num
          /\ \A x \in r.tested :
                \/ x \in local[t].tested
                \/ \E m \in 1..Len(Queue) : k < m /\ x = qserial_num[Queue[m]]

\* The least of a set of numbers.
LEMMA MinFacts ==
    ASSUME NEW S \in SUBSET Nat, S # {}
    PROVE  Min(S) \in S /\ \A x \in S : Min(S) <= x
BY LeastNat DEF Min

\* A scan that has found an event: src/src/IfEvent.c:60-66.
LEMMA MoveFound ==
    ASSUME TypeOK, Control, Lists, NEW t \in Threads, local[t].call \in Scans,
           NEW k, IsPlace(t, k), NEW j \in 1..Len(Queue), k < j,
           Matches(t, Queue[j]),
           \A m \in 1..Len(Queue) : k < m /\ m < j => ~Matches(t, Queue[m]),
           NEW i \in Nat, j = k + i,
           Found(t, Ahead(t), i)
    PROVE  ScanFound(t, k, j)
<1>0. /\ k \in 0..Len(Queue) /\ Len(Queue) \in Nat
      /\ \A n \in 1..(Len(Queue) - k) : Ahead(t)[n] = Queue[k + n]
  BY AheadFacts
<1>1. i \in 1..(Len(Queue) - k) /\ Ahead(t)[i] = Queue[j]
  BY <1>0
<1> DEFINE before == IF i = 1 THEN local[t].prev ELSE Ahead(t)[i - 1]
<1>2. before = IF j = 1 THEN Nil ELSE Queue[j - 1]
  <2>1. CASE i = 1
    <3>1. CASE k = 0
      BY <2>1, <3>1 DEF IsPlace
    <3>2. CASE k # 0
      <4>1. j # 1 /\ j - 1 = k
        BY <2>1, <3>2, <1>0
      <4> QED BY <4>1, <2>1, <3>2 DEF IsPlace
    <3> QED BY <3>1, <3>2
  <2>2. CASE i # 1
    <3>1. i - 1 \in 1..(Len(Queue) - k) /\ k + (i - 1) = j - 1 /\ j # 1
      BY <2>2, <1>0, <1>1
    <3>2. Ahead(t)[i - 1] = Queue[k + (i - 1)]
      BY <3>1, <1>0
    <3> QED BY <3>1, <3>2, <2>2
  <2> QED BY <2>1, <2>2
<1> HIDE DEF before
<1>3. Goto(t, "Unlock") /\ CountedDown(t, "Unlock")
  BY DEF Found, Leave, CountedDown
<1>4. "Unlock" \in Labels /\ \A r : Fits("Unlock", r)
  BY DEF Labels, Fits, Polling
<1>5. CASE local[t].call \in Peeks
  <2>1. UNCHANGED <<queueVars, returned, local>>
    BY <1>5 DEF Found
  <2>2. local' = [local EXCEPT ![t] = local[t]]
    BY <2>1, LocalTypes
  <2>3. Moved(t, "Unlock", local[t])
    BY <1>3, <1>4, <2>2, LocalTypes DEF Moved, Goto
  <2> QED BY <1>0, <1>3, <2>1, <2>3 DEF ScanFound
<1>6. CASE local[t].call \notin Peeks
  <2>1. /\ Deq(before, Queue[j]) /\ local' = [local EXCEPT ![t].got = event[Queue[j]]]
        /\ returned' = returned \cup {event[Queue[j]]}
    BY <1>1, <1>6 DEF Found, before
  <2> DEFINE r == [local[t] EXCEPT !.got = event[Queue[j]]]
  <2>2. local' = [local EXCEPT ![t] = r]
    BY <2>1, LocalTypes
  <2>3. event[Queue[j]] \in Nat
    BY ListFacts DEF TypeOK
  <2>4. r \in Locals /\ r.call = local[t].call /\ r.got = event[Queue[j]]
    BY <2>3, LocalTypes DEF Locals
  <2> HIDE DEF r
  <2>5. Moved(t, "Unlock", r)
    BY <1>3, <1>4, <2>2, <2>4 DEF Moved, Goto
  <2> QED BY <1>0, <1>2, <1>3, <2>1, <2>4, <2>5 DEF ScanFound
<1> QED BY <1>5, <1>6

\* A scan that has found none.
LEMMA MoveMissed ==
    ASSUME TypeOK, Control, Lists, NEW t \in Threads, local[t].call \in Scans,
           NEW k, IsPlace(t, k),
           \A m \in 1..Len(Queue) : k < m => ~Matches(t, Queue[m]),
           NotFound(t, Ahead(t))
    PROVE  ScanMissed(t, k)
<1>0. /\ k \in 0..Len(Queue) /\ Len(Queue) \in Nat
      /\ Ahead(t) \in Seq(Elements)
      /\ Len(Ahead(t)) = Len(Queue) - k
      /\ \A n \in 1..(Len(Queue) - k) : Ahead(t)[n] = Queue[k + n]
  BY AheadFacts
<1> DEFINE a == Ahead(t)
           last == IF a = <<>> THEN local[t].prev ELSE Last(a)
           qs == IF last = Nil THEN local[t].qe_serial ELSE qserial_num[last]
           m == IF local[t].call \in CheckCalls THEN "Check" ELSE "Read"
           seen == local[t].tested \cup {qserial_num[c] : c \in {d \in Range(a) : Tested(t, d)}}
           r == [local[t] EXCEPT !.prev = last, !.qe_serial = qs,
                                 !.serial = next_event_serial_num, !.mode = m, !.tested = seen]
<1>1. last = IF Queue = <<>> THEN Nil ELSE Queue[Len(Queue)]
  <2>1. CASE Len(a) = 0
    <3>1. k = Len(Queue) /\ last = local[t].prev
      BY <2>1, <1>0
    <3>2. CASE Len(Queue) = 0
      <4>1. Queue = <<>>
        BY <3>2, ListFacts
      <4> QED BY <4>1, <3>1, <3>2 DEF IsPlace
    <3>3. CASE Len(Queue) # 0
      BY <3>1, <3>3 DEF IsPlace
    <3> QED BY <3>2, <3>3
  <2>2. CASE Len(a) # 0
    <3>1. last = a[Len(a)] /\ Queue # <<>>
      <4>1. Len(a) # 0 /\ Len(Queue) # 0
        BY <2>2, <1>0
      <4>2. a # <<>> /\ Queue # <<>>
        <5> HIDE DEF a
        <5> QED BY <4>1
      <4> QED BY <4>2 DEF Last
    <3>2. Len(a) \in 1..(Len(Queue) - k) /\ k + Len(a) = Len(Queue)
      BY <2>2, <1>0
    <3>3. a[Len(a)] = Queue[k + Len(a)]
      BY <3>2, <1>0
    <3> QED BY <3>1, <3>2, <3>3
  <2> QED BY <2>1, <2>2, <1>0
<1>2. last \in {Nil} \cup Elements
  <2>1. CASE Queue = <<>>
    BY <2>1, <1>1
  <2>2. CASE Queue # <<>>
    <3>1. Len(Queue) \in 1..Len(Queue)
      BY <2>2, ListFacts
    <3> QED BY <3>1, <2>2, <1>1, ListFacts
  <2> QED BY <2>1, <2>2
<1>3. \A x \in seen : \/ x \in local[t].tested
                      \/ \E n \in 1..Len(Queue) : k < n /\ x = qserial_num[Queue[n]]
  <2> SUFFICES ASSUME NEW x \in seen, x \notin local[t].tested
               PROVE  \E n \in 1..Len(Queue) : k < n /\ x = qserial_num[Queue[n]]
    OBVIOUS
  <2>1. PICK c \in Range(a) : x = qserial_num[c]
    OBVIOUS
  <2>2. PICK n \in 1..Len(a) : c = a[n]
    BY <2>1, <1>0, RangeFacts
  <2>3. k + n \in 1..Len(Queue) /\ k < k + n /\ c = Queue[k + n]
    BY <2>2, <1>0
  <2> QED BY <2>1, <2>3
<1>4. seen \in SUBSET Nat /\ qs \in Nat
  <2>1. \A n \in 1..Len(Queue) : qserial_num[Queue[n]] \in Nat
    BY ListFacts DEF TypeOK
  <2>2. seen \in SUBSET Nat
    <3> HIDE DEF seen
    <3> QED BY <2>1, <1>3, LocalTypes
  <2>3. qs \in Nat
    <3> HIDE DEF last
    <3> QED BY <1>2, LocalTypes DEF TypeOK
  <2> QED BY <2>2, <2>3
<1>5. m \in {"Check", "Read"} /\ next_event_serial_num \in Nat
  BY DEF TypeOK
<1>6. r = Remembered(t, a)
  BY DEF Remembered
<1> HIDE DEF last, qs, m, seen
<1>7. /\ r \in Locals /\ r.call = local[t].call /\ r.wants = local[t].wants
      /\ r.got = local[t].got /\ r.prev = last /\ r.qe_serial = qs
      /\ r.serial = next_event_serial_num /\ r.tested = seen /\ r.mode = m
      /\ r.n = local[t].n
  BY <1>2, <1>4, <1>5, LocalTypes DEF Locals
<1>8. local' = [local EXCEPT ![t] = r] /\ UNCHANGED <<queueVars, returned>>
  BY <1>6 DEF NotFound
<1> HIDE DEF r
<1>9. \E l : /\ l \in {"Unlock", "AfterRead", "Poll", "ReadLoop"} /\ l \in Labels
             /\ Goto(t, l) /\ CountedDown(t, l) /\ Fits(l, r)
  <2>1. CASE local[t].call \in CheckCalls /\ local[t].n = 0
    <3>1. Goto(t, "Unlock") /\ CountedDown(t, "Unlock")
      BY <2>1 DEF NotFound, Leave, CountedDown
    <3>2. Fits("Unlock", r) /\ "Unlock" \in Labels
      BY DEF Fits, Polling, Labels
    <3> QED BY <3>1, <3>2
  <2>2. CASE local[t].call \in CheckCalls /\ local[t].n # 0
    <3>1. /\ Goto(t, IF event_waiter THEN "AfterRead" ELSE "Poll")
          /\ UNCHANGED in_ifevent
      BY <2>2 DEF NotFound
    <3>2. /\ CountedDown(t, "AfterRead") /\ CountedDown(t, "Poll")
      BY <3>1 DEF CountedDown
    <3>3. Fits("AfterRead", r) /\ "AfterRead" \in Labels
      BY <1>7, <2>2 DEF Fits, Polling, Labels
    <3>4. Fits("Poll", r) /\ "Poll" \in Labels
      <4>1. r.mode = "Check"
        BY <1>7, <2>2 DEF m
      <4> QED BY <4>1, <1>7, <2>2 DEF Fits, Polling, ModeFits, Labels
    <3> QED BY <3>1, <3>2, <3>3, <3>4
  <2>3. CASE local[t].call \notin CheckCalls
    <3>1. Goto(t, "ReadLoop") /\ UNCHANGED in_ifevent
      BY <2>3 DEF NotFound
    <3>2. CountedDown(t, "ReadLoop")
      BY <3>1 DEF CountedDown
    <3>3. Fits("ReadLoop", r) /\ "ReadLoop" \in Labels
      BY <1>7, <2>3 DEF Fits, Polling, Labels, Waits
    <3> QED BY <3>1, <3>2, <3>3
  <2> QED BY <2>1, <2>2, <2>3
<1>10. PICK l : /\ l \in {"Unlock", "AfterRead", "Poll", "ReadLoop"} /\ l \in Labels
                /\ Goto(t, l) /\ CountedDown(t, l) /\ Fits(l, r)
  BY <1>9
<1>11. Moved(t, l, r)
  BY <1>7, <1>8, <1>10 DEF Moved, Goto
<1>12. /\ r.prev = IF Queue = <<>> THEN Nil ELSE Queue[Len(Queue)]
       /\ r.qe_serial = IF r.prev = Nil THEN local[t].qe_serial ELSE qserial_num[r.prev]
  BY <1>1, <1>7 DEF qs
<1>13. \A x \in r.tested : \/ x \in local[t].tested
                           \/ \E n \in 1..Len(Queue) : k < n /\ x = qserial_num[Queue[n]]
  BY <1>3, <1>7
<1> QED BY <1>0, <1>7, <1>8, <1>10, <1>11, <1>12, <1>13 DEF ScanMissed

\* A scan looks for the first hit.
LEMMA MoveScan ==
    ASSUME TypeOK, Control, Places, Lists, NEW t \in Threads, Scan(t)
    PROVE  /\ local[t].call \in Scans /\ pc[t] = "Scan"
           /\ \E k : IsPlace(t, k) /\ (ScanMissed(t, k) \/ \E j : ScanFound(t, k, j))
<1>1. local[t].call \in Scans /\ pc[t] = "Scan"
  BY DEF Control, Scan, At, Fits
<1>2. local[t].prev \in {Nil} \cup Range(Queue)
  <2>1. PlaceOK("Scan", local[t])
    BY <1>1 DEF Places
  <2> QED BY <2>1, <1>1 DEF PlaceOK, Searching
<1>3. PICK k : IsPlace(t, k)
  BY <1>2, PlaceExists
<1> DEFINE a == Ahead(t)
           hits == {i \in DOMAIN a : Matches(t, a[i])}
<1>4. /\ DOMAIN a = 1..(Len(Queue) - k) /\ k \in 0..Len(Queue) /\ Len(Queue) \in Nat
      /\ \A n \in 1..(Len(Queue) - k) : a[n] = Queue[k + n]
  BY <1>3, AheadFacts
<1> HIDE DEF a
<1>5. CASE hits = {}
  <2>1. NotFound(t, a)
    BY <1>5 DEF Scan, a
  <2>2. ASSUME NEW m \in 1..Len(Queue), k < m PROVE ~Matches(t, Queue[m])
    <3>1. m - k \in 1..(Len(Queue) - k) /\ k + (m - k) = m
      BY <2>2, <1>4
    <3>2. a[m - k] = Queue[m]
      BY <3>1, <1>4
    <3>3. m - k \in DOMAIN a
      BY <3>1, <1>4
    <3> QED BY <3>2, <3>3, <1>5
  <2>3. ScanMissed(t, k)
    BY <2>1, <2>2, <1>1, <1>3, MoveMissed DEF a
  <2> QED BY <2>3, <1>1, <1>3
<1>6. CASE hits # {}
  <2> DEFINE i == Min(hits)
  <2>1. Found(t, a, i)
    BY <1>6 DEF Scan, a
  <2>2. hits \in SUBSET Nat
    BY <1>4
  <2>3. i \in hits /\ \A x \in hits : i <= x
    BY <2>2, <1>6, MinFacts
  <2> HIDE DEF i
  <2> DEFINE j == k + i
  <2>4. /\ i \in 1..(Len(Queue) - k) /\ Matches(t, a[i])
        /\ j \in 1..Len(Queue) /\ k < j /\ a[i] = Queue[j]
    BY <2>3, <1>4
  <2>5. ASSUME NEW m \in 1..Len(Queue), k < m, m < j PROVE ~Matches(t, Queue[m])
    <3>1. m - k \in 1..(Len(Queue) - k) /\ k + (m - k) = m /\ ~(i <= m - k)
      BY <2>5, <2>4, <1>4
    <3>2. a[m - k] = Queue[m]
      BY <3>1, <1>4
    <3>3. m - k \notin hits /\ m - k \in DOMAIN a
      BY <3>1, <2>3, <1>4
    <3> QED BY <3>2, <3>3
  <2>6. i \in Nat /\ j = k + i /\ Matches(t, Queue[j])
    BY <2>4
  <2> HIDE DEF j
  <2>7. ScanFound(t, k, j)
    BY <2>1, <2>4, <2>5, <2>6, <1>1, <1>3, MoveFound DEF a
  <2> QED BY <2>7, <1>1, <1>3
<1> QED BY <1>5, <1>6

(***************************************************************************)
(* The display lock.                                                       *)
(***************************************************************************)
\* Outside these labels a thread runs without the lock, but for X...IfEvent.
Outside == {"Idle", "Asleep", "WaitForReply", "WaitForEvent", "UserErrorHandler"}

LockHeld ==
    /\ \A t \in Threads : pc[t] \notin Outside => mutex = t
    /\ \A t \in Threads : InIfEvent(t) /\ pc[t] # "Asleep" => mutex = t

\* The threads in X...IfEvent calls, which in_ifevent counts.
IfThreads == {t \in Threads : pc[t] \notin {"Idle", "Unlock"} /\ local[t].call \in IfCalls}

IfCount == IsFiniteSet(IfThreads) /\ in_ifevent = Cardinality(IfThreads)

\* What a step of t to the label l does to the lock.
LockEffect(t, l) ==
    \/ pc[t] \in Outside \ {"Asleep"} /\ l \notin Outside /\ \E w : Acquired(t, w)
    \/ pc[t] \notin Outside /\ l \in Outside \ {"Asleep"} /\ Released(t)
    \/ pc[t] \notin Outside /\ l = "Asleep" /\ mutex' = NoThread
    \/ pc[t] = "Asleep" /\ l \notin Outside /\ mutex = NoThread /\ mutex' = t
    \/ pc[t] \notin Outside /\ l \notin Outside /\ mutex' = mutex
    \/ pc[t] = "Idle" /\ l = "Idle" /\ mutex = NoThread /\ mutex' = NoThread

\* And to the count.
IfEffect(t, l, r) ==
    \/ /\ pc[t] = "Idle" /\ l \notin {"Idle", "Unlock"}
       /\ EnterIfEvent(t, r.call) /\ \E w : Acquired(t, w)
    \/ /\ pc[t] \notin {"Idle", "Unlock"} /\ l # "Idle"
       /\ r.call = local[t].call /\ CountedDown(t, l) /\ UNCHANGED ifevent_thread
    \/ /\ pc[t] \in {"Idle", "Unlock"} /\ l = "Idle"
       /\ UNCHANGED <<in_ifevent, ifevent_thread>>

\* It does not end an X...IfEvent call.
LEMMA NotCountedDown ==
    ASSUME NEW t \in Threads, NEW l, UNCHANGED in_ifevent,
           l # "Unlock" \/ local[t].call \notin IfCalls
    PROVE  CountedDown(t, l)
BY DEF CountedDown

\* Every action of a thread moves it as it may.
LEMMA ThreadSteps ==
    ASSUME TypeOK, ScriptsOK, Control, Places, Lists, NEW t \in Threads, Thread(t)
    PROVE  /\ ScriptsOK'
           /\ \E l, r : Moved(t, l, r) /\ LockEffect(t, l) /\ IfEffect(t, l, r)
<1> USE DEF Outside
<1>0. \A c : c \in {"PutBack", "SyncDiscard", "Pending"} \cup HeadCalls => c \notin IfCalls
  BY DEF HeadCalls, IfCalls
<1>1. CASE LockDisplay(t)
  <2>1. pc[t] = "Idle" /\ ScriptsOK'
    BY <1>1, MoveLock
  <2>2. CASE UNCHANGED <<pc, local, script, in_ifevent, ifevent_thread>> /\ MustWait(t)
    <3>1. Moved(t, "Idle", local[t])
      BY <2>1, <2>2, NotMoved
    <3> QED BY <2>1, <2>2, <3>1 DEF LockEffect, IfEffect, MustWait, ConditionWait
  <2>3. CASE \E l, r : CallBegins(t, l, r)
    BY <2>1, <2>3 DEF CallBegins, LockEffect, IfEffect
  <2> QED BY <1>1, <2>1, <2>2, <2>3, MoveLock
<1>2. CASE UnlockDisplay(t)
  <2>1. /\ pc[t] = "Unlock" /\ Released(t) /\ UNCHANGED <<in_ifevent, ifevent_thread, script>>
    BY <1>2 DEF UnlockDisplay, At, ifeventVars
  <2>2. Moved(t, "Idle", local[t])
    BY <1>2, MoveUnlock
  <2> QED BY <2>1, <2>2 DEF LockEffect, IfEffect, ScriptsOK
<1>3. CASE Resume(t)
  <2>1. /\ pc[t] = "Asleep" /\ Wakeup(t) /\ UNCHANGED <<in_ifevent, ifevent_thread, script>>
    BY <1>3 DEF Resume, At, ifeventVars
  <2>2. Moved(t, local[t].back, local[t])
    BY <1>3, MoveResume
  <2>3. local[t].back \in {"ReadLoop", "XError"}
    BY <2>1 DEF Control, Fits
  <2>4. CountedDown(t, local[t].back)
    BY <2>1, <2>3, NotCountedDown
  <2> QED BY <2>1, <2>2, <2>3, <2>4 DEF LockEffect, IfEffect, Wakeup, ScriptsOK
<1>4. CASE Scan(t)
  <2>1. UNCHANGED <<mutex, ifevent_thread, script>> /\ pc[t] = "Scan"
    BY <1>4, MoveScan DEF Scan
  <2>2. PICK k : IsPlace(t, k) /\ (ScanMissed(t, k) \/ \E j : ScanFound(t, k, j))
    BY <1>4, MoveScan
  <2>3. CASE ScanMissed(t, k)
    <3>1. PICK l, r : /\ Moved(t, l, r) /\ l \in {"Unlock", "AfterRead", "Poll", "ReadLoop"}
                      /\ CountedDown(t, l) /\ r.call = local[t].call
      BY <2>3 DEF ScanMissed
    <3> QED BY <2>1, <3>1 DEF LockEffect, IfEffect, ScriptsOK
  <2>4. CASE \E j : ScanFound(t, k, j)
    <3>1. PICK r : Moved(t, "Unlock", r) /\ CountedDown(t, "Unlock") /\ r.call = local[t].call
      BY <2>4 DEF ScanFound
    <3> QED BY <2>1, <3>1 DEF LockEffect, IfEffect, ScriptsOK
  <2> QED BY <2>2, <2>3, <2>4
<1>5. CASE AfterRead(t)
  <2>1. pc[t] = "AfterRead" /\ UNCHANGED <<mutex, in_ifevent, ifevent_thread, script>>
    BY <1>5 DEF AfterRead, At, lockVars
  <2>2. PICK l, r : Moved(t, l, r) /\ l \in {"Scan", "TakeHead"} /\ r.call = local[t].call
    BY <1>5, MoveAfterRead
  <2>3. CountedDown(t, l)
    BY <2>1, <2>2, NotCountedDown
  <2> QED BY <2>1, <2>2, <2>3 DEF LockEffect, IfEffect, ScriptsOK
<1>6. CASE NextEvent(t)
  <2>1. pc[t] = "Head" /\ UNCHANGED <<mutex, in_ifevent, ifevent_thread, script>>
    BY <1>6 DEF NextEvent, At, lockVars
  <2>2. PICK l, r : Moved(t, l, r) /\ l \in {"TakeHead", "ReadLoop"} /\ r.call = local[t].call
    BY <1>6, MoveNextEvent
  <2>3. CountedDown(t, l)
    BY <2>1, <2>2, NotCountedDown
  <2> QED BY <2>1, <2>2, <2>3 DEF LockEffect, IfEffect, ScriptsOK
<1>7. CASE TakeHead(t)
  <2>1. pc[t] = "TakeHead" /\ UNCHANGED <<mutex, in_ifevent, ifevent_thread, script>>
    BY <1>7 DEF TakeHead, At, lockVars
  <2>2. PICK r : Moved(t, "Unlock", r) /\ r.call = local[t].call
    BY <1>7, MoveTakeHead
  <2>3. CountedDown(t, "Unlock")
    BY <1>0, <1>7, <2>1, MoveTakeHead, NotCountedDown
  <2> QED BY <2>1, <2>2, <2>3 DEF LockEffect, IfEffect, ScriptsOK
<1>8. CASE PutBack(t)
  <2>1. pc[t] = "PutBack" /\ UNCHANGED <<mutex, in_ifevent, ifevent_thread, script>>
    BY <1>8 DEF PutBack, At, lockVars
  <2>2. PICK r : Moved(t, "Unlock", r) /\ r.call = local[t].call
    BY <1>8, MovePutBack
  <2>3. CountedDown(t, "Unlock")
    BY <1>0, <1>8, <2>1, MovePutBack, NotCountedDown
  <2> QED BY <2>1, <2>2, <2>3 DEF LockEffect, IfEffect, ScriptsOK
<1>9. CASE RoundTrip(t)
  <2>1. /\ pc[t] = "RoundTrip" /\ Released(t) /\ UNCHANGED <<in_ifevent, ifevent_thread, script>>
    BY <1>9 DEF RoundTrip, At, ifeventVars
  <2>2. Moved(t, "WaitForReply", local[t])
    BY <1>9, MoveRoundTrip
  <2>3. CountedDown(t, "WaitForReply")
    BY <2>1, NotCountedDown
  <2>4. LockEffect(t, "WaitForReply") /\ IfEffect(t, "WaitForReply", local[t])
    BY <2>1, <2>3 DEF LockEffect, IfEffect
  <2> QED BY <2>1, <2>2, <2>4 DEF ScriptsOK
<1>10. CASE WaitForReply(t)
  <2>1. /\ pc[t] = "WaitForReply" /\ Acquired(t, TRUE)
        /\ UNCHANGED <<in_ifevent, ifevent_thread, script>>
    BY <1>10 DEF WaitForReply, At, ifeventVars
  <2>2. PICK l, r : Moved(t, l, r) /\ l \in {"Discard", "Poll"} /\ r.call = local[t].call
    BY <1>10, MoveWaitForReply DEF SameSearch
  <2>3. CountedDown(t, l)
    BY <2>1, <2>2, NotCountedDown
  <2> QED BY <2>1, <2>2, <2>3 DEF LockEffect, IfEffect, ScriptsOK
<1>11. CASE Discard(t)
  <2>1. pc[t] = "Discard" /\ UNCHANGED <<mutex, in_ifevent, ifevent_thread, script>>
    BY <1>11 DEF Discard, At, lockVars
  <2>2. Moved(t, "Unlock", local[t])
    BY <1>11, MoveDiscard
  <2>3. CountedDown(t, "Unlock")
    BY <1>0, <1>11, <2>1, MoveDiscard, NotCountedDown
  <2> QED BY <2>1, <2>2, <2>3 DEF LockEffect, IfEffect, ScriptsOK
<1>12. CASE Pending(t)
  <2>1. pc[t] = "Pending" /\ UNCHANGED <<mutex, in_ifevent, ifevent_thread, script>>
    BY <1>12 DEF Pending, At, lockVars
  <2>2. PICK l, r : Moved(t, l, r) /\ l \in {"Unlock", "Poll"} /\ r.call = local[t].call
    BY <1>12, MovePending DEF SameSearch
  <2>3. CountedDown(t, l)
    BY <1>0, <1>12, <2>1, MovePending, NotCountedDown
  <2> QED BY <2>1, <2>2, <2>3 DEF LockEffect, IfEffect, ScriptsOK
<1>13. CASE ReadLoop(t)
  <2>1. pc[t] = "ReadLoop" /\ UNCHANGED <<in_ifevent, ifevent_thread, script>>
    BY <1>13 DEF ReadLoop, At, ifeventVars
  <2>2. PICK l, r : /\ Moved(t, l, r) /\ l \in {"AfterRead", "Poll", "Asleep", "WaitForEvent"}
                    /\ r.call = local[t].call
    BY <1>13, MoveReadLoop DEF SameSearch
  <2>3. CountedDown(t, l)
    BY <2>1, <2>2, NotCountedDown
  <2>4. pc' = [pc EXCEPT ![t] = l] /\ pc'[t] = l
    BY <2>2, MovedFacts DEF Moved
  <2>5. LockEffect(t, l)
    <3>1. CASE Goto(t, IF event_waiter THEN "AfterRead" ELSE "Poll") /\ UNCHANGED mutex
      <4>1. l \in {"AfterRead", "Poll"}
        BY <3>1, <2>4 DEF Goto, TypeOK
      <4> QED BY <4>1, <3>1, <2>1 DEF LockEffect
    <3>2. CASE Goto(t, "Asleep") /\ ConditionWait("event_notify", t)
      <4>1. l = "Asleep"
        BY <3>2, <2>4 DEF Goto, TypeOK
      <4> QED BY <4>1, <3>2, <2>1 DEF LockEffect, ConditionWait
    <3>3. CASE Goto(t, "WaitForEvent") /\ Released(t)
      <4>1. l = "WaitForEvent"
        BY <3>3, <2>4 DEF Goto, TypeOK
      <4> QED BY <4>1, <3>3, <2>1 DEF LockEffect
    <3> QED BY <1>13, <3>1, <3>2, <3>3 DEF ReadLoop
  <2> QED BY <2>1, <2>2, <2>3, <2>5 DEF IfEffect, ScriptsOK
<1>14. CASE WaitForEvent(t)
  <2>1. /\ pc[t] = "WaitForEvent" /\ Acquired(t, TRUE)
        /\ UNCHANGED <<in_ifevent, ifevent_thread, script>>
    BY <1>14 DEF WaitForEvent, At, ifeventVars
  <2>2. PICK r : Moved(t, "Poll", r) /\ r.call = local[t].call
    BY <1>14, MoveWaitForEvent DEF SameSearch
  <2>3. CountedDown(t, "Poll")
    BY <2>1, NotCountedDown
  <2>4. LockEffect(t, "Poll") /\ IfEffect(t, "Poll", r)
    BY <2>1, <2>2, <2>3 DEF LockEffect, IfEffect
  <2> QED BY <2>1, <2>2, <2>4 DEF ScriptsOK
<1>15. CASE Poll(t)
  <2>1. pc[t] = "Poll" /\ UNCHANGED <<mutex, in_ifevent, ifevent_thread, script>>
    BY <1>15, MovePoll DEF Poll, lockVars
  <2>2. PICK l, r : /\ Moved(t, l, r) /\ r.call = local[t].call
                    /\ l \in {"Poll", "AfterRead", "Discard", "Unlock", "ReadLoop", "XError"}
                    /\ l = "Unlock" => local[t].call = "Pending"
    BY <1>15, MovePoll DEF SameSearch
  <2>3. CountedDown(t, l)
    BY <1>0, <2>1, <2>2, NotCountedDown
  <2> QED BY <2>1, <2>2, <2>3 DEF LockEffect, IfEffect, ScriptsOK
<1>16. CASE XError(t)
  <2>1. pc[t] = "XError" /\ UNCHANGED <<in_ifevent, ifevent_thread, script>>
    BY <1>16 DEF XError, At, ifeventVars
  <2>2. PICK l, r : /\ Moved(t, l, r) /\ l \in {"Asleep", "UserErrorHandler"}
                    /\ r.call = local[t].call
    BY <1>16, MoveXError DEF SameSearch
  <2>3. CountedDown(t, l)
    BY <2>1, <2>2, NotCountedDown
  <2>4. pc' = [pc EXCEPT ![t] = l] /\ pc'[t] = l
    BY <2>2, MovedFacts DEF Moved
  <2>5. LockEffect(t, l)
    <3>1. CASE Goto(t, "Asleep") /\ ConditionWait("cv", t)
      <4>1. l = "Asleep"
        BY <3>1, <2>4 DEF Goto, TypeOK
      <4> QED BY <4>1, <3>1, <2>1 DEF LockEffect, ConditionWait
    <3>2. CASE Goto(t, "UserErrorHandler") /\ Released(t)
      <4>1. l = "UserErrorHandler"
        BY <3>2, <2>4 DEF Goto, TypeOK
      <4> QED BY <4>1, <3>2, <2>1 DEF LockEffect
    <3> QED BY <1>16, <3>1, <3>2 DEF XError
  <2> QED BY <2>1, <2>2, <2>3, <2>5 DEF IfEffect, ScriptsOK
<1>17. CASE UserErrorHandler(t)
  <2>1. /\ pc[t] = "UserErrorHandler" /\ Acquired(t, FALSE)
        /\ UNCHANGED <<in_ifevent, ifevent_thread, script>>
    BY <1>17 DEF UserErrorHandler, At, ifeventVars
  <2>2. Moved(t, local[t].resume, local[t]) /\ local[t].resume \in {"Poll", "ReadLoop"}
    BY <1>17, MoveUserErrorHandler
  <2>3. CountedDown(t, local[t].resume)
    BY <2>1, <2>2, NotCountedDown
  <2> QED BY <2>1, <2>2, <2>3 DEF LockEffect, IfEffect, ScriptsOK
<1> QED BY <1>1, <1>2, <1>3, <1>4, <1>5, <1>6, <1>7, <1>8, <1>9, <1>10, <1>11, <1>12, <1>13,
           <1>14, <1>15, <1>16, <1>17 DEF Thread

\* Who has the lock, or no lock to take, and who gets it.
LEMMA LockMoves ==
    ASSUME TypeOK, LockHeld, NEW t \in Threads, NEW l, LockEffect(t, l)
    PROVE  /\ l \notin Outside => mutex' = t
           /\ mutex' \in {t, mutex, NoThread}
           /\ mutex # NoThread /\ mutex # t => mutex' = mutex
<1>1. NoThread # t
  BY NoThreadAssumption
<1>2. InIfEvent(t) /\ pc[t] # "Asleep" => mutex = t
  BY DEF LockHeld
<1>3. CASE pc[t] \in Outside \ {"Asleep"} /\ l \notin Outside /\ \E w : Acquired(t, w)
  BY <1>1, <1>2, <1>3 DEF Acquired
<1>4. CASE pc[t] \notin Outside /\ l \in Outside \ {"Asleep"} /\ Released(t)
  BY <1>4 DEF LockHeld, Released
<1>5. CASE pc[t] \notin Outside /\ l = "Asleep" /\ mutex' = NoThread
  BY <1>5 DEF LockHeld, Outside
<1>6. CASE pc[t] = "Asleep" /\ l \notin Outside /\ mutex = NoThread /\ mutex' = t
  BY <1>6
<1>7. CASE pc[t] \notin Outside /\ l \notin Outside /\ mutex' = mutex
  BY <1>7 DEF LockHeld
<1>8. CASE pc[t] = "Idle" /\ l = "Idle" /\ mutex = NoThread /\ mutex' = NoThread
  BY <1>8 DEF Outside
<1> QED BY <1>3, <1>4, <1>5, <1>6, <1>7, <1>8 DEF LockEffect

\* A thread in the middle of the library holds the lock, after each step.
LEMMA LockHeldStep ==
    ASSUME TypeOK, Control, LockHeld, NEW t \in Threads, NEW l, NEW r,
           Moved(t, l, r), LockEffect(t, l), IfEffect(t, l, r)
    PROVE  LockHeld'
<1>1. /\ pc'[t] = l
      /\ \A u \in Threads : u # t => pc'[u] = pc[u]
  BY MovedFacts
<1>2. \A u \in Threads : NoThread # u
  BY NoThreadAssumption
<1>3. InIfEvent(t) /\ pc[t] # "Asleep" => mutex = t
  BY DEF LockHeld
<1>4. /\ l \notin Outside => mutex' = t
      /\ mutex' \in {t, mutex, NoThread}
      /\ mutex # NoThread /\ mutex # t => mutex' = mutex
  BY LockMoves
\* in_ifevent > 0 remains only for those it held for, or for t that enters.
<1>5. \A u \in Threads : u # t /\ InIfEvent(u)' => InIfEvent(u)
  <2>1. CASE EnterIfEvent(t, r.call)
    BY <2>1 DEF EnterIfEvent, InIfEvent, TypeOK, LockTypeOK
  <2>2. CASE CountedDown(t, l) /\ UNCHANGED ifevent_thread
    BY <2>2 DEF CountedDown, InIfEvent, TypeOK, LockTypeOK
  <2>3. CASE UNCHANGED <<in_ifevent, ifevent_thread>>
    BY <2>3 DEF InIfEvent
  <2> QED BY <2>1, <2>2, <2>3 DEF IfEffect
<1>6. InIfEvent(t)' /\ l # "Asleep" => mutex' = t
  <2> SUFFICES ASSUME InIfEvent(t)', l # "Asleep" PROVE mutex' = t
    OBVIOUS
  <2>1. CASE \E w : Acquired(t, w)
    <3>1. PICK w : Acquired(t, w)
      BY <2>1
    <3>2. CASE pc[t] = "Asleep"
      BY <3>2, <1>4, <3>1 DEF LockEffect, Acquired, Outside
    <3>3. CASE pc[t] # "Asleep"
      BY <3>3, <3>1, <1>3 DEF Acquired
    <3> QED BY <3>2, <3>3
  <2>2. CASE InIfEvent(t)
    <3>1. CASE pc[t] \in Outside \ {"Asleep"} /\ l \notin Outside /\ \E w : Acquired(t, w)
      BY <3>1, <2>1
    <3>2. CASE pc[t] \notin Outside /\ l \in Outside \ {"Asleep"} /\ Released(t)
      BY <3>2, <2>2, <1>3 DEF Released, Outside
    <3>3. CASE pc[t] = "Asleep" /\ l \notin Outside /\ mutex = NoThread /\ mutex' = t
      BY <3>3
    <3>4. CASE pc[t] \notin Outside /\ l \notin Outside /\ mutex' = mutex
      BY <3>4, <1>4
    <3>5. CASE pc[t] = "Idle" /\ l = "Idle" /\ mutex = NoThread /\ mutex' = NoThread
      BY <3>5, <2>2, <1>2, <1>3
    <3> QED BY <3>1, <3>2, <3>3, <3>4, <3>5, <2>2 DEF LockEffect
  <2>3. CASE ~InIfEvent(t) /\ ~\E w : Acquired(t, w)
    <3>1. ~EnterIfEvent(t, r.call) \/ ~\E w : Acquired(t, w)
      BY <2>3
    <3>2. CASE CountedDown(t, l) /\ UNCHANGED ifevent_thread
      BY <3>2, <2>3 DEF CountedDown, InIfEvent, TypeOK, LockTypeOK
    <3>3. CASE UNCHANGED <<in_ifevent, ifevent_thread>>
      BY <3>3, <2>3 DEF InIfEvent
    <3> QED BY <2>3, <3>2, <3>3 DEF IfEffect
  <2> QED BY <2>1, <2>2, <2>3
<1>7. ASSUME NEW u \in Threads, pc'[u] \notin Outside PROVE mutex' = u
  <2>1. CASE u = t
    BY <2>1, <1>1, <1>4, <1>7
  <2>2. CASE u # t
    <3>1. mutex = u
      BY <2>2, <1>1, <1>7 DEF LockHeld
    <3> QED BY <3>1, <2>2, <1>2, <1>4
  <2> QED BY <2>1, <2>2
<1>8. ASSUME NEW u \in Threads, InIfEvent(u)', pc'[u] # "Asleep" PROVE mutex' = u
  <2>1. CASE u = t
    BY <2>1, <1>1, <1>6, <1>8
  <2>2. CASE u # t
    <3>1. mutex = u
      BY <2>2, <1>1, <1>5, <1>8 DEF LockHeld
    <3> QED BY <3>1, <2>2, <1>2, <1>4
  <2> QED BY <2>1, <2>2
<1> QED BY <1>7, <1>8 DEF LockHeld

\* in_ifevent counts the threads that are in an X...IfEvent call.
LEMMA IfCountStep ==
    ASSUME TypeOK, IfCount, NEW t \in Threads, NEW l, NEW r,
           Moved(t, l, r), IfEffect(t, l, r)
    PROVE  IfCount' /\ in_ifevent' \in Nat /\ ifevent_thread' \in Threads \cup {NoThread}
<1>1. /\ pc'[t] = l /\ local'[t] = r
      /\ \A u \in Threads : u # t => pc'[u] = pc[u] /\ local'[u] = local[u]
  BY MovedFacts
<1>2. IsFiniteSet(IfThreads) /\ in_ifevent = Cardinality(IfThreads) /\ in_ifevent \in Nat
  BY DEF IfCount, TypeOK, LockTypeOK
<1>3. \A u \in Threads : u # t => (u \in IfThreads' <=> u \in IfThreads)
  BY <1>1 DEF IfThreads
<1>4. IfThreads \subseteq Threads /\ IfThreads' \subseteq Threads
  BY DEF IfThreads
<1>5. /\ t \in IfThreads <=> pc[t] \notin {"Idle", "Unlock"} /\ local[t].call \in IfCalls
      /\ t \in IfThreads' <=> l \notin {"Idle", "Unlock"} /\ r.call \in IfCalls
  BY <1>1 DEF IfThreads
<1>6. ASSUME t \notin IfThreads, t \in IfThreads', in_ifevent' = in_ifevent + 1
      PROVE  IfCount'
  <2>1. IfThreads' = IfThreads \cup {t}
    BY <1>3, <1>4, <1>6
  <2>2. IsFiniteSet(IfThreads') /\ Cardinality(IfThreads') = Cardinality(IfThreads) + 1
    BY <2>1, <1>2, <1>6, FS_AddElement
  <2> QED BY <2>2, <1>2, <1>6 DEF IfCount
<1>7. ASSUME t \in IfThreads, t \notin IfThreads', in_ifevent' = in_ifevent - 1
      PROVE  IfCount'
  <2>1. IfThreads' = IfThreads \ {t}
    BY <1>3, <1>4, <1>7
  <2>2. IsFiniteSet(IfThreads') /\ Cardinality(IfThreads') = Cardinality(IfThreads) - 1
    BY <2>1, <1>2, <1>7, FS_RemoveElement
  <2>3. Cardinality(IfThreads') \in Nat
    BY <2>2, FS_CardinalityType
  <2> QED BY <2>2, <2>3, <1>2, <1>7 DEF IfCount
<1>8. ASSUME t \in IfThreads <=> t \in IfThreads', in_ifevent' = in_ifevent
      PROVE  IfCount'
  <2>1. IfThreads' = IfThreads
    BY <1>3, <1>4, <1>8
  <2> QED BY <2>1, <1>2, <1>8 DEF IfCount
<1>9. \/ /\ t \notin IfThreads /\ t \in IfThreads' /\ in_ifevent' = in_ifevent + 1
      \/ /\ t \in IfThreads /\ t \notin IfThreads' /\ in_ifevent' = in_ifevent - 1
      \/ /\ t \in IfThreads <=> t \in IfThreads'
         /\ in_ifevent' = in_ifevent
  <2>1. CASE /\ pc[t] = "Idle" /\ l \notin {"Idle", "Unlock"}
             /\ EnterIfEvent(t, r.call)
    BY <2>1, <1>5 DEF EnterIfEvent
  <2>2. CASE /\ pc[t] \notin {"Idle", "Unlock"} /\ l # "Idle"
             /\ r.call = local[t].call /\ CountedDown(t, l)
    BY <2>2, <1>5 DEF CountedDown
  <2>3. CASE /\ pc[t] \in {"Idle", "Unlock"} /\ l = "Idle"
             /\ UNCHANGED <<in_ifevent, ifevent_thread>>
    BY <2>3, <1>5
  <2> QED BY <2>1, <2>2, <2>3 DEF IfEffect
<1>10. IfCount' /\ in_ifevent' \in Nat
  <2>1. IfCount'
    BY <1>6, <1>7, <1>8, <1>9
  <2>2. in_ifevent' \in Nat
    BY <2>1, FS_CardinalityType DEF IfCount
  <2> QED BY <2>1, <2>2
<1>11. ifevent_thread' \in Threads \cup {NoThread}
  BY DEF IfEffect, EnterIfEvent, TypeOK, LockTypeOK
<1> QED BY <1>10, <1>11

-----------------------------------------------------------------------------
(***************************************************************************)
(* What a step does to the queue.                                          *)
(***************************************************************************)
TakesIn(t) ==
    /\ pc[t] = "Poll" /\ arrived # <<>> /\ arrived' = Tail(arrived)
    /\ kind[Head(arrived)] # "error" /\ Enq(Head(arrived))

Removes(t, i) ==
    /\ pc[t] \in {"Scan", "TakeHead"} /\ i \in 1..Len(Queue)
    /\ Deq(IF i = 1 THEN Nil ELSE Queue[i - 1], Queue[i])

QueueCases(t) ==
    \/ UNCHANGED queueVars
    \/ TakesIn(t)
    \/ \E i : Removes(t, i)
    \/ PutBack(t) /\ local[t].got # 0
    \/ Discard(t) /\ head # Nil

\* The head of the queue.
LEMMA HeadFacts ==
    ASSUME TypeOK, Lists
    PROVE  /\ head # Nil <=> Len(Queue) # 0
           /\ head # Nil => head = Queue[1]
<1>1. ASSUME Len(Queue) # 0 PROVE head # Nil /\ head = Queue[1]
  <2>1. 1 \in 1..Len(Queue) /\ Queue # <<>>
    BY <1>1, ListFacts
  <2> QED BY <2>1, ListFacts DEF IsPath, Nil
<1>2. ASSUME Len(Queue) = 0 PROVE head = Nil
  BY <1>2, ListFacts DEF IsPath
<1> QED BY <1>1, <1>2

\* Every step leaves the queue alone or changes it as one of its operations
\* does.
LEMMA QueueSteps ==
    ASSUME TypeOK, Control, Places, Lists, NEW t \in Threads, Thread(t)
    PROVE  QueueCases(t)
<1>1. CASE LockDisplay(t) \/ UnlockDisplay(t) \/ Resume(t) \/ AfterRead(t) \/ NextEvent(t)
  BY <1>1 DEF LockDisplay, UnlockDisplay, Resume, AfterRead, NextEvent, QueueCases
<1>2. CASE RoundTrip(t) \/ WaitForReply(t) \/ Pending(t) \/ ReadLoop(t) \/ WaitForEvent(t)
           \/ XError(t) \/ UserErrorHandler(t)
  BY <1>2 DEF RoundTrip, WaitForReply, Pending, ReadLoop, WaitForEvent, XError, UserErrorHandler,
              QueueCases
<1>3. CASE Scan(t)
  <2>1. PICK k : IsPlace(t, k) /\ (ScanMissed(t, k) \/ \E j : ScanFound(t, k, j))
    BY <1>3, MoveScan
  <2>2. CASE ScanMissed(t, k)
    BY <2>2 DEF ScanMissed, QueueCases
  <2>3. ASSUME NEW j, ScanFound(t, k, j) PROVE QueueCases(t)
    <3>1. pc[t] = "Scan"
      BY <1>3, MoveScan
    <3>2. UNCHANGED queueVars \/ Removes(t, j)
      BY <3>1, <2>3 DEF ScanFound, Removes
    <3> QED BY <3>2 DEF QueueCases
  <2> QED BY <2>1, <2>2, <2>3
<1>4. CASE TakeHead(t)
  <2>1. CASE UNCHANGED queueVars
    BY <2>1 DEF QueueCases
  <2>2. CASE head # Nil /\ Deq(Nil, head)
    <3>1. head = Queue[1] /\ 1 \in 1..Len(Queue)
      BY <2>2, HeadFacts, ListFacts
    <3>2. pc[t] = "TakeHead"
      BY <1>4 DEF TakeHead, At
    <3>3. Removes(t, 1)
      BY <3>1, <3>2, <2>2 DEF Removes
    <3> QED BY <3>3 DEF QueueCases
  <2> QED BY <1>4, <2>1, <2>2, MoveTakeHead
<1>5. CASE PutBack(t)
  BY <1>5, MovePutBack DEF QueueCases
<1>6. CASE Discard(t)
  BY <1>6 DEF Discard, QueueCases
<1>7. CASE Poll(t)
  <2>1. UNCHANGED queueVars \/ TakesIn(t)
    BY <1>7, MovePoll DEF TakesIn
  <2> QED BY <2>1 DEF QueueCases
<1> QED BY <1>1, <1>2, <1>3, <1>4, <1>5, <1>6, <1>7 DEF Thread

QueueTypeOK ==
    /\ head \in {Nil} \cup Elements /\ tail \in {Nil} \cup Elements /\ qfree \in {Nil} \cup Elements
    /\ qlen \in Nat /\ next_event_serial_num \in Nat
    /\ next \in [Elements -> {Nil} \cup Elements]
    /\ qserial_num \in [Elements -> Nat] /\ event \in [Elements -> Nat]
    /\ allocated \in 0..NumElements

\* The queue stays well-formed.
LEMMA QueueStep ==
    ASSUME TypeOK, Control, Lists, Serials, NEW t \in Threads, QueueCases(t)
    PROVE  /\ QueueTypeOK' /\ Lists' /\ Serials'
           /\ next_event_serial_num <= next_event_serial_num'
<1>1. QueueTypeOK /\ arrived \in Seq(Nat)
  BY DEF TypeOK, QueueTypeOK
<1>2. CASE UNCHANGED queueVars
  <2>1. QueueTypeOK' /\ next_event_serial_num <= next_event_serial_num'
    BY <1>1, <1>2 DEF QueueTypeOK, queueVars
  <2> QED BY <2>1, <1>2, SameLists
<1>3. CASE TakesIn(t)
  <2> DEFINE item == Head(arrived)
             c == NewElement
  <2>1. item \in Nat /\ Enq(item) /\ CanAllocate /\ Allocated
    BY <1>1, <1>3, HeadTailTypes DEF TakesIn, Enq
  <2>2. c \in Elements /\ FreeList \in {Nil} \cup Elements /\ allocated' \in 0..NumElements
    <3>1. FreeList \in {Nil} \cup Elements
      BY <1>1 DEF FreeList, QueueTypeOK
    <3> QED BY <3>1, <2>1, NewElementFacts, RestOfFree
  <2> HIDE DEF item
  <2>3. CASE kind[item] = "ignored"
    <3>1. Lists' /\ Serials'
      BY <2>1, <2>3, IgnoredStep
    <3>2. /\ qfree' = c /\ next' = [next EXCEPT ![c] = FreeList]
          /\ UNCHANGED <<head, tail, qlen, next_event_serial_num, qserial_num, event>>
      BY <2>1, <2>3 DEF Enq
    <3> HIDE DEF c
    <3>3. QueueTypeOK' /\ next_event_serial_num <= next_event_serial_num'
      BY <3>2, <2>2, <1>1 DEF QueueTypeOK
    <3> QED BY <3>1, <3>3
  <2>4. CASE kind[item] # "ignored"
    <3>1. Lists' /\ Serials' /\ Queue' = Append(Queue, c)
      BY <2>1, <2>4, EnqStep
    <3>2. /\ qfree' = FreeList
          /\ next' = IF tail # Nil THEN [next EXCEPT ![c] = Nil, ![tail] = c]
                     ELSE [next EXCEPT ![c] = Nil]
          /\ head' = IF tail # Nil THEN head ELSE c
          /\ tail' = c
          /\ qlen' = qlen + 1
          /\ qserial_num' = [qserial_num EXCEPT ![c] = next_event_serial_num]
          /\ next_event_serial_num' = next_event_serial_num + 1
          /\ event' = [event EXCEPT ![c] = item]
      BY <2>1, <2>4 DEF Enq
    <3> HIDE DEF c
    <3>3. next' \in [Elements -> {Nil} \cup Elements]
      BY <3>2, <2>2, <1>1 DEF QueueTypeOK
    <3>4. qserial_num' \in [Elements -> Nat] /\ event' \in [Elements -> Nat]
      BY <3>2, <2>1, <2>2, <1>1 DEF QueueTypeOK
    <3>5. /\ head' \in {Nil} \cup Elements /\ tail' \in {Nil} \cup Elements
          /\ qfree' \in {Nil} \cup Elements /\ allocated' \in 0..NumElements
      BY <3>2, <2>2, <1>1 DEF QueueTypeOK
    <3>6. /\ qlen' \in Nat /\ next_event_serial_num' \in Nat
          /\ next_event_serial_num <= next_event_serial_num'
      BY <3>2, <1>1 DEF QueueTypeOK
    <3>7. QueueTypeOK'
      BY <3>3, <3>4, <3>5, <3>6 DEF QueueTypeOK
    <3> QED BY <3>1, <3>6, <3>7
  <2> QED BY <2>3, <2>4
<1>4. CASE \E i : Removes(t, i)
  <2>1. PICK i \in 1..Len(Queue) : Removes(t, i)
    BY <1>4 DEF Removes
  <2> DEFINE prev == IF i = 1 THEN Nil ELSE Queue[i - 1]
             c == Queue[i]
  <2>2. Deq(prev, c)
    BY <2>1 DEF Removes
  <2>3. c \in Elements /\ prev \in {Nil} \cup Elements
    <3>1. i # 1 => i - 1 \in 1..Len(Queue)
      BY ListFacts
    <3> QED BY <3>1, ListFacts
  <2>4. Lists' /\ Serials' /\ UNCHANGED <<next_event_serial_num, event>>
    BY <2>2, DeqStep
  <2> HIDE DEF prev, c
  <2>5. /\ head' = IF prev = Nil THEN next[c] ELSE head
        /\ tail' = IF next[c] = Nil THEN prev ELSE tail
        /\ next' = [x \in Elements |-> IF x = c THEN qfree
                                       ELSE IF x = prev THEN next[c] ELSE next[x]]
        /\ qserial_num' = [qserial_num EXCEPT ![c] = 0]
        /\ qfree' = c
        /\ UNCHANGED allocated
    BY <2>2 DEF Deq, Zeroed
  <2>6. qlen' \in Nat
    <3>1. qlen' = Len(Queue')
      BY <2>4 DEF Lists
    <3>2. Queue' \in Seq(Elements)
      BY <2>4, PathFacts DEF Lists, TwoLists
    <3> QED BY <3>1, <3>2
  <2>7. QueueTypeOK'
    BY <2>3, <2>4, <2>5, <2>6, <1>1 DEF QueueTypeOK
  <2> QED BY <2>4, <2>7, <1>1 DEF QueueTypeOK
<1>5. CASE PutBack(t) /\ local[t].got # 0
  <2> DEFINE c == NewElement
  <2>1. Lists' /\ Serials' /\ c \in Elements
    BY <1>5, PutBackStep
  <2>2. /\ qfree' = FreeList
        /\ next' = [next EXCEPT ![c] = head]
        /\ qserial_num' = [qserial_num EXCEPT ![c] = next_event_serial_num]
        /\ next_event_serial_num' = next_event_serial_num + 1
        /\ event' = [event EXCEPT ![c] = local[t].got]
        /\ head' = c
        /\ tail' = IF tail = Nil THEN c ELSE tail
        /\ qlen' = qlen + 1
        /\ CanAllocate /\ Allocated
    BY <1>5 DEF PutBack
  <2>3. FreeList \in {Nil} \cup Elements /\ allocated' \in 0..NumElements /\ local[t].got \in Nat
    <3>1. FreeList \in {Nil} \cup Elements
      BY <1>1 DEF FreeList, QueueTypeOK
    <3> QED BY <3>1, <2>2, RestOfFree, LocalTypes
  <2> HIDE DEF c
  <2>4. QueueTypeOK' /\ next_event_serial_num <= next_event_serial_num'
    BY <2>1, <2>2, <2>3, <1>1 DEF QueueTypeOK
  <2> QED BY <2>1, <2>4
<1>6. CASE Discard(t) /\ head # Nil
  <2>1. Lists' /\ Serials' /\ UNCHANGED <<next_event_serial_num, event>>
    BY <1>6, DiscardStep
  <2>2. /\ qserial_num' = AllZeroed
        /\ next' = [next EXCEPT ![tail] = qfree]
        /\ qfree' = head
        /\ head' = Nil /\ tail' = Nil
        /\ qlen' = 0
        /\ UNCHANGED allocated
    BY <1>6 DEF Discard
  <2>3. AllZeroed \in [Elements -> Nat]
    BY <1>1 DEF AllZeroed, QueueTypeOK
  <2>4. QueueTypeOK'
    BY <2>1, <2>2, <2>3, <1>1 DEF QueueTypeOK
  <2> QED BY <2>1, <2>4, <1>1 DEF QueueTypeOK
<1> QED BY <1>2, <1>3, <1>4, <1>5, <1>6 DEF QueueCases

-----------------------------------------------------------------------------
(***************************************************************************)
(* What a step does to a search.                                           *)
(***************************************************************************)
\* A thread that has looked through the queue and found nothing.
Middle == {"AfterRead", "ReadLoop", "WaitForEvent", "Poll", "XError", "UserErrorHandler", "Asleep"}
Looking(l, r) == l \in Middle /\ r.call \in Scans

Begins(t, l, r) ==
    /\ pc[t] = "Idle" /\ script[t] # <<>> /\ script' = [script EXCEPT ![t] = Tail(@)]
    /\ r.call = Head(script[t]).call
    /\ r.call \in Scans => l = "Scan"
    /\ r.prev = Nil /\ r.qe_serial = 0 /\ r.tested = {}
    /\ UNCHANGED queueVars

GoesOn(t, l, r) ==
    /\ pc[t] \in Middle /\ l \in Middle /\ SameSearch(r, local[t])
    /\ UNCHANGED script

Ends(t, l, r) ==
    /\ l \notin {"Idle", "Unlock"} => r.call \notin Scans
    /\ r.call = local[t].call
    /\ l # "Idle" => pc[t] # "Idle"
    /\ UNCHANGED script

LooksAgain(t, l, r) ==
    /\ pc[t] = "AfterRead" /\ l = "Scan"
    /\ local[t].call \in Scans
    /\ r.call = local[t].call /\ r.wants = local[t].wants
    /\ r.prev = IF Snatched(t) THEN Nil ELSE local[t].prev
    /\ r.qe_serial = local[t].qe_serial /\ r.serial = local[t].serial
    /\ r.tested = local[t].tested
    /\ UNCHANGED <<queueVars, script>>

FindsNothing(t, l, r) ==
    /\ pc[t] = "Scan" /\ l \in Middle
    /\ UNCHANGED <<queueVars, script>>
    /\ r.call = local[t].call /\ r.wants = local[t].wants
    /\ r.prev = IF Queue = <<>> THEN Nil ELSE Queue[Len(Queue)]
    /\ r.qe_serial = IF r.prev = Nil THEN local[t].qe_serial ELSE qserial_num[r.prev]
    /\ r.serial = next_event_serial_num
    /\ \E k : /\ IsPlace(t, k)
              /\ \A m \in 1..Len(Queue) : k < m => ~Matches(t, Queue[m])
              /\ \A x \in r.tested :
                    \/ x \in local[t].tested
                    \/ \E m \in 1..Len(Queue) : k < m /\ x = qserial_num[Queue[m]]

SearchEffect(t, l, r) ==
    \/ pc[t] = "Idle" /\ l = "Idle" /\ r = local[t] /\ UNCHANGED <<queueVars, script>>
    \/ Begins(t, l, r)
    \/ GoesOn(t, l, r)
    \/ Ends(t, l, r)
    \/ LooksAgain(t, l, r)
    \/ FindsNothing(t, l, r)

\* Every step of a thread begins a scan, ends it, goes on with it or leaves
\* it alone.
LEMMA SearchSteps ==
    ASSUME TypeOK, ScriptsOK, Control, Places, Lists, NEW t \in Threads, Thread(t)
    PROVE  \E l, r : Moved(t, l, r) /\ SearchEffect(t, l, r)
<1>0. \A c : c \in {"PutBack", "SyncDiscard", "Pending"} \cup HeadCalls => c \notin Scans
  BY DEF HeadCalls, Scans, IfCalls
<1>1. CASE LockDisplay(t)
  <2>0. pc[t] = "Idle" /\ UNCHANGED queueVars
    BY <1>1, MoveLock DEF LockDisplay
  <2>1. CASE UNCHANGED <<pc, local, script>>
    <3>1. Moved(t, "Idle", local[t])
      BY <2>0, <2>1, NotMoved
    <3> QED BY <3>1, <2>0, <2>1 DEF SearchEffect
  <2>2. CASE \E l, r : CallBegins(t, l, r)
    <3>1. PICK l, r : CallBegins(t, l, r)
      BY <2>2
    <3>2. Moved(t, l, r) /\ Begins(t, l, r)
      BY <3>1, <2>0 DEF Begins, CallBegins
    <3> QED BY <3>2 DEF SearchEffect
  <2> QED BY <1>1, <2>1, <2>2, MoveLock
<1>2. CASE UnlockDisplay(t)
  <2>1. pc[t] = "Unlock" /\ UNCHANGED script
    BY <1>2 DEF UnlockDisplay, At
  <2>2. Moved(t, "Idle", local[t])
    BY <1>2, MoveUnlock
  <2> QED BY <2>1, <2>2 DEF SearchEffect, Ends
<1>3. CASE Resume(t)
  <2>1. pc[t] = "Asleep" /\ UNCHANGED script
    BY <1>3 DEF Resume, At
  <2>2. Moved(t, local[t].back, local[t]) /\ local[t].back \in {"ReadLoop", "XError"}
    BY <1>3, <2>1, MoveResume DEF Control, Fits
  <2>3. GoesOn(t, local[t].back, local[t])
    BY <2>1, <2>2 DEF GoesOn, SameSearch, Middle
  <2> QED BY <2>2, <2>3 DEF SearchEffect
<1>4. CASE Scan(t)
  <2>1. UNCHANGED script /\ pc[t] = "Scan"
    BY <1>4, MoveScan DEF Scan
  <2>2. PICK k : IsPlace(t, k) /\ (ScanMissed(t, k) \/ \E j : ScanFound(t, k, j))
    BY <1>4, MoveScan
  <2>3. CASE ScanMissed(t, k)
    <3>1. PICK l, r :
             /\ Moved(t, l, r) /\ l \in {"Unlock", "AfterRead", "Poll", "ReadLoop"}
             /\ r.call = local[t].call /\ r.wants = local[t].wants
             /\ r.prev = IF Queue = <<>> THEN Nil ELSE Queue[Len(Queue)]
             /\ r.qe_serial = IF r.prev = Nil THEN local[t].qe_serial ELSE qserial_num[r.prev]
             /\ r.serial = next_event_serial_num
             /\ \A x \in r.tested :
                   \/ x \in local[t].tested
                   \/ \E m \in 1..Len(Queue) : k < m /\ x = qserial_num[Queue[m]]
      BY <2>3 DEF ScanMissed
    <3>2. UNCHANGED queueVars /\ \A m \in 1..Len(Queue) : k < m => ~Matches(t, Queue[m])
      BY <2>3 DEF ScanMissed
    <3>3. CASE l = "Unlock"
      <4>1. Ends(t, l, r)
        BY <3>1, <3>3, <2>1 DEF Ends
      <4> QED BY <4>1, <3>1 DEF SearchEffect
    <3>4. CASE l # "Unlock"
      <4>1. l \in Middle
        BY <3>1, <3>4 DEF Middle
      <4>2. FindsNothing(t, l, r)
        BY <4>1, <3>1, <3>2, <2>1, <2>2 DEF FindsNothing
      <4> QED BY <4>2, <3>1 DEF SearchEffect
    <3> QED BY <3>3, <3>4
  <2>4. CASE \E j : ScanFound(t, k, j)
    <3>1. PICK r : Moved(t, "Unlock", r) /\ r.call = local[t].call
      BY <2>4 DEF ScanFound
    <3>2. Ends(t, "Unlock", r)
      BY <3>1, <2>1 DEF Ends
    <3> QED BY <3>1, <3>2 DEF SearchEffect
  <2> QED BY <2>2, <2>3, <2>4
<1>5. CASE AfterRead(t)
  <2>1. pc[t] = "AfterRead" /\ UNCHANGED <<queueVars, script>>
    BY <1>5 DEF AfterRead, At
  <2>2. CASE /\ local[t].call \in Scans
             /\ \E r : /\ Moved(t, "Scan", r)
                       /\ r.call = local[t].call /\ r.wants = local[t].wants
                       /\ r.prev = IF Snatched(t) THEN Nil ELSE local[t].prev
                       /\ r.qe_serial = local[t].qe_serial /\ r.serial = local[t].serial
                       /\ r.got = local[t].got /\ r.tested = local[t].tested
    BY <2>1, <2>2 DEF SearchEffect, LooksAgain
  <2>3. CASE local[t].call \in HeadCalls /\ Moved(t, "TakeHead", local[t])
    <3>1. Ends(t, "TakeHead", local[t])
      BY <1>0, <2>1, <2>3 DEF Ends
    <3> QED BY <3>1, <2>3 DEF SearchEffect
  <2> QED BY <1>5, <2>2, <2>3, MoveAfterRead
<1>6. CASE NextEvent(t)
  <2>1. pc[t] = "Head" /\ UNCHANGED script
    BY <1>6 DEF NextEvent, At
  <2>2. PICK l, r : Moved(t, l, r) /\ r.call = local[t].call /\ local[t].call \in HeadCalls
    BY <1>6, MoveNextEvent
  <2>3. Ends(t, l, r)
    BY <1>0, <2>1, <2>2 DEF Ends
  <2> QED BY <2>2, <2>3 DEF SearchEffect
<1>7. CASE TakeHead(t)
  <2>1. pc[t] = "TakeHead" /\ UNCHANGED script
    BY <1>7 DEF TakeHead, At
  <2>2. PICK r : Moved(t, "Unlock", r) /\ r.call = local[t].call
    BY <1>7, MoveTakeHead
  <2>3. Ends(t, "Unlock", r)
    BY <2>1, <2>2 DEF Ends
  <2> QED BY <2>2, <2>3 DEF SearchEffect
<1>8. CASE PutBack(t)
  <2>1. pc[t] = "PutBack" /\ UNCHANGED script
    BY <1>8 DEF PutBack, At
  <2>2. PICK r : Moved(t, "Unlock", r) /\ r.call = local[t].call
    BY <1>8, MovePutBack
  <2>3. Ends(t, "Unlock", r)
    BY <2>1, <2>2 DEF Ends
  <2> QED BY <2>2, <2>3 DEF SearchEffect
<1>9. CASE RoundTrip(t)
  <2>1. pc[t] = "RoundTrip" /\ UNCHANGED script
    BY <1>9 DEF RoundTrip, At
  <2>2. Moved(t, "WaitForReply", local[t]) /\ local[t].call \notin Scans
    BY <1>0, <1>9, MoveRoundTrip
  <2> QED BY <2>1, <2>2 DEF SearchEffect, Ends
<1>10. CASE WaitForReply(t)
  <2>1. pc[t] = "WaitForReply" /\ UNCHANGED script
    BY <1>10 DEF WaitForReply, At
  <2>2. PICK l, r : Moved(t, l, r) /\ r.call = local[t].call
    BY <1>10, MoveWaitForReply DEF SameSearch
  <2>3. local[t].call \notin Scans
    BY <1>0, <1>10, MoveWaitForReply
  <2> QED BY <2>1, <2>2, <2>3 DEF SearchEffect, Ends
<1>11. CASE Discard(t)
  <2>1. pc[t] = "Discard" /\ UNCHANGED script
    BY <1>11 DEF Discard, At
  <2>2. Moved(t, "Unlock", local[t])
    BY <1>11, MoveDiscard
  <2> QED BY <2>1, <2>2 DEF SearchEffect, Ends
<1>12. CASE Pending(t)
  <2>1. pc[t] = "Pending" /\ UNCHANGED script
    BY <1>12 DEF Pending, At
  <2>2. PICK l, r : Moved(t, l, r) /\ r.call = local[t].call
    BY <1>12, MovePending DEF SameSearch
  <2>3. local[t].call \notin Scans
    BY <1>0, <1>12, MovePending
  <2> QED BY <2>1, <2>2, <2>3 DEF SearchEffect, Ends
<1>13. CASE ReadLoop(t)
  <2>1. pc[t] = "ReadLoop" /\ UNCHANGED script
    BY <1>13 DEF ReadLoop, At
  <2>2. PICK l, r : /\ Moved(t, l, r) /\ SameSearch(r, local[t])
                    /\ l \in {"AfterRead", "Poll", "Asleep", "WaitForEvent"}
    BY <1>13, MoveReadLoop
  <2>3. GoesOn(t, l, r)
    BY <2>1, <2>2 DEF GoesOn, Middle
  <2> QED BY <2>2, <2>3 DEF SearchEffect
<1>14. CASE WaitForEvent(t)
  <2>1. pc[t] = "WaitForEvent" /\ UNCHANGED script
    BY <1>14 DEF WaitForEvent, At
  <2>2. PICK r : Moved(t, "Poll", r) /\ SameSearch(r, local[t])
    BY <1>14, MoveWaitForEvent
  <2>3. GoesOn(t, "Poll", r)
    BY <2>1, <2>2 DEF GoesOn, Middle
  <2> QED BY <2>2, <2>3 DEF SearchEffect
<1>15. CASE Poll(t)
  <2>1. pc[t] = "Poll" /\ UNCHANGED script
    BY <1>15, MovePoll DEF Poll
  <2>2. PICK l, r : /\ Moved(t, l, r) /\ SameSearch(r, local[t])
                    /\ l \in {"Poll", "AfterRead", "Discard", "Unlock", "ReadLoop", "XError"}
    BY <1>15, MovePoll
  <2>3. CASE l \in {"Poll", "AfterRead", "ReadLoop", "XError"}
    <3>1. GoesOn(t, l, r)
      BY <2>1, <2>2, <2>3 DEF GoesOn, Middle
    <3> QED BY <2>2, <3>1 DEF SearchEffect
  <2>4. CASE l \in {"Discard", "Unlock"}
    <3>1. l = "Discard" => r.call \notin Scans
      BY <1>0, <2>2 DEF Moved, Fits
    <3>2. Ends(t, l, r)
      BY <3>1, <2>1, <2>2, <2>4 DEF Ends, SameSearch
    <3> QED BY <2>2, <3>2 DEF SearchEffect
  <2> QED BY <2>2, <2>3, <2>4
<1>16. CASE XError(t)
  <2>1. pc[t] = "XError" /\ UNCHANGED script
    BY <1>16 DEF XError, At
  <2>2. PICK l, r : /\ Moved(t, l, r) /\ l \in {"Asleep", "UserErrorHandler"}
                    /\ SameSearch(r, local[t])
    BY <1>16, MoveXError
  <2>3. GoesOn(t, l, r)
    BY <2>1, <2>2 DEF GoesOn, Middle
  <2> QED BY <2>2, <2>3 DEF SearchEffect
<1>17. CASE UserErrorHandler(t)
  <2>1. pc[t] = "UserErrorHandler" /\ UNCHANGED script
    BY <1>17 DEF UserErrorHandler, At
  <2>2. Moved(t, local[t].resume, local[t]) /\ local[t].resume \in {"Poll", "ReadLoop"}
    BY <1>17, MoveUserErrorHandler
  <2>3. GoesOn(t, local[t].resume, local[t])
    BY <2>1, <2>2 DEF GoesOn, SameSearch, Middle
  <2> QED BY <2>2, <2>3 DEF SearchEffect
<1> QED BY <1>1, <1>2, <1>3, <1>4, <1>5, <1>6, <1>7, <1>8, <1>9, <1>10, <1>11, <1>12, <1>13,
           <1>14, <1>15, <1>16, <1>17 DEF Thread

\* Only the thread that has the lock changes the queue.
LEMMA OthersWait ==
    ASSUME TypeOK, LockHeld, NEW t \in Threads, QueueCases(t), NEW u \in Threads, u # t,
           pc[u] \notin Outside
    PROVE  UNCHANGED queueVars
<1>1. pc[t] \in {"Poll", "Scan", "TakeHead", "PutBack", "Discard"} => UNCHANGED queueVars
  BY DEF LockHeld, Outside
<1> QED BY <1>1 DEF QueueCases, TakesIn, Removes, PutBack, Discard, At

\* The serial number of an element that is in no queue is 0.
LEMMA PlacesStep ==
    ASSUME TypeOK, Control, LockHeld, Places, Lists, Serials, NEW t \in Threads, NEW l, NEW r,
           Moved(t, l, r), SearchEffect(t, l, r), QueueCases(t)
    PROVE  Places'
<1>1. /\ pc'[t] = l /\ local'[t] = r /\ r \in Locals
      /\ \A u \in Threads : u # t => pc'[u] = pc[u] /\ local'[u] = local[u]
  BY MovedFacts DEF Moved
<1>2. /\ next_event_serial_num \in Nat /\ next_event_serial_num' \in Nat
      /\ next_event_serial_num <= next_event_serial_num'
      /\ next_event_serial_num # 0
  BY QueueStep DEF TypeOK, QueueTypeOK, Serials
<1>3. UNCHANGED queueVars => Queue' = Queue
  BY SameLists
<1>4. ASSUME NEW u \in Threads, u # t PROVE PlaceOK(pc[u], local[u])'
  <2>1. PlaceOK(pc[u], local[u]) /\ local[u].qe_serial \in Nat
    BY LocalTypes DEF Places
  <2>2. pc[u] = "Scan" => Queue' = Queue
    BY <1>3, <1>4, OthersWait DEF Outside
  <2> QED BY <1>1, <1>2, <1>4, <2>1, <2>2 DEF PlaceOK, Searching
<1>5. PlaceOK(l, r)'
  <2>0. PlaceOK(pc[t], local[t]) /\ local[t].qe_serial \in Nat /\ r.qe_serial \in Nat
        /\ local[t].prev \in {Nil} \cup Elements
    BY <1>1, LocalTypes DEF Places, Locals
  <2>1. CASE pc[t] = "Idle" /\ l = "Idle"
    BY <2>1 DEF PlaceOK, Searching
  <2>2. CASE Begins(t, l, r)
    BY <2>2, <1>2 DEF Begins, PlaceOK
  <2>3. CASE GoesOn(t, l, r)
    <3>1. Searching(l, r) => Searching(pc[t], local[t]) /\ l # "Scan"
      BY <2>3 DEF GoesOn, Searching, SameSearch, Middle
    <3>2. r.prev = local[t].prev /\ r.qe_serial = local[t].qe_serial
      BY <2>3 DEF GoesOn, SameSearch
    <3> QED BY <3>1, <3>2, <2>0, <1>2 DEF PlaceOK
  <2>4. CASE Ends(t, l, r)
    BY <2>4 DEF Ends, PlaceOK, Searching
  <2>5. CASE LooksAgain(t, l, r)
    <3>1. Searching(pc[t], local[t])
      BY <2>5 DEF LooksAgain, Searching
    <3>2. r.prev # Nil => r.prev \in Range(Queue) /\ r.prev = local[t].prev
      <4> SUFFICES ASSUME r.prev # Nil PROVE r.prev \in Range(Queue) /\ r.prev = local[t].prev
        OBVIOUS
      <4>1. ~Snatched(t) /\ r.prev = local[t].prev
        BY <2>5 DEF LooksAgain
      <4>2. qserial_num[r.prev] = local[t].qe_serial
        BY <4>1 DEF Snatched
      <4>3. local[t].qe_serial # 0
        BY <4>1, <3>1, <2>0 DEF PlaceOK
      <4>4. r.prev \in Elements
        BY <4>1, <2>0
      <4> QED BY <4>1, <4>2, <4>3, <4>4 DEF Serials
    <3>3. Queue' = Queue /\ r.qe_serial = local[t].qe_serial
      BY <2>5, <1>3 DEF LooksAgain
    <3> QED BY <3>1, <3>2, <3>3, <2>0, <1>2 DEF PlaceOK
  <2>6. CASE FindsNothing(t, l, r)
    <3>1. Searching(pc[t], local[t]) \/ ~Searching(l, r)
      BY <2>6 DEF FindsNothing, Searching
    <3>2. l # "Scan"
      BY <2>6 DEF FindsNothing, Middle
    <3>3. CASE Queue = <<>>
      BY <3>1, <3>2, <3>3, <2>0, <2>6, <1>2 DEF FindsNothing, PlaceOK
    <3>4. CASE Queue # <<>>
      <4>1. Len(Queue) \in 1..Len(Queue)
        BY <3>4, ListFacts
      <4>2. r.prev \in Range(Queue) /\ r.prev \in Elements /\ r.prev # Nil
        BY <4>1, <3>4, <2>6, ListFacts, RangeFacts DEF FindsNothing, Nil
      <4>3. r.qe_serial = qserial_num[r.prev]
        BY <4>2, <2>6 DEF FindsNothing
      <4>4. r.qe_serial \in 1..(next_event_serial_num - 1)
        BY <4>2, <4>3 DEF Serials
      <4> QED BY <4>4, <3>2, <1>2, <2>0 DEF PlaceOK
    <3> QED BY <3>3, <3>4
  <2> QED BY <2>1, <2>2, <2>3, <2>4, <2>5, <2>6 DEF SearchEffect
<1>6. ASSUME NEW u \in Threads PROVE PlaceOK(pc[u], local[u])'
  <2>1. CASE u = t
    BY <2>1, <1>1, <1>5 DEF PlaceOK, Searching
  <2>2. CASE u # t
    BY <2>2, <1>4
  <2> QED BY <2>1, <2>2
<1> QED BY <1>6 DEF Places

(***************************************************************************)
(* The invariant that holds for all threads and all scripts.               *)
(***************************************************************************)
QInv ==
    /\ TypeOK /\ ScriptsOK /\ Control
    /\ LockHeld /\ IfCount
    /\ Lists /\ Serials /\ Places

\* What is left of the types.
LEMMA RestTypes ==
    ASSUME TypeOK, Control, Places, Lists, NEW t \in Threads, Thread(t)
    PROVE  /\ locking_level' \in Nat /\ locking_thread' \in Threads \cup {NoThread}
           /\ sleeping' \in [CondVars -> SUBSET Threads]
           /\ event_waiter' \in BOOLEAN
           /\ kind' \in Seq(Kinds \cup Odd) /\ arrived' \in Seq(Nat)
           /\ returned' \in SUBSET Nat
           /\ fatal' \in {"none", "event_waiter_assert", "null_pointer"}
<1> DEFINE UserLockOK == /\ locking_level' \in Nat /\ locking_thread' \in Threads \cup {NoThread}
           SleepOK == sleeping' \in [CondVars -> SUBSET Threads]
           ServerOK == kind' \in Seq(Kinds \cup Odd) /\ arrived' \in Seq(Nat)
           EndOK == /\ event_waiter' \in BOOLEAN
                    /\ fatal' \in {"none", "event_waiter_assert", "null_pointer"}
           ReturnedOK == returned' \in SUBSET Nat
<1>0. /\ locking_level \in Nat /\ locking_thread \in Threads \cup {NoThread}
      /\ sleeping \in [CondVars -> SUBSET Threads]
      /\ event_waiter \in BOOLEAN
      /\ kind \in Seq(Kinds \cup Odd) /\ arrived \in Seq(Nat)
      /\ returned \in SUBSET Nat
      /\ fatal \in {"none", "event_waiter_assert", "null_pointer"}
      /\ event \in [Elements -> Nat] /\ local[t].got \in Nat
  BY LocalTypes DEF TypeOK, LockTypeOK
<1> SUFFICES UserLockOK /\ SleepOK /\ ServerOK /\ EndOK /\ ReturnedOK
  OBVIOUS
<1>1. CASE LockDisplay(t)
  <2>1. SleepOK
    BY <1>0, <1>1 DEF LockDisplay, MustWait, ConditionWait
  <2> QED BY <2>1, <1>0, <1>1 DEF LockDisplay, userLockVars, serverVars
<1>2. CASE UnlockDisplay(t) \/ Resume(t) \/ RoundTrip(t) \/ WaitForReply(t)
  BY <1>0, <1>2 DEF UnlockDisplay, Resume, RoundTrip, WaitForReply, userLockVars, serverVars
<1>3. CASE AfterRead(t) \/ NextEvent(t) \/ Discard(t) \/ Pending(t)
  BY <1>0, <1>3 DEF AfterRead, NextEvent, Discard, Pending, lockVars, serverVars
<1>4. CASE Scan(t)
  <2>1. PICK k : IsPlace(t, k) /\ (ScanMissed(t, k) \/ \E j : ScanFound(t, k, j))
    BY <1>4, MoveScan
  <2>2. CASE returned' = returned
    BY <1>0, <1>4, <2>2 DEF Scan, userLockVars, serverVars
  <2>3. CASE \E j \in 1..Len(Queue) : returned' = returned \cup {event[Queue[j]]}
    <3>1. ReturnedOK
      <4>1. PICK j \in 1..Len(Queue) : returned' = returned \cup {event[Queue[j]]}
        BY <2>3
      <4>2. event[Queue[j]] \in Nat
        BY <1>0, ListFacts
      <4> QED BY <4>1, <4>2, <1>0
    <3> QED BY <3>1, <1>0, <1>4 DEF Scan, userLockVars, serverVars
  <2> QED BY <2>1, <2>2, <2>3 DEF ScanMissed, ScanFound
<1>5. CASE TakeHead(t)
  <2>1. head # Nil => event[head] \in Nat
    BY <1>0, ListFacts DEF TypeOK
  <2>2. ReturnedOK /\ EndOK
    BY <1>0, <1>5, <2>1 DEF TakeHead
  <2> QED BY <2>2, <1>0, <1>5 DEF TakeHead, lockVars, serverVars
<1>6. CASE PutBack(t)
  <2>1. ReturnedOK
    BY <1>0, <1>6 DEF PutBack
  <2> QED BY <2>1, <1>0, <1>6 DEF PutBack, lockVars, serverVars
<1>7. CASE ReadLoop(t)
  <2>1. SleepOK
    BY <1>0, <1>7 DEF ReadLoop, ConditionWait
  <2>2. EndOK
    BY <1>0, <1>7 DEF ReadLoop
  <2> QED BY <2>1, <2>2, <1>0, <1>7 DEF ReadLoop, userLockVars, serverVars
<1>8. CASE WaitForEvent(t)
  <2>1. SleepOK
    BY <1>0, <1>8 DEF WaitForEvent, ConditionBroadcast
  <2> QED BY <2>1, <1>0, <1>8 DEF WaitForEvent, userLockVars, serverVars
<1>9. CASE Poll(t)
  <2>1. arrived' \in Seq(Nat)
    <3>1. UNCHANGED arrived \/ (arrived # <<>> /\ arrived' = Tail(arrived))
      BY <1>9 DEF Poll
    <3> QED BY <3>1, <1>0, HeadTailTypes
  <2>2. EndOK
    BY <1>0, <1>9 DEF Poll
  <2> QED BY <2>1, <2>2, <1>0, <1>9 DEF Poll, lockVars
<1>10. CASE XError(t)
  <2>1. SleepOK
    BY <1>0, <1>10 DEF XError, ConditionWait
  <2>2. UserLockOK
    BY <1>0, <1>10 DEF XError, UserLocked, userLockVars
  <2> QED BY <2>1, <2>2, <1>0, <1>10 DEF XError, serverVars
<1>11. CASE UserErrorHandler(t)
  <2>1. SleepOK
    BY <1>0, <1>11 DEF UserErrorHandler, UserUnlocked, ConditionBroadcast
  <2>2. UserLockOK
    BY <1>0, <1>11 DEF UserErrorHandler, UserUnlocked
  <2> QED BY <2>1, <2>2, <1>0, <1>11 DEF UserErrorHandler, serverVars
<1> QED BY <1>1, <1>2, <1>3, <1>4, <1>5, <1>6, <1>7, <1>8, <1>9, <1>10, <1>11 DEF Thread

\* The lock belongs to a thread or to none.
LEMMA MutexType ==
    ASSUME TypeOK, NEW t \in Threads, NEW l, LockEffect(t, l)
    PROVE  mutex' \in Threads \cup {NoThread}
<1>1. mutex \in Threads \cup {NoThread}
  BY DEF TypeOK, LockTypeOK
<1>2. (\E w : Acquired(t, w)) => mutex' \in {mutex, t}
  BY DEF Acquired
<1>3. Released(t) => mutex' \in {mutex, NoThread}
  BY DEF Released
<1> QED BY <1>1, <1>2, <1>3 DEF LockEffect

\* A thread's step.
LEMMA QInvThread ==
    ASSUME QInv, NEW t \in Threads, Thread(t)
    PROVE  QInv'
<1> USE DEF QInv
<1>1. PICK l, r : Moved(t, l, r) /\ LockEffect(t, l) /\ IfEffect(t, l, r)
  BY ThreadSteps
<1>2. PICK l2, r2 : Moved(t, l2, r2) /\ SearchEffect(t, l2, r2)
  BY SearchSteps
<1>3. ScriptsOK' /\ QueueCases(t)
  BY ThreadSteps, QueueSteps
<1>4. QueueTypeOK' /\ Lists' /\ Serials'
  BY <1>3, QueueStep
<1>5. LockHeld'
  BY <1>1, LockHeldStep
<1>6. IfCount' /\ in_ifevent' \in Nat /\ ifevent_thread' \in Threads \cup {NoThread}
  BY <1>1, IfCountStep
<1>7. Places'
  BY <1>2, <1>3, PlacesStep
<1>8. Control' /\ pc' \in [Threads -> Labels] /\ local' \in [Threads -> Locals]
  BY <1>1, MovedFacts
<1>9. TypeOK'
  <2>1. LockTypeOK'
    BY <1>1, <1>6, MutexType, RestTypes DEF LockTypeOK
  <2> QED BY <2>1, <1>4, <1>8, RestTypes DEF TypeOK, QueueTypeOK
<1> QED BY <1>3, <1>4, <1>5, <1>6, <1>7, <1>8, <1>9

\* The server and a process that has stopped disturb nothing.
LEMMA QInvSame ==
    ASSUME QInv, UNCHANGED <<lockVars, queueVars, pc, script, local>>,
           event_waiter' \in BOOLEAN,
           kind' \in Seq(Kinds \cup Odd), arrived' \in Seq(Nat),
           returned' \in SUBSET Nat,
           fatal' \in {"none", "event_waiter_assert", "null_pointer"}
    PROVE  QInv'
<1>1. /\ UNCHANGED <<mutex, locking_level, locking_thread, in_ifevent, ifevent_thread, sleeping>>
      /\ UNCHANGED <<head, tail, qfree, qlen, next_event_serial_num, next, qserial_num, event,
                     allocated>>
      /\ UNCHANGED <<pc, script, local>>
  BY DEF lockVars, queueVars
<1>2. Lists' /\ Serials' /\ Queue' = Queue
  BY SameLists DEF QInv
<1>3. TypeOK'
  <2>1. LockTypeOK'
    BY <1>1 DEF QInv, TypeOK, LockTypeOK
  <2>2. QueueTypeOK'
    BY <1>1 DEF QInv, TypeOK, QueueTypeOK
  <2>3. pc' \in [Threads -> Labels] /\ local' \in [Threads -> Locals]
    BY <1>1 DEF QInv, TypeOK
  <2> QED BY <2>1, <2>2, <2>3 DEF TypeOK, QueueTypeOK
<1>4. ScriptsOK' /\ Control'
  BY <1>1 DEF QInv, ScriptsOK, Control
<1>5. LockHeld'
  BY <1>1 DEF QInv, LockHeld, InIfEvent
<1>6. IfCount'
  <2>1. IfThreads' = IfThreads
    BY <1>1 DEF IfThreads
  <2> QED BY <2>1, <1>1 DEF QInv, IfCount
<1>7. Places'
  BY <1>1, <1>2 DEF QInv, Places, PlaceOK, Searching
<1> QED BY <1>2, <1>3, <1>4, <1>5, <1>6, <1>7 DEF QInv

\* The invariant holds at the start.
LEMMA QInvInit == Init => QInv
<1> SUFFICES ASSUME Init PROVE QInv
  OBVIOUS
<1>1. LockTypeOK
  BY DEF Init, LockInit, LockTypeOK, CondVars
<1>2. QueueTypeOK
  <2>1. 1 \in Nat /\ 0 \in 0..NumElements
    BY BoundsAssumption
  <2> QED BY <2>1 DEF Init, QueueTypeOK, Nil
<1>3. pc \in [Threads -> Labels] /\ \A t \in Threads : pc[t] = "Idle"
  BY DEF Init, Labels
<1>4. local \in [Threads -> Locals]
  <2> DEFINE r == [call |-> "Pending", wants |-> {}, prev |-> Nil, qe_serial |-> 0,
                   n |-> 0, serial |-> 0, mode |-> "Read", back |-> "Idle",
                   resume |-> "Idle", got |-> 0, tested |-> {}]
  <2>1. r \in Locals
    BY DEF Locals, Calls, Labels, Nil
  <2> HIDE DEF r
  <2>2. local = [t \in Threads |-> r]
    BY DEF Init, r
  <2> QED BY <2>1, <2>2
<1>5. kind = <<>> /\ arrived = <<>> /\ returned = {} /\ fatal = "none" /\ event_waiter = FALSE
  BY DEF Init
<1>6. TypeOK
  <2>1. kind \in Seq(Kinds \cup Odd) /\ arrived \in Seq(Nat)
    BY <1>5
  <2> QED BY <1>1, <1>2, <1>3, <1>4, <1>5, <2>1 DEF TypeOK, QueueTypeOK
<1>7. ScriptsOK
  <2>1. script \in Scripts
    BY DEF Init
  <2> QED BY <2>1, ScriptAssumption DEF ScriptsOK
<1>8. Control
  BY <1>3 DEF Control, Fits, Polling
<1>9. LockHeld /\ IfCount
  <2>1. IfThreads = {}
    BY <1>3 DEF IfThreads
  <2>2. in_ifevent = 0
    BY DEF Init, LockInit
  <2>3. IfCount
    BY <2>1, <2>2, FS_EmptySet DEF IfCount
  <2>4. LockHeld
    BY <1>3, <2>2 DEF LockHeld, Outside, InIfEvent
  <2> QED BY <2>3, <2>4
<1>10. Queue = <<>> /\ Free = <<>> /\ Lists
  <2> DEFINE e == <<>>
  <2>1. head = Nil /\ qfree = Nil /\ tail = Nil /\ qlen = 0 /\ allocated = 0
    BY DEF Init
  <2>2. /\ e \in Seq(Elements) /\ Len(e) = 0 /\ IsInjective(e) /\ Range(e) = {}
        /\ IsPath(next, e, Nil)
    BY DEF IsPath, IsInjective, Range
  <2>3. Queue = e /\ Free = e
    BY <2>1, <2>2, PathFound DEF Queue, Free, From
  <2>4. Range(e) \cup Range(e) = 1..allocated
    BY <2>1, <2>2
  <2>5. TwoLists(next, Queue, head, Free, qfree, allocated)
    BY <2>1, <2>2, <2>3, <2>4 DEF TwoLists
  <2>6. Lists
    BY <2>1, <2>2, <2>3, <2>5 DEF Lists
  <2> QED BY <2>3, <2>6
<1>11. Serials
  <2>1. Range(Queue) = {}
    BY <1>10 DEF Range
  <2> QED BY <2>1 DEF Init, Serials
<1>12. Places
  BY <1>3 DEF Places, PlaceOK, Searching
<1> QED BY <1>6, <1>7, <1>8, <1>9, <1>10, <1>11, <1>12 DEF QInv

\* The server sends an item.
LEMMA SendTypes ==
    ASSUME TypeOK, Send
    PROVE  /\ kind' \in Seq(Kinds \cup Odd) /\ arrived' \in Seq(Nat)
           /\ Len(kind') = Len(kind) + 1 /\ Len(arrived') = Len(arrived) + 1
           /\ \A i \in 1..Len(kind) : kind'[i] = kind[i]
           /\ \A i \in 1..Len(arrived) : arrived'[i] = arrived[i]
           /\ arrived'[Len(arrived) + 1] = Len(kind) + 1
           /\ \E k \in Kinds \cup Odd : kind' = Append(kind, k)
<1>1. kind \in Seq(Kinds \cup Odd) /\ arrived \in Seq(Nat)
  BY DEF TypeOK
<1>2. PICK k \in Kinds \cup Odd : kind' = Append(kind, k)
  BY DEF Send
<1>3. arrived' = Append(arrived, Len(kind) + 1) /\ Len(kind) + 1 \in Nat
  BY <1>1 DEF Send
<1> HIDE DEF Send
<1> QED BY <1>1, <1>2, <1>3

\* Every step keeps it.
LEMMA QInvStep == QInv /\ [Next]_vars => QInv'
<1> SUFFICES ASSUME QInv, [Next]_vars PROVE QInv'
  OBVIOUS
<1>0. TypeOK
  BY DEF QInv
<1>1. CASE \E t \in Threads : Thread(t)
  BY <1>1, QInvThread
<1>2. CASE Send
  <2>1. kind' \in Seq(Kinds \cup Odd) /\ arrived' \in Seq(Nat)
    BY <1>0, <1>2, SendTypes
  <2>2. UNCHANGED <<lockVars, queueVars, event_waiter, returned, pc, script, local, fatal>>
    BY <1>2 DEF Send
  <2> QED BY <2>1, <2>2, <1>0, QInvSame DEF TypeOK
<1>3. CASE UNCHANGED vars
  <2>1. UNCHANGED <<lockVars, queueVars, event_waiter, kind, arrived, returned, pc, script, local,
                    fatal>>
    BY <1>3 DEF vars, serverVars
  <2> QED BY <2>1, <1>0, QInvSame DEF TypeOK
<1> QED BY <1>1, <1>2, <1>3 DEF Next, Stopped

\* The lists, the lock and the places of the scans, in every reachable state.
THEOREM QueueInvariance == Spec => []QInv
BY QInvInit, QInvStep, PTL DEF Spec

\* The queue is well-formed.
LEMMA WellFormedFromInv == QInv => QueueWellFormed
<1> SUFFICES ASSUME QInv PROVE QueueWellFormed
  OBVIOUS
<1>0. TypeOK /\ Lists /\ Serials /\ Places
  BY DEF QInv
<1> DEFINE q == Queue
           f == Free
<1>1. IsInjective(q \o f) /\ Range(q \o f) = Range(q) \cup Range(f)
  BY <1>0, ListFacts, ConcatMembers
<1>2. Range(Queue \o Free) = 1..allocated
  BY <1>0, <1>1, ListFacts
<1>3. tail = IF Queue = <<>> THEN Nil ELSE Last(Queue)
  BY <1>0 DEF Lists, Last
<1>4. ScanStaysInQueue
  <2> SUFFICES ASSUME NEW t \in Threads, pc[t] = "Scan"
               PROVE  local[t].prev \in {Nil} \cup Range(Queue)
    BY DEF ScanStaysInQueue
  <2>1. Searching(pc[t], local[t])
    <3>1. Fits("Scan", local[t])
      BY DEF QInv, Control
    <3> QED BY <3>1 DEF Searching, Fits
  <2> QED BY <2>1, <1>0 DEF Places, PlaceOK
<1>5. Len(Queue) = qlen
  BY <1>0 DEF Lists
<1>6. /\ \A c \in Range(Queue) : qserial_num[c] \in 1..(next_event_serial_num - 1)
      /\ \A c, d \in Range(Queue) : c # d => qserial_num[c] # qserial_num[d]
  BY <1>0 DEF Serials
<1> QED BY <1>1, <1>2, <1>3, <1>4, <1>5, <1>6 DEF QueueWellFormed

\* The queue and the free list stay two disjoint lists without cycles that
\* hold each element once, with the length, the tail and the serial numbers
\* that the code keeps beside them, and no scan follows an element that has
\* left the queue: src/src/XlibInt.c, whatever the threads call.
THEOREM QueueStaysWellFormed == Spec => []QueueWellFormed
BY QueueInvariance, WellFormedFromInv, PTL

-----------------------------------------------------------------------------
(***************************************************************************)
(* The calls that threads are in or may still make.                        *)
(***************************************************************************)
Asks(calls, C) == \E i \in 1..Len(calls) : calls[i].call \in C
HasCall(t, C) == (pc[t] # "Idle" /\ local[t].call \in C) \/ Asks(script[t], C)

\* What the rest of a script asks for, the script asks for.
LEMMA AsksTail ==
    ASSUME NEW s \in Seq([call : Calls, wants : SUBSET Kinds]), s # <<>>, NEW C
    PROVE  /\ Asks(Tail(s), C) => Asks(s, C)
           /\ Head(s).call \in C => Asks(s, C)
<1>1. Len(s) \in Nat /\ Len(s) # 0 /\ Head(s) = s[1] /\ 1 \in 1..Len(s)
  OBVIOUS
<1>2. Len(Tail(s)) = Len(s) - 1 /\ \A i \in 1..(Len(s) - 1) : Tail(s)[i] = s[i + 1]
  BY <1>1
<1>3. ASSUME Asks(Tail(s), C) PROVE Asks(s, C)
  <2> DEFINE r == Tail(s)
  <2>1. PICK i \in 1..Len(r) : r[i].call \in C
    BY <1>3 DEF Asks
  <2>2. i + 1 \in 1..Len(s) /\ s[i + 1] = r[i]
    BY <1>1, <1>2, <2>1
  <2> QED BY <2>1, <2>2 DEF Asks
<1> QED BY <1>1, <1>3 DEF Asks

\* No step gives a thread a call that it did not have.
LEMMA FewerCalls ==
    ASSUME TypeOK, ScriptsOK, NEW t \in Threads, NEW l, NEW r,
           Moved(t, l, r), SearchEffect(t, l, r), NEW C, NEW u \in Threads, HasCall(u, C)'
    PROVE  HasCall(u, C)
<1>1. /\ pc'[t] = l /\ local'[t] = r
      /\ \A v \in Threads : v # t => pc'[v] = pc[v] /\ local'[v] = local[v]
  BY MovedFacts
<1>2. CASE u # t
  <2>1. script'[u] = script[u]
    BY <1>2 DEF SearchEffect, Begins, GoesOn, Ends, LooksAgain, FindsNothing, ScriptsOK
  <2> QED BY <1>1, <1>2, <2>1 DEF HasCall
<1>3. CASE u = t
  <2>1. (l # "Idle" /\ r.call \in C) \/ Asks(script'[t], C)
    BY <1>1, <1>3 DEF HasCall
  <2>2. CASE Begins(t, l, r)
    <3>1. /\ script[t] \in Seq([call : Calls, wants : SUBSET Kinds]) /\ script[t] # <<>>
          /\ script'[t] = Tail(script[t])
          /\ r.call = Head(script[t]).call
      BY <2>2 DEF Begins, ScriptsOK
    <3> QED BY <1>3, <2>1, <3>1, AsksTail DEF HasCall
  <2>3. CASE ~Begins(t, l, r)
    <3>1. script' = script
      BY <2>3 DEF SearchEffect, GoesOn, Ends, LooksAgain, FindsNothing
    <3>2. l # "Idle" => pc[t] # "Idle" /\ r.call = local[t].call
      BY <2>3 DEF SearchEffect, GoesOn, Ends, LooksAgain, FindsNothing, SameSearch, Middle
    <3> QED BY <1>3, <2>1, <3>1, <3>2 DEF HasCall
  <2> QED BY <2>2, <2>3
<1> QED BY <1>2, <1>3

-----------------------------------------------------------------------------
(***************************************************************************)
(* The display lock with one thread that uses the X...IfEvent calls: two   *)
(* of them can keep the display locked for ever (QueueTwoIfEvents.cfg).    *)
(***************************************************************************)
OneIfCaller ==
    \A s \in Scripts : \A t, u \in Threads :
        Asks(s[t], IfCalls) /\ Asks(s[u], IfCalls) => t = u

OneIf == \A t, u \in Threads : HasCall(t, IfCalls) /\ HasCall(u, IfCalls) => t = u

\* ifevent_thread is the thread that in_ifevent counts.
IfThreadTrue == in_ifevent > 0 => ifevent_thread \in IfThreads

\* Who has the lock although it is not at work under it.
LockKept == \A t \in Threads : mutex = t => pc[t] \notin Outside \/ (InIfEvent(t) /\ pc[t] # "Idle")

LockInv == OneIf /\ IfThreadTrue /\ LockKept

\* A thread in an X...IfEvent call has such a call.
LEMMA IfThreadsHaveCalls ==
    ASSUME NEW u \in IfThreads PROVE u \in Threads /\ HasCall(u, IfCalls)
BY DEF IfThreads, HasCall

\* ifevent_thread is the thread in the X...IfEvent call, after each step.
LEMMA IfThreadStep ==
    ASSUME TypeOK, IfCount, IfCount', OneIf, IfThreadTrue, NEW t \in Threads, NEW l, NEW r,
           Moved(t, l, r), IfEffect(t, l, r)
    PROVE  IfThreadTrue'
<1> SUFFICES ASSUME in_ifevent' > 0 PROVE ifevent_thread' \in IfThreads'
  BY DEF IfThreadTrue
<1>1. /\ pc'[t] = l /\ local'[t] = r
      /\ \A u \in Threads : u # t => pc'[u] = pc[u] /\ local'[u] = local[u]
  BY MovedFacts
<1>2. /\ t \in IfThreads <=> pc[t] \notin {"Idle", "Unlock"} /\ local[t].call \in IfCalls
      /\ t \in IfThreads' <=> l \notin {"Idle", "Unlock"} /\ r.call \in IfCalls
      /\ \A u \in Threads : u # t => (u \in IfThreads' <=> u \in IfThreads)
      /\ IfThreads' \subseteq Threads /\ IfThreads \subseteq Threads
  BY <1>1 DEF IfThreads
<1>3. CASE pc[t] = "Idle" /\ l \notin {"Idle", "Unlock"} /\ EnterIfEvent(t, r.call)
  <2>1. CASE r.call \in IfCalls
    BY <2>1, <1>2, <1>3 DEF EnterIfEvent
  <2>2. CASE r.call \notin IfCalls
    <3>1. in_ifevent' = in_ifevent /\ ifevent_thread' = ifevent_thread
      BY <2>2, <1>3 DEF EnterIfEvent
    <3>2. ifevent_thread \in IfThreads
      BY <3>1 DEF IfThreadTrue
    <3> QED BY <1>2, <1>3, <3>1, <3>2
  <2> QED BY <2>1, <2>2
<1>4. CASE /\ pc[t] \notin {"Idle", "Unlock"} /\ l # "Idle"
           /\ r.call = local[t].call /\ CountedDown(t, l) /\ UNCHANGED ifevent_thread
  <2>1. CASE l = "Unlock" /\ local[t].call \in IfCalls
    <3>1. t \in IfThreads /\ t \notin IfThreads'
      BY <2>1, <1>2, <1>4
    <3>2. \A u \in IfThreads : u = t
      BY <3>1, IfThreadsHaveCalls DEF OneIf
    <3>3. IfThreads' = {}
      BY <3>1, <3>2, <1>2
    <3>4. in_ifevent' = 0
      BY <3>3, FS_EmptySet DEF IfCount
    <3> QED BY <3>4
  <2>2. CASE ~(l = "Unlock" /\ local[t].call \in IfCalls)
    <3>1. in_ifevent' = in_ifevent /\ ifevent_thread' = ifevent_thread
      BY <2>2, <1>4 DEF CountedDown
    <3>2. ifevent_thread \in IfThreads
      BY <3>1 DEF IfThreadTrue
    <3> QED BY <1>2, <1>4, <2>2, <3>1, <3>2
  <2> QED BY <2>1, <2>2
<1>5. CASE pc[t] \in {"Idle", "Unlock"} /\ l = "Idle" /\ UNCHANGED <<in_ifevent, ifevent_thread>>
  <2>1. ifevent_thread \in IfThreads
    BY <1>5 DEF IfThreadTrue
  <2> QED BY <1>2, <1>5, <2>1
<1> QED BY <1>3, <1>4, <1>5 DEF IfEffect

\* Who gives up the lock keeps it only in an X...IfEvent call.
LEMMA LockKeptStep ==
    ASSUME TypeOK, LockHeld, OneIf, IfThreadTrue, LockKept, NEW t \in Threads, NEW l, NEW r,
           Moved(t, l, r), LockEffect(t, l), IfEffect(t, l, r), OneIf'
    PROVE  LockKept'
<1>1. /\ pc'[t] = l /\ local'[t] = r
      /\ \A u \in Threads : u # t => pc'[u] = pc[u] /\ local'[u] = local[u]
  BY MovedFacts
<1>2. NoThread \notin Threads
  BY NoThreadAssumption
<1>3. \A u \in Threads : InIfEvent(u) => u \in IfThreads
  BY DEF InIfEvent, IfThreadTrue
<1>4. ASSUME NEW u \in Threads, u # t, mutex' = u
      PROVE  pc'[u] \notin Outside \/ (InIfEvent(u)' /\ pc'[u] # "Idle")
  <2>1. mutex = u
    BY <1>2, <1>4, LockMoves
  <2>2. CASE pc[u] \notin Outside
    BY <2>2, <1>1, <1>4
  <2>3. CASE InIfEvent(u) /\ pc[u] # "Idle"
    <3>1. u \in IfThreads /\ HasCall(u, IfCalls)
      BY <2>3, <1>3, IfThreadsHaveCalls
    <3>2. u \in IfThreads' /\ HasCall(u, IfCalls)'
      BY <3>1, <1>1, <1>4 DEF IfThreads, HasCall
    <3>3. l # "Idle" /\ r.call \in IfCalls => HasCall(t, IfCalls)'
      BY <1>1 DEF HasCall
    <3>4. ~(l # "Idle" /\ r.call \in IfCalls)
      BY <3>2, <3>3, <1>4 DEF OneIf
    <3>5. UNCHANGED <<in_ifevent, ifevent_thread>>
      BY <3>4 DEF IfEffect, EnterIfEvent, CountedDown
    <3> QED BY <2>3, <3>5, <1>1, <1>4 DEF InIfEvent
  <2> QED BY <2>1, <2>2, <2>3 DEF LockKept
<1>5. ASSUME mutex' = t, l \in Outside
      PROVE  InIfEvent(t)' /\ l # "Idle"
  <2>1. mutex' # NoThread
    BY <1>2, <1>5
  <2>2. pc[t] \notin Outside /\ Released(t)
    BY <1>5, <2>1 DEF LockEffect
  <2>3. InIfEvent(t)
    BY <2>1, <2>2 DEF Released
  <2>4. pc[t] \notin {"Idle", "Unlock"}
    BY <2>3, <1>3 DEF IfThreads
  <2>5. l # "Unlock"
    BY <1>5 DEF Outside
  <2>6. l # "Idle" /\ UNCHANGED <<in_ifevent, ifevent_thread>>
    BY <2>4, <2>5 DEF IfEffect, CountedDown
  <2> QED BY <2>3, <2>6 DEF InIfEvent
<1>6. ASSUME NEW u \in Threads, mutex' = u
      PROVE  pc'[u] \notin Outside \/ (InIfEvent(u)' /\ pc'[u] # "Idle")
  <2>1. CASE u = t
    <3>1. mutex' = t
      BY <1>6, <2>1
    <3>2. CASE l \in Outside
      BY <3>1, <3>2, <2>1, <1>1, <1>5
    <3>3. CASE l \notin Outside
      BY <3>3, <2>1, <1>1
    <3> QED BY <3>2, <3>3
  <2>2. CASE u # t
    BY <2>2, <1>4, <1>6
  <2> QED BY <2>1, <2>2
<1> QED BY <1>6 DEF LockKept

\* The invariant of the lock holds at the start.
LEMMA LockInvInit == OneIfCaller /\ Init => LockInv
<1> SUFFICES ASSUME OneIfCaller, Init PROVE LockInv
  OBVIOUS
<1>1. script \in Scripts /\ in_ifevent = 0 /\ mutex = NoThread /\ \A t \in Threads : pc[t] = "Idle"
  BY DEF Init, LockInit
<1>2. OneIf
  BY <1>1 DEF OneIf, OneIfCaller, HasCall
<1>3. IfThreadTrue /\ LockKept
  BY <1>1, NoThreadAssumption DEF IfThreadTrue, LockKept
<1> QED BY <1>2, <1>3 DEF LockInv

\* Every step keeps it.
LEMMA LockInvStep == QInv /\ LockInv /\ [Next]_vars => LockInv'
<1> SUFFICES ASSUME QInv, LockInv, [Next]_vars PROVE LockInv'
  OBVIOUS
<1> USE DEF QInv, LockInv
<1>1. CASE \E t \in Threads : Thread(t)
  <2>1. PICK t \in Threads : Thread(t)
    BY <1>1
  <2>2. PICK l, r : Moved(t, l, r) /\ LockEffect(t, l) /\ IfEffect(t, l, r)
    BY <2>1, ThreadSteps
  <2>3. PICK l2, r2 : Moved(t, l2, r2) /\ SearchEffect(t, l2, r2)
    BY <2>1, SearchSteps
  <2>4. OneIf'
    <3>1. \A u \in Threads : HasCall(u, IfCalls)' => HasCall(u, IfCalls)
      BY <2>3, FewerCalls
    <3> QED BY <3>1 DEF OneIf
  <2>5. IfCount'
    BY <2>2, IfCountStep
  <2>6. IfThreadTrue'
    BY <2>2, <2>5, IfThreadStep
  <2>7. LockKept'
    BY <2>2, <2>4, LockKeptStep
  <2> QED BY <2>4, <2>6, <2>7
<1>2. CASE Send \/ UNCHANGED vars
  <2>1. UNCHANGED <<mutex, in_ifevent, ifevent_thread, pc, script, local>>
    BY <1>2 DEF Send, vars, lockVars
  <2>2. OneIf'
    BY <2>1 DEF OneIf, HasCall
  <2>3. IfThreads' = IfThreads
    BY <2>1 DEF IfThreads
  <2>4. IfThreadTrue' /\ LockKept'
    BY <2>1, <2>3 DEF IfThreadTrue, LockKept, InIfEvent
  <2> QED BY <2>2, <2>4
<1> QED BY <1>1, <1>2 DEF Next, Stopped

\* It says that the lock excludes.
LEMMA ExcludesFromInv == QInv /\ LockInv => LockExcludes
BY DEF QInv, LockInv, LockHeld, LockKept, LockExcludes, Outside

\* The display lock excludes although X...IfEvent calls do not release it,
\* and no thread keeps it when its call is over, provided only one thread
\* ever makes such calls: src/src/locking.c:209-246 and 457-485.
THEOREM DisplayLockExcludes ==
    ASSUME OneIfCaller
    PROVE  Spec => []LockExcludes
<1>1. Init => LockInv
  BY LockInvInit
<1> QED BY <1>1, QInvInit, QInvStep, LockInvStep, ExcludesFromInv, PTL DEF Spec
===============================================================================
