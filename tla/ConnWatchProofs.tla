--------------------------- MODULE ConnWatchProofs ---------------------------
(***************************************************************************)
(* Proofs about ConnWatch, for any threads, connections, watchers, size of *)
(* a pointer and size of the cache, memory failing wherever it may: each   *)
(* watcher knows just the open connections and finds its data while no     *)
(* watcher before it was removed; one thread polls at a time until another *)
(* callback clears the flag under it, and the cache of descriptors agrees  *)
(* with a list that fits.                                                  *)
(***************************************************************************)
EXTENDS ConnWatch, TLAPS, FiniteSetTheorems, WellFoundedInduction

(***************************************************************************)
(* Lists without repetition.                                               *)
(***************************************************************************)
Distinct(s) == \A i, j \in 1..Len(s) : s[i] = s[j] => i = j

\* The members of a sequence.
LEMMA Members ==
    ASSUME NEW S, NEW s \in Seq(S)
    PROVE  /\ Len(s) \in Nat /\ DOMAIN s = 1..Len(s)
           /\ \A i \in 1..Len(s) : s[i] \in S /\ s[i] \in ToSet(s)
           /\ \A x : x \in ToSet(s) <=> Contains(s, x)
BY DEF ToSet, Contains

\* An element is added at the end.
LEMMA Appended ==
    ASSUME NEW S, NEW s \in Seq(S), NEW x \in S
    PROVE  /\ Append(s, x) \in Seq(S) /\ Len(Append(s, x)) = Len(s) + 1
           /\ \A i \in 1..Len(s) : Append(s, x)[i] = s[i]
           /\ Append(s, x)[Len(s) + 1] = x
           /\ ToSet(Append(s, x)) = ToSet(s) \cup {x}
           /\ Distinct(s) /\ ~Contains(s, x) => Distinct(Append(s, x))
<1> DEFINE r == Append(s, x)
<1>1. /\ r \in Seq(S) /\ Len(r) = Len(s) + 1 /\ Len(s) \in Nat
      /\ \A i \in 1..Len(s) : r[i] = s[i]
      /\ r[Len(s) + 1] = x
  OBVIOUS
<1> HIDE DEF r
<1>2. ASSUME NEW y PROVE y \in ToSet(r) <=> y \in ToSet(s) \cup {x}
  <2>1. ASSUME y \in ToSet(r) PROVE y \in ToSet(s) \cup {x}
    <3>1. PICK i \in 1..Len(r) : y = r[i]
      BY <2>1, <1>1, Members DEF Contains
    <3>2. i \in 1..Len(s) \/ i = Len(s) + 1
      BY <1>1
    <3> QED BY <3>1, <3>2, <1>1, Members
  <2>2. ASSUME y \in ToSet(s) PROVE y \in ToSet(r)
    <3>1. PICK i \in 1..Len(s) : y = s[i]
      BY <2>2, Members DEF Contains
    <3>2. i \in 1..Len(r) /\ r[i] = y
      BY <3>1, <1>1
    <3> QED BY <3>2, <1>1, Members
  <2>3. x \in ToSet(r)
    <3>1. Len(s) + 1 \in 1..Len(r)
      BY <1>1
    <3> QED BY <3>1, <1>1, Members
  <2> QED BY <2>1, <2>2, <2>3
<1>3. ASSUME Distinct(s), ~Contains(s, x) PROVE Distinct(r)
  <2>1. ASSUME NEW i \in 1..Len(r), NEW j \in 1..Len(r), r[i] = r[j] PROVE i = j
    <3>1. \A k \in 1..Len(s) : s[k] # x
      BY <1>3 DEF Contains
    <3>2. (i \in 1..Len(s) \/ i = Len(s) + 1) /\ (j \in 1..Len(s) \/ j = Len(s) + 1)
      BY <1>1
    <3> QED BY <3>1, <3>2, <2>1, <1>1, <1>3 DEF Distinct
  <2> QED BY <2>1 DEF Distinct
<1>4. ToSet(r) = ToSet(s) \cup {x}
  BY <1>2
<1> QED BY <1>1, <1>3, <1>4 DEF r

\* An element is in one place.
LEMMA PlaceFound ==
    ASSUME NEW S, NEW s \in Seq(S), NEW x, Contains(s, x), Distinct(s)
    PROVE  Place(s, x) \in 1..Len(s) /\ s[Place(s, x)] = x
<1>1. PICK i \in 1..Len(s) : s[i] = x
  BY DEF Contains
<1>2. {j \in DOMAIN s : s[j] = x} = {i} /\ i \in Nat
  BY <1>1, Members DEF Distinct
<1>3. Place(s, x) = Min({i})
  BY <1>2 DEF Place
<1>4. Min({i}) = i
  BY <1>2 DEF Min
<1> QED BY <1>1, <1>3, <1>4

\* One list after another.
LEMMA Joined ==
    ASSUME NEW S, NEW a \in Seq(S), NEW b \in Seq(S)
    PROVE  /\ a \o b \in Seq(S) /\ Len(a \o b) = Len(a) + Len(b)
           /\ \A j \in 1..(Len(a) + Len(b)) :
                 (a \o b)[j] = IF j <= Len(a) THEN a[j] ELSE b[j - Len(a)]
OBVIOUS

\* An element is taken out.
LEMMA TakenOut ==
    ASSUME NEW S, NEW s \in Seq(S), NEW x, Contains(s, x), Distinct(s)
    PROVE  LET r == Unlinked(s, x) IN
           /\ r \in Seq(S) /\ Len(r) = Len(s) - 1
           /\ \A j \in 1..Len(r) : r[j] = IF j < Place(s, x) THEN s[j] ELSE s[j + 1]
           /\ ToSet(r) = ToSet(s) \ {x}
           /\ Distinct(r)
<1> DEFINE i == Place(s, x)
           a == SubSeq(s, 1, i - 1)
           b == SubSeq(s, i + 1, Len(s))
           r == Unlinked(s, x)
<1>0. i \in 1..Len(s) /\ s[i] = x /\ Len(s) \in Nat
  BY PlaceFound
<1>r. r = a \o b
  BY DEF Unlinked, RemoveAt
<1> HIDE DEF i, r
<1>1. a \in Seq(S) /\ Len(a) = i - 1 /\ \A j \in 1..(i - 1) : a[j] = s[j]
  BY <1>0
<1>2. b \in Seq(S) /\ Len(b) = Len(s) - i /\ \A j \in 1..(Len(s) - i) : b[j] = s[i + j]
  BY <1>0
<1> HIDE DEF a, b
<1>3. /\ r \in Seq(S) /\ Len(r) = Len(a) + Len(b)
      /\ \A j \in 1..(Len(a) + Len(b)) : r[j] = IF j <= Len(a) THEN a[j] ELSE b[j - Len(a)]
  BY <1>r, <1>1, <1>2, Joined
<1>4. Len(r) = Len(s) - 1
  BY <1>0, <1>1, <1>2, <1>3
<1>5. ASSUME NEW j \in 1..Len(r) PROVE r[j] = IF j < i THEN s[j] ELSE s[j + 1]
  <2>0. j \in 1..(Len(a) + Len(b)) /\ Len(a) = i - 1 /\ Len(b) = Len(s) - i
    BY <1>0, <1>1, <1>2, <1>3
  <2>1. CASE j < i
    <3>1. j <= Len(a) /\ j \in 1..(i - 1)
      BY <2>0, <2>1, <1>0
    <3>2. r[j] = a[j]
      BY <3>1, <2>0, <1>3
    <3> QED BY <3>1, <3>2, <2>1, <1>1
  <2>2. CASE j >= i
    <3>0. ~(j <= Len(a))
      BY <2>0, <2>2, <1>0
    <3>1. r[j] = b[j - Len(a)] /\ j - Len(a) \in 1..(Len(s) - i) /\ i + (j - Len(a)) = j + 1
      BY <3>0, <2>0, <2>2, <1>0, <1>3
    <3>2. b[j - Len(a)] = s[i + (j - Len(a))]
      BY <3>1, <1>2
    <3>3. r[j] = s[j + 1] /\ ~(j < i)
      BY <3>1, <3>2, <2>2, <1>0
    <3> QED BY <3>3
  <2> QED BY <2>1, <2>2, <1>0
<1> DEFINE from(j) == IF j < i THEN j ELSE j + 1
<1>6. ASSUME NEW j \in 1..Len(r)
      PROVE  from(j) \in 1..Len(s) /\ from(j) # i /\ r[j] = s[from(j)]
  BY <1>0, <1>4, <1>5
<1>7. Distinct(r)
  <2>1. ASSUME NEW j \in 1..Len(r), NEW k \in 1..Len(r), r[j] = r[k] PROVE j = k
    <3>1. from(j) = from(k)
      <4> HIDE DEF from
      <4> QED BY <1>6, <2>1 DEF Distinct
    <3> QED BY <3>1, <1>0, <1>4
  <2> QED BY <2>1 DEF Distinct
<1>8. ASSUME NEW y PROVE y \in ToSet(r) <=> y \in ToSet(s) \ {x}
  <2>1. ASSUME y \in ToSet(r) PROVE y \in ToSet(s) \ {x}
    <3>1. PICK j \in 1..Len(r) : y = r[j]
      BY <2>1, <1>3, Members DEF Contains
    <3>2. from(j) \in 1..Len(s) /\ from(j) # i /\ y = s[from(j)]
      BY <3>1, <1>6
    <3> HIDE DEF from
    <3>3. y \in ToSet(s) /\ y # s[i]
      BY <3>2, <1>0, Members DEF Distinct
    <3> QED BY <3>3, <1>0
  <2>2. ASSUME y \in ToSet(s), y # x PROVE y \in ToSet(r)
    <3>1. PICK j \in 1..Len(s) : y = s[j]
      BY <2>2, Members DEF Contains
    <3>2. CASE j < i
      <4>1. j \in 1..Len(r) /\ r[j] = y
        BY <3>1, <3>2, <1>0, <1>4, <1>5
      <4> QED BY <4>1, <1>3, Members
    <3>3. CASE j > i
      <4>1. j - 1 \in 1..Len(r) /\ ~(j - 1 < i) /\ (j - 1) + 1 = j
        BY <3>3, <1>0, <1>4
      <4>2. r[j - 1] = y
        BY <4>1, <3>1, <1>5
      <4> QED BY <4>1, <4>2, <1>3, Members
    <3>4. j # i
      BY <3>1, <2>2, <1>0
    <3> QED BY <3>2, <3>3, <3>4, <1>0
  <2> QED BY <2>1, <2>2
<1>9. ToSet(r) = ToSet(s) \ {x}
  BY <1>8
<1> QED BY <1>3, <1>4, <1>5, <1>7, <1>9 DEF r, i

-----------------------------------------------------------------------------
(***************************************************************************)
(* The arrays of watch data.                                               *)
(***************************************************************************)
Sizes == PointerSize \in Nat \ {0} /\ PollfdCacheSize \in Nat \ {0}

Arrays == Seq(Watchers \cup {None})

\* The pointers before one take fewer bytes.
LEMMA Multiples ==
    ASSUME NEW i \in Nat, NEW n \in Nat, NEW m \in Nat, i <= n
    PROVE  i * m \in Nat /\ n * m \in Nat /\ i * m <= n * m
<1>1. PICK d \in Nat : n = i + d
  <2>1. n - i \in Nat
    OBVIOUS
  <2> QED BY <2>1
<1>2. n * m = i * m + d * m /\ d * m \in Nat /\ i * m \in Nat
  BY <1>1
<1> QED BY <1>2

\* The bytes of slot i, the first of them and the last.
LEMMA SlotBytes ==
    ASSUME Sizes, NEW i \in Nat \ {0}
    PROVE  /\ (i - 1) * PointerSize \in Nat
           /\ \A k : k \in Slot(i) <=>
                 /\ k \in Nat
                 /\ k > (i - 1) * PointerSize /\ k <= (i - 1) * PointerSize + PointerSize
<1> DEFINE first == (i - 1) * PointerSize
<1>1. i - 1 \in Nat /\ PointerSize \in Nat
  BY DEF Sizes
<1>2. first \in Nat
  BY <1>1
<1> HIDE DEF first
<1>3. ASSUME NEW k PROVE k \in {first + b : b \in 1..PointerSize} <=>
                            k \in Nat /\ k > first /\ k <= first + PointerSize
  <2>1. ASSUME k \in {first + b : b \in 1..PointerSize}
        PROVE  k \in Nat /\ k > first /\ k <= first + PointerSize
    BY <1>1, <1>2, <2>1
  <2>2. ASSUME k \in Nat, k > first, k <= first + PointerSize
        PROVE  k \in {first + b : b \in 1..PointerSize}
    <3>1. k - first \in 1..PointerSize /\ k = first + (k - first)
      BY <1>1, <1>2, <2>2
    <3> QED BY <3>1
  <2> QED BY <2>1, <2>2
<1> QED BY <1>2, <1>3 DEF Slot, Bytes, first

\* n slots are in the bytes of n pointers.
LEMMA SlotInside ==
    ASSUME Sizes, NEW n \in Nat, NEW i \in 1..n
    PROVE  n * PointerSize \in Nat /\ Slot(i) \subseteq 1..(n * PointerSize)
<1>0. i \in Nat \ {0} /\ i - 1 \in Nat /\ i \in Nat /\ PointerSize \in Nat
  BY DEF Sizes
<1>1. /\ i * PointerSize \in Nat /\ n * PointerSize \in Nat
      /\ i * PointerSize <= n * PointerSize
  BY <1>0, Multiples
<1>2. i * PointerSize = (i - 1) * PointerSize + PointerSize
  BY <1>0
<1>3. (i - 1) * PointerSize \in Nat
  BY <1>0, SlotBytes
<1>4. ASSUME NEW k \in Slot(i) PROVE k \in 1..(n * PointerSize)
  <2>1. k \in Nat /\ k > (i - 1) * PointerSize /\ k <= (i - 1) * PointerSize + PointerSize
    BY <1>0, SlotBytes
  <2> DEFINE first == (i - 1) * PointerSize
             all == n * PointerSize
             upto == i * PointerSize
  <2>2. first \in Nat /\ all \in Nat /\ upto \in Nat /\ upto <= all
        /\ upto = first + PointerSize /\ k > first /\ k <= first + PointerSize /\ k \in Nat
    BY <1>1, <1>2, <1>3, <2>1
  <2> HIDE DEF first, all, upto
  <2>3. k \in 1..all
    BY <2>2, <1>0
  <2> QED BY <2>3 DEF all
<1> QED BY <1>1, <1>4

\* The bytes of a slot are behind those of the slots before it.
LEMMA SlotBehind ==
    ASSUME Sizes, NEW i \in Nat \ {0}, NEW j \in 1..(i - 1), NEW k \in Slot(j)
    PROVE  k <= (i - 1) * PointerSize /\ k \notin Slot(i)
<1>1. i - 1 \in Nat
  OBVIOUS
<1>2. k \in 1..((i - 1) * PointerSize)
  BY <1>1, SlotInside
<1> QED BY <1>2, SlotBytes

\* Different slots have no byte in common.
LEMMA SlotsApart ==
    ASSUME Sizes, NEW i \in Nat \ {0}, NEW j \in Nat \ {0}, i # j, NEW k \in Slot(i)
    PROVE  k \notin Slot(j)
<1>1. CASE i < j
  <2>1. i \in 1..(j - 1)
    BY <1>1
  <2> QED BY <2>1, SlotBehind
<1>2. CASE j < i
  <2>1. j \in 1..(i - 1)
    BY <1>2
  <2> QED BY <2>1, SlotBehind
<1> QED BY <1>1, <1>2

\* realloc for n slots keeps what is in them.
LEMMA ResizedKeeps ==
    ASSUME Sizes, NEW data \in Arrays, NEW n \in Nat
    PROVE  /\ Resized(data, n) \in Arrays /\ Len(Resized(data, n)) = n * PointerSize
           /\ n * PointerSize \in Nat
           /\ \A w : \A i \in 1..n : Holds(data, i, w) => Holds(Resized(data, n), i, w)
<1> DEFINE size == n * PointerSize
           new == Resized(data, n)
<1>1. size \in Nat
  BY Multiples DEF Sizes
<1>2. new = [k \in 1..size |-> IF k <= Len(data) THEN data[k] ELSE None]
  BY DEF Resized
<1>3. ASSUME NEW i \in 1..n PROVE Slot(i) \subseteq 1..size
  BY SlotInside
<1> HIDE DEF size, new
<1>4. new \in Arrays /\ Len(new) = size
  BY <1>1, <1>2 DEF Arrays
<1>5. ASSUME NEW i \in 1..n, NEW w, Holds(data, i, w) PROVE Holds(new, i, w)
  BY <1>1, <1>2, <1>3, <1>4, <1>5 DEF Holds
<1> QED BY <1>1, <1>4, <1>5 DEF size, new

\* A watcher stores its pointer.
LEMMA StoredKeeps ==
    ASSUME Sizes, NEW data \in Arrays, NEW n \in Nat, NEW i \in 1..n, NEW w \in Watchers,
           n * PointerSize <= Len(data)
    PROVE  /\ Stored(data, i, w) \in Arrays /\ Len(Stored(data, i, w)) = Len(data)
           /\ Holds(Stored(data, i, w), i, w)
           /\ \A v : \A j \in Nat \ {0} :
                 j # i /\ Holds(data, j, v) => Holds(Stored(data, i, w), j, v)
<1> DEFINE new == Stored(data, i, w)
           size == n * PointerSize
<1>1. new = [k \in 1..Len(data) |-> IF k \in Slot(i) THEN w ELSE data[k]]
  BY DEF Stored, Arrays
<1>2. size \in Nat /\ Slot(i) \subseteq 1..size /\ i \in Nat \ {0} /\ size <= Len(data)
  BY SlotInside
<1> HIDE DEF new, size
<1>3. new \in Arrays /\ Len(new) = Len(data) /\ Len(data) \in Nat
  BY <1>1 DEF Arrays
<1>4. Holds(new, i, w)
  <2>1. ASSUME NEW k \in Slot(i) PROVE k \in 1..Len(data)
    BY <1>2, <1>3
  <2> QED BY <1>1, <1>3, <2>1 DEF Holds
<1>5. ASSUME NEW j \in Nat \ {0}, NEW v, j # i, Holds(data, j, v) PROVE Holds(new, j, v)
  <2>1. ASSUME NEW k \in Slot(j) PROVE k \notin Slot(i) /\ k \in Nat \ {0}
    <3>1. k \notin Slot(i)
      BY <1>2, <1>5, SlotsApart
    <3>2. k \in Nat \ {0}
      <4>1. j \in 1..j
        BY <1>5
      <4> QED BY <4>1, SlotInside
    <3> QED BY <3>1, <3>2
  <2> QED BY <1>1, <1>3, <1>5, <2>1 DEF Holds
<1> QED BY <1>3, <1>4, <1>5 DEF new

\* Moving the slots behind the i-th leaves those before it alone.
LEMMA MovedKeeps ==
    ASSUME Sizes, NEW data \in Arrays, NEW n \in Nat, NEW i \in 1..n,
           n * PointerSize <= Len(data)
    PROVE  LET new == MovedDown(data, i, n - i) IN
           /\ new \in Arrays /\ Len(new) = Len(data)
           /\ \A v : \A j \in 1..(i - 1) : Holds(data, j, v) => Holds(new, j, v)
<1> DEFINE first == (i - 1) * PointerSize
           size == n * PointerSize
           new == MovedDown(data, i, n - i)
<1>0. PointerSize \in Nat \ {0} /\ i \in Nat \ {0} /\ Len(data) \in Nat
  BY DEF Sizes, Arrays
<1>1. new = [k \in 1..Len(data) |->
               IF k > first /\ k <= first + (n - i) THEN data[k + PointerSize] ELSE data[k]]
  BY DEF MovedDown, Arrays
<1>2. first \in Nat /\ size \in Nat /\ size <= Len(data)
  BY <1>0, SlotBytes, Multiples
<1>3. first + PointerSize + (n - i) <= size
  <2>1. PICK d \in Nat : n = i + d
    <3>1. n - i \in Nat
      OBVIOUS
    <3> QED BY <3>1
  <2>2. size = i * PointerSize + d * PointerSize /\ i * PointerSize = first + PointerSize
    BY <2>1, <1>0
  <2>3. d * PointerSize >= d
    <3>1. d * 1 <= d * PointerSize
      <4>1. PICK e \in Nat : PointerSize = 1 + e
        <5>1. PointerSize - 1 \in Nat /\ PointerSize = 1 + (PointerSize - 1)
          BY <1>0
        <5> QED BY <5>1
      <4>2. d * PointerSize = d + d * e /\ d * e \in Nat
        BY <4>1
      <4> QED BY <4>2
    <3> QED BY <3>1
  <2> DEFINE x == i * PointerSize
             y == d * PointerSize
  <2>4. /\ size = x + y /\ x = first + PointerSize /\ y >= d /\ n - i = d
        /\ x \in Nat /\ y \in Nat
    BY <2>1, <2>2, <2>3, <1>0, Multiples
  <2> HIDE DEF x, y, first, size
  <2> QED BY <2>4, <1>0, <1>2
<1>4. ASSUME NEW j \in 1..(i - 1), NEW k \in Slot(j) PROVE k <= first /\ k \in Nat \ {0}
  <2>1. k <= first
    BY <1>0, SlotBehind
  <2>2. k \in Nat \ {0}
    <3>1. j \in 1..j /\ j \in Nat
      BY <1>0
    <3> QED BY <3>1, SlotInside
  <2> QED BY <2>1, <2>2
<1> HIDE DEF first, size, new
<1>5. new \in Arrays /\ Len(new) = Len(data)
  <2>1. ASSUME NEW k \in 1..Len(data), k > first, k <= first + (n - i)
        PROVE  k + PointerSize \in 1..Len(data)
    BY <1>0, <1>2, <1>3, <2>1
  <2> QED BY <1>1, <1>0, <2>1 DEF Arrays
<1>6. ASSUME NEW j \in 1..(i - 1), NEW v, Holds(data, j, v) PROVE Holds(new, j, v)
  <2>1. ASSUME NEW k \in Slot(j) PROVE k <= Len(new) /\ new[k] = v
    <3>1. k <= Len(data) /\ data[k] = v /\ k <= first /\ k \in Nat \ {0}
      BY <1>4, <1>6 DEF Holds
    <3> QED BY <3>1, <1>0, <1>1, <1>2, <1>5
  <2> QED BY <2>1 DEF Holds
<1> QED BY <1>5, <1>6 DEF new

\* Every byte before the n-th slot's end is in some slot.
LEMMA SomeSlot ==
    ASSUME Sizes, NEW n \in Nat, NEW k \in 1..(n * PointerSize)
    PROVE  \E i \in 1..n : k \in Slot(i)
<1> DEFINE q == (k - 1) \div PointerSize
           r == (k - 1) % PointerSize
<1>0. PointerSize \in Nat \ {0} /\ n * PointerSize \in Nat /\ k - 1 \in Nat /\ k \in Nat
  BY Multiples DEF Sizes
<1>1. q \in Nat /\ r \in Nat /\ k - 1 = PointerSize * q + r /\ r < PointerSize
  <2>1. ASSUME NEW a \in Nat, NEW m \in Nat \ {0}
        PROVE  a \div m \in Nat /\ a % m \in Nat /\ a = m * (a \div m) + (a % m) /\ a % m < m
    BY SMT
  <2> QED BY <1>0, <2>1
<1> HIDE DEF q, r
<1>2. q < n
  <2>1. ASSUME q >= n PROVE FALSE
    <3>1. n * PointerSize <= q * PointerSize
      BY <1>0, <1>1, <2>1, Multiples
    <3>2. q * PointerSize = PointerSize * q
      BY <1>0, <1>1
    <3> DEFINE x == PointerSize * q
               y == n * PointerSize
    <3>3. k - 1 = x + r /\ y <= x /\ k <= y /\ x \in Int /\ y \in Int /\ r \in Nat /\ k \in Nat
      BY <1>0, <1>1, <3>1, <3>2
    <3> HIDE DEF x, y
    <3> QED BY <3>3
  <2> QED BY <1>1, <2>1
<1>3. q + 1 \in 1..n /\ q + 1 \in Nat \ {0} /\ (q + 1) - 1 = q
  BY <1>1, <1>2
<1>4. k \in Slot(q + 1)
  <2> DEFINE x == q * PointerSize
  <2>1. x = PointerSize * q /\ x \in Nat
    BY <1>0, <1>1
  <2> HIDE DEF x
  <2>2. k \in Nat /\ k > x /\ k <= x + PointerSize
    BY <1>0, <1>1, <2>1
  <2>3. k \in Nat /\ k > q * PointerSize /\ k <= q * PointerSize + PointerSize
    BY <2>2 DEF x
  <2> QED BY <1>3, <2>3, SlotBytes
<1> QED BY <1>3, <1>4

\* The array of a new connection.
Filled(list) ==
    [k \in 1..(Len(list) * PointerSize) |->
        CHOOSE w \in Watchers : \E i \in DOMAIN list : k \in Slot(i) /\ w = list[i]]

LEMMA FilledHolds ==
    ASSUME Sizes, NEW list \in Seq(Watchers)
    PROVE  /\ Filled(list) \in Arrays /\ Len(Filled(list)) = Len(list) * PointerSize
           /\ \A i \in 1..Len(list) : Holds(Filled(list), i, list[i])
<1> DEFINE n == Len(list)
           size == n * PointerSize
           new == Filled(list)
<1>0. n \in Nat /\ size \in Nat /\ DOMAIN list = 1..n /\ \A i \in 1..n : list[i] \in Watchers
  BY Multiples DEF Sizes
<1>1. ASSUME NEW k \in 1..size, NEW i \in 1..n, k \in Slot(i)
      PROVE  (CHOOSE w \in Watchers : \E j \in DOMAIN list : k \in Slot(j) /\ w = list[j]) = list[i]
  <2>1. ASSUME NEW j \in DOMAIN list, k \in Slot(j) PROVE j = i
    <3>1. j \in Nat \ {0} /\ i \in Nat \ {0}
      BY <1>0
    <3> QED BY <1>1, <2>1, <3>1, SlotsApart
  <2>2. list[i] \in Watchers /\ i \in DOMAIN list
    BY <1>0
  <2> QED BY <1>1, <2>1, <2>2
<1>2. new = [k \in 1..size |->
         CHOOSE w \in Watchers : \E i \in DOMAIN list : k \in Slot(i) /\ w = list[i]]
  BY DEF Filled
<1>3. ASSUME NEW k \in 1..size PROVE new[k] \in Watchers
  <2>1. PICK i \in 1..n : k \in Slot(i)
    <3> HIDE DEF n
    <3> QED BY <1>0, SomeSlot
  <2>2. new[k] = list[i]
    BY <1>1, <1>2, <2>1
  <2> QED BY <1>0, <2>2
<1>4. ASSUME NEW i \in 1..n PROVE Slot(i) \subseteq 1..size
  <2> HIDE DEF n
  <2> QED BY <1>0, SlotInside
<1> HIDE DEF new, size, n
<1>5. new \in Arrays /\ Len(new) = size
  <2>1. new \in [1..size -> Watchers \cup {None}]
    BY <1>2, <1>3
  <2> QED BY <1>0, <2>1 DEF Arrays
<1>6. ASSUME NEW i \in 1..n PROVE Holds(new, i, list[i])
  <2>1. ASSUME NEW k \in Slot(i) PROVE k <= Len(new) /\ new[k] = list[i]
    <3>1. k \in 1..size
      BY <1>4
    <3>2. new[k] = list[i]
      BY <1>1, <1>2, <2>1, <3>1
    <3> QED BY <1>0, <1>5, <3>1, <3>2
  <2> QED BY <2>1 DEF Holds
<1> QED BY <1>5, <1>6 DEF new, size, n

-----------------------------------------------------------------------------
(***************************************************************************)
(* The calls.                                                              *)
(***************************************************************************)
ConnCalls ==
    [op : {"register", "unregister", "process"}, arg : Connections]
      \cup [op : {"watch", "unwatch"}, arg : Watchers]
      \cup [op : {"check"}, arg : {None}]

\* A descriptor is registered once and a watcher added once: the code does not
\* look whether it has them already.
NoneTwice(s) ==
    \A t, u \in ConnThreads : \A i \in 1..Len(s[t]), j \in 1..Len(s[u]) :
        s[t][i] = s[u][j] /\ s[t][i].op \in {"register", "watch"} => t = u /\ i = j

CallsOnce == \A s \in ConnScripts : s \in [ConnThreads -> Seq(ConnCalls)] /\ NoneTwice(s)

\* The call is still to come.
ToCome(call) == \E t \in ConnThreads : \E i \in 1..Len(conn_script[t]) : conn_script[t][i] = call

(***************************************************************************)
(* The inductive invariant.                                                *)
(***************************************************************************)
Typed ==
    /\ im_fd_info \in Seq(Connections) /\ conn_watchers \in Seq(Watchers)
    /\ DOMAIN watch_data = Connections
    /\ \A c \in Connections : watch_data[c] \in Seq(Watchers \cup {None})
    /\ told \in [Watchers -> SUBSET Connections]
    /\ intact \in 0..Len(conn_watchers)
    /\ misled \in BOOLEAN
    /\ conn_script \in [ConnThreads -> Seq(ConnCalls)]

\* Nothing comes twice.
OnceOnly ==
    /\ NoneTwice(conn_script)
    /\ Distinct(im_fd_info) /\ Distinct(conn_watchers)
    /\ \A call \in ConnCalls : ToCome(call) =>
          /\ call.op = "register" => ~Contains(im_fd_info, call.arg)
          /\ call.op = "watch" => ~Contains(conn_watchers, call.arg)

\* Every array has a slot for each watcher.
SlotsThere ==
    \A c \in ToSet(im_fd_info) : Len(conn_watchers) * PointerSize <= Len(watch_data[c])

ConnInv ==
    /\ Typed
    /\ OnceOnly
    /\ SlotsThere
    /\ WatchersInformed
    /\ WatchDataKept

\* Beyond it, if no watcher is ever removed.
NoRemoval ==
    \A s \in ConnScripts : \A t \in ConnThreads : \A i \in 1..Len(s[t]) : s[t][i].op # "unwatch"

AllIntact ==
    /\ \A call \in ConnCalls : ToCome(call) => call.op # "unwatch"
    /\ intact = Len(conn_watchers)
    /\ WatchDataHeld

(***************************************************************************)
(* Making a call.                                                          *)
(***************************************************************************)
LEMMA SameCall ==
    ASSUME NEW a \in ConnCalls, NEW b \in ConnCalls, a.op = b.op, a.arg = b.arg
    PROVE  a = b
<1>1. \A call \in ConnCalls : call = [op |-> call.op, arg |-> call.arg]
  BY DEF ConnCalls
<1> QED BY <1>1

\* The calls to come are fewer, and the one that is made does not come again.
LEMMA CallMade ==
    ASSUME Typed, NoneTwice(conn_script), NEW t \in ConnThreads, NEW op, Call(t, op)
    PROVE  /\ Head(conn_script[t]) \in ConnCalls /\ Head(conn_script[t]).op = op
           /\ ToCome(Head(conn_script[t]))
           /\ conn_script' \in [ConnThreads -> Seq(ConnCalls)]
           /\ NoneTwice(conn_script)'
           /\ \A call \in ConnCalls : ToCome(call)' =>
                 ToCome(call) /\ (op \in {"register", "watch"} => call # Head(conn_script[t]))
<1>1. /\ conn_script \in [ConnThreads -> Seq(ConnCalls)] /\ conn_script[t] # <<>>
      /\ conn_script' = [conn_script EXCEPT ![t] = Tail(conn_script[t])]
      /\ Head(conn_script[t]).op = op
  BY DEF Typed, Call
<1>2. /\ Len(conn_script[t]) \in Nat /\ Len(conn_script[t]) >= 1 /\ Head(conn_script[t]) = conn_script[t][1]
      /\ 1 \in 1..Len(conn_script[t])
      /\ Tail(conn_script[t]) \in Seq(ConnCalls) /\ Len(Tail(conn_script[t])) = Len(conn_script[t]) - 1
      /\ \A i \in 1..(Len(conn_script[t]) - 1) : Tail(conn_script[t])[i] = conn_script[t][i + 1]
  BY <1>1
<1>3. Head(conn_script[t]) \in ConnCalls /\ ToCome(Head(conn_script[t]))
  BY <1>1, <1>2 DEF ToCome
<1>4. conn_script' \in [ConnThreads -> Seq(ConnCalls)]
  BY <1>1, <1>2
<1> DEFINE from(u, i) == IF u = t THEN i + 1 ELSE i
<1>5. ASSUME NEW u \in ConnThreads, NEW i \in 1..Len(conn_script'[u])
      PROVE  /\ from(u, i) \in 1..Len(conn_script[u]) /\ conn_script'[u][i] = conn_script[u][from(u, i)]
             /\ u = t => from(u, i) # 1
  <2>1. CASE u = t
    <3>1. conn_script'[u] = Tail(conn_script[t])
      BY <1>1, <2>1
    <3>2. i \in 1..(Len(conn_script[t]) - 1)
      BY <1>2, <3>1
    <3> QED BY <1>2, <2>1, <3>1, <3>2
  <2>2. CASE u # t
    <3>1. conn_script'[u] = conn_script[u]
      BY <1>1, <2>2
    <3> QED BY <2>2, <3>1
  <2> QED BY <2>1, <2>2
<1>6. NoneTwice(conn_script)'
  <2>1. ASSUME NEW u \in ConnThreads, NEW v \in ConnThreads,
               NEW i \in 1..Len(conn_script'[u]), NEW j \in 1..Len(conn_script'[v]),
               conn_script'[u][i] = conn_script'[v][j], conn_script'[u][i].op \in {"register", "watch"}
        PROVE  u = v /\ i = j
    <3> DEFINE k == from(u, i)
               l == from(v, j)
    <3>0. /\ k \in 1..Len(conn_script[u]) /\ conn_script'[u][i] = conn_script[u][k]
          /\ l \in 1..Len(conn_script[v]) /\ conn_script'[v][j] = conn_script[v][l]
      BY <1>5
    <3>a. u = v /\ k = l
      <4> HIDE DEF k, l, from
      <4>1. conn_script[u][k] = conn_script[v][l] /\ conn_script[u][k].op \in {"register", "watch"}
        BY <3>0, <2>1
      <4>2. \A x \in 1..Len(conn_script[u]), y \in 1..Len(conn_script[v]) :
               conn_script[u][x] = conn_script[v][y] /\ conn_script[u][x].op \in {"register", "watch"}
                  => u = v /\ x = y
        BY DEF NoneTwice
      <4> QED BY <3>0, <4>1, <4>2
    <3>1. u = v /\ from(u, i) = from(v, j)
      BY <3>a
    <3>2. Len(conn_script'[u]) \in Nat /\ i \in Nat /\ j \in Nat
      BY <1>4, <3>1
    <3> QED BY <3>1, <3>2
  <2> QED BY <2>1 DEF NoneTwice
<1>7. ASSUME NEW call \in ConnCalls, ToCome(call)'
      PROVE  ToCome(call) /\ (op \in {"register", "watch"} => call # Head(conn_script[t]))
  <2>1. PICK u \in ConnThreads : \E i \in 1..Len(conn_script'[u]) : conn_script'[u][i] = call
    BY <1>7 DEF ToCome
  <2>2. PICK i \in 1..Len(conn_script'[u]) : conn_script'[u][i] = call
    BY <2>1
  <2> DEFINE k == from(u, i)
  <2>3. k \in 1..Len(conn_script[u]) /\ conn_script[u][k] = call /\ (u = t => k # 1)
    BY <1>5, <2>2
  <2> HIDE DEF k
  <2>4. ToCome(call)
    BY <2>3 DEF ToCome
  <2>5. ASSUME op \in {"register", "watch"}, call = Head(conn_script[t]) PROVE FALSE
    <3>1. conn_script[u][k] = conn_script[t][1] /\ conn_script[u][k].op \in {"register", "watch"}
      BY <1>1, <1>2, <2>3, <2>5
    <3>2. u = t /\ k = 1
      BY <1>2, <2>3, <3>1 DEF NoneTwice
    <3> QED BY <2>3, <3>2
  <2> QED BY <2>4, <2>5
<1> QED BY <1>1, <1>3, <1>4, <1>6, <1>7

\* A call leaves the lists as they are, or takes elements away.
LEMMA OnceKept ==
    ASSUME Typed, OnceOnly, NEW t \in ConnThreads, NEW op, Call(t, op),
           Distinct(im_fd_info'), Distinct(conn_watchers'),
           \A x : Contains(im_fd_info', x) => Contains(im_fd_info, x),
           \A x : Contains(conn_watchers', x) => Contains(conn_watchers, x)
    PROVE  OnceOnly'
BY CallMade DEF OnceOnly

\* A step that does not concern the lists.
LEMMA ListsKept ==
    ASSUME ConnInv, UNCHANGED <<listVars, watchVars>>
    PROVE  SlotsThere' /\ WatchersInformed' /\ WatchDataKept'
BY DEF ConnInv, listVars, watchVars, SlotsThere, WatchersInformed, WatchDataKept, Holds

LEMMA RegisterKeeps ==
    ASSUME Sizes, ConnInv, NEW t \in ConnThreads, RegisterInternalConnection(t)
    PROVE  ConnInv'
<1> DEFINE c == Arg(t)
<1>1. Call(t, "register")
  BY DEF RegisterInternalConnection
<1>2. /\ Typed /\ OnceOnly /\ NoneTwice(conn_script)
  BY DEF ConnInv, OnceOnly
<1>3. /\ Head(conn_script[t]) \in ConnCalls /\ Head(conn_script[t]).op = "register"
      /\ ToCome(Head(conn_script[t])) /\ conn_script' \in [ConnThreads -> Seq(ConnCalls)]
      /\ NoneTwice(conn_script)'
      /\ \A call \in ConnCalls : ToCome(call)' => ToCome(call) /\ call # Head(conn_script[t])
  BY <1>1, <1>2, CallMade
<1>4. c \in Connections /\ ~Contains(im_fd_info, c)
  BY <1>2, <1>3 DEF Arg, ConnCalls, OnceOnly
<1>6. CASE UNCHANGED <<listVars, watchVars>>
  <2>1. Typed'
    BY <1>1, <1>2, <1>3, <1>6 DEF Typed, listVars, watchVars
  <2>2. OnceOnly'
    BY <1>1, <1>2, <1>6, OnceKept DEF listVars, watchVars, OnceOnly
  <2> QED BY <2>1, <2>2, <1>6, ListsKept DEF ConnInv
<1>7. CASE /\ im_fd_info' = Append(im_fd_info, c)
           /\ watch_data' = FirstData(c)
           /\ told' = [w \in Watchers |->
                  IF Contains(conn_watchers, w) THEN told[w] \cup {c} ELSE told[w]]
           /\ UNCHANGED <<conn_watchers, misled, intact>>
  <2>0. /\ im_fd_info \in Seq(Connections) /\ conn_watchers \in Seq(Watchers)
        /\ intact \in 0..Len(conn_watchers) /\ Len(conn_watchers) \in Nat
        /\ Len(im_fd_info) \in Nat
    BY <1>2 DEF Typed
  <2>1. /\ im_fd_info' \in Seq(Connections) /\ Len(im_fd_info') = Len(im_fd_info) + 1
        /\ \A i \in 1..Len(im_fd_info) : im_fd_info'[i] = im_fd_info[i]
        /\ im_fd_info'[Len(im_fd_info) + 1] = c
        /\ ToSet(im_fd_info') = ToSet(im_fd_info) \cup {c}
        /\ Distinct(im_fd_info')
    BY <1>2, <1>4, <1>7, <2>0, Appended DEF OnceOnly
  <2>2. /\ watch_data' = [watch_data EXCEPT ![c] = Filled(conn_watchers)]
        /\ Filled(conn_watchers) \in Arrays
        /\ Len(Filled(conn_watchers)) = Len(conn_watchers) * PointerSize
        /\ \A i \in 1..Len(conn_watchers) : Holds(Filled(conn_watchers), i, conn_watchers[i])
        /\ Len(conn_watchers) * PointerSize \in Nat
    <3>1. watch_data' = [watch_data EXCEPT ![c] = Filled(conn_watchers)]
      BY <1>7 DEF FirstData, Filled
    <3>2. Len(conn_watchers) * PointerSize \in Nat
      BY <2>0, Multiples DEF Sizes
    <3> QED BY <2>0, <3>1, <3>2, FilledHolds
  <2>3. /\ DOMAIN watch_data' = Connections
        /\ watch_data'[c] = Filled(conn_watchers)
        /\ \A d \in Connections : d # c => watch_data'[d] = watch_data[d]
    BY <1>2, <1>4, <2>2 DEF Typed
  <2>5. Typed'
    <3>1. told' \in [Watchers -> SUBSET Connections]
      BY <1>2, <1>4, <1>7 DEF Typed
    <3>2. \A d \in Connections : watch_data'[d] \in Seq(Watchers \cup {None})
      BY <1>2, <2>2, <2>3 DEF Typed, Arrays
    <3> QED BY <1>1, <1>2, <1>3, <1>7, <2>1, <2>3, <3>1, <3>2 DEF Typed
  <2>6. OnceOnly'
    <3>1. ASSUME NEW call \in ConnCalls, ToCome(call)'
          PROVE  /\ call.op = "register" => ~Contains(im_fd_info', call.arg)
                 /\ call.op = "watch" => ~Contains(conn_watchers', call.arg)
      <4>1. ToCome(call) /\ call # Head(conn_script[t])
        BY <1>3, <3>1
      <4>2. ASSUME call.op = "register" PROVE call.arg # c
        BY <1>3, <4>1, <4>2, SameCall DEF Arg
      <4>3. Contains(im_fd_info', call.arg) <=> Contains(im_fd_info, call.arg) \/ call.arg = c
        BY <2>0, <2>1, Members
      <4> QED BY <1>2, <1>7, <4>1, <4>2, <4>3 DEF OnceOnly
    <3> QED BY <1>2, <1>3, <1>7, <2>1, <3>1 DEF OnceOnly
  <2>7. SlotsThere'
    <3>1. ASSUME NEW d \in ToSet(im_fd_info')
          PROVE  Len(conn_watchers') * PointerSize <= Len(watch_data'[d])
      <4>1. CASE d = c
        BY <1>7, <2>2, <2>3, <4>1
      <4>2. CASE d # c
        <5>1. d \in ToSet(im_fd_info) /\ d \in Connections
          BY <2>0, <2>1, <3>1, <4>2, Members DEF Contains
        <5> QED BY <1>7, <2>3, <4>2, <5>1 DEF ConnInv, SlotsThere
      <4> QED BY <4>1, <4>2
    <3> QED BY <3>1 DEF SlotsThere
  <2>8. WatchersInformed'
    <3>1. ASSUME NEW w \in ToSet(conn_watchers) PROVE told'[w] = ToSet(im_fd_info')
      <4>1. Contains(conn_watchers, w) /\ w \in Watchers
        BY <2>0, <3>1, Members DEF Contains
      <4> QED BY <1>7, <2>1, <3>1, <4>1 DEF ConnInv, WatchersInformed
    <3> QED BY <1>7, <3>1 DEF WatchersInformed
  <2>9. WatchDataKept'
    <3>1. ASSUME NEW d \in ToSet(im_fd_info'), NEW i \in 1..intact
          PROVE  Holds(watch_data'[d], i, conn_watchers[i])
      <4>0. i \in 1..Len(conn_watchers)
        BY <2>0
      <4>1. CASE d = c
        BY <2>2, <2>3, <4>0, <4>1
      <4>2. CASE d # c
        <5>1. d \in ToSet(im_fd_info) /\ d \in Connections
          BY <2>0, <2>1, <3>1, <4>2, Members DEF Contains
        <5> QED BY <2>3, <4>2, <5>1 DEF ConnInv, WatchDataKept
      <4> QED BY <4>1, <4>2
    <3>2. \A d \in ToSet(im_fd_info'), i \in 1..intact' :
             Holds(watch_data'[d], i, conn_watchers'[i])
      BY <1>7, <3>1
    <3> QED BY <3>2 DEF WatchDataKept, Holds
  <2> QED BY <2>5, <2>6, <2>7, <2>8, <2>9 DEF ConnInv
<1> QED BY <1>6, <1>7 DEF RegisterInternalConnection

LEMMA UnregisterKeeps ==
    ASSUME Sizes, ConnInv, NEW t \in ConnThreads, UnregisterInternalConnection(t)
    PROVE  ConnInv'
<1> DEFINE c == Arg(t)
           list == Unlinked(im_fd_info, c)
<1>1. /\ Call(t, "unregister") /\ im_fd_info' = list
      /\ UNCHANGED <<conn_watchers, intact>>
  BY DEF UnregisterInternalConnection
<1>2. /\ Typed /\ OnceOnly /\ NoneTwice(conn_script)
  BY DEF ConnInv, OnceOnly
<1>3. /\ Head(conn_script[t]) \in ConnCalls /\ Head(conn_script[t]).op = "unregister"
      /\ conn_script' \in [ConnThreads -> Seq(ConnCalls)]
  BY <1>1, <1>2, CallMade
<1>4. c \in Connections
  BY <1>3 DEF Arg, ConnCalls
<1>0. /\ im_fd_info \in Seq(Connections) /\ conn_watchers \in Seq(Watchers)
      /\ intact \in 0..Len(conn_watchers) /\ Len(im_fd_info) \in Nat
      /\ Distinct(im_fd_info) /\ Distinct(conn_watchers)
  BY <1>2 DEF Typed, OnceOnly
<1>6. /\ list \in Seq(Connections) /\ Len(list) \in Nat /\ Len(list) <= Len(im_fd_info)
      /\ Distinct(list)
      /\ ToSet(list) = ToSet(im_fd_info) \ {c}
  <2>1. CASE Contains(im_fd_info, c)
    BY <1>0, <2>1, TakenOut
  <2>2. CASE ~Contains(im_fd_info, c)
    <3>1. list = im_fd_info /\ c \notin ToSet(im_fd_info)
      BY <1>0, <2>2, Members DEF Unlinked
    <3> HIDE DEF list
    <3> QED BY <1>0, <3>1
  <2> QED BY <2>1, <2>2
<1>7. \A x : Contains(list, x) <=> Contains(im_fd_info, x) /\ x # c
  <2> HIDE DEF list, c
  <2> QED BY <1>0, <1>6, Members
<1> HIDE DEF list, c
<1>8. \A w \in ToSet(conn_watchers) : told'[w] = ToSet(im_fd_info') /\ told'[w] = told[w] \ {c}
  <2>1. CASE Contains(im_fd_info, c)
    <3>1. told' = [w \in Watchers |->
              IF Contains(conn_watchers, w) THEN told[w] \ {c} ELSE told[w]]
      BY <2>1 DEF UnregisterInternalConnection, c
    <3>2. \A w \in ToSet(conn_watchers) : Contains(conn_watchers, w) /\ w \in Watchers
      BY <1>0, Members DEF Contains
    <3> QED BY <1>1, <1>6, <3>1, <3>2 DEF ConnInv, WatchersInformed
  <2>2. CASE ~Contains(im_fd_info, c)
    <3>1. told' = told
      BY <2>2 DEF UnregisterInternalConnection, c
    <3>2. c \notin ToSet(im_fd_info)
      BY <1>0, <2>2, Members
    <3> QED BY <1>1, <1>6, <3>1, <3>2 DEF ConnInv, WatchersInformed
  <2> QED BY <2>1, <2>2
<1>9. /\ DOMAIN watch_data' = Connections
      /\ \A d \in Connections : watch_data'[d] \in Seq(Watchers \cup {None})
      /\ \A d \in ToSet(list) : watch_data'[d] = watch_data[d]
  <2>0. /\ watch_data' = [watch_data EXCEPT ![c] = <<>>]
        \/ watch_data' = watch_data
    BY DEF UnregisterInternalConnection, c
  <2>1. \A d \in ToSet(list) : d # c /\ d \in Connections
    BY <1>0, <1>6, Members DEF Contains
  <2>2. /\ DOMAIN watch_data = Connections
        /\ \A d \in Connections : watch_data[d] \in Seq(Watchers \cup {None})
        /\ <<>> \in Seq(Watchers \cup {None})
    BY <1>2 DEF Typed
  <2>3. CASE watch_data' = watch_data
    BY <2>2, <2>3
  <2>4. CASE watch_data' = [watch_data EXCEPT ![c] = <<>>]
    <3>1. /\ DOMAIN watch_data' = Connections
          /\ \A d \in Connections : watch_data'[d] = IF d = c THEN <<>> ELSE watch_data[d]
      BY <2>2, <2>4
    <3> QED BY <2>1, <2>2, <3>1
  <2> QED BY <2>0, <2>3, <2>4
<1>11. Typed'
  <2>0. told \in [Watchers -> SUBSET Connections] /\ misled \in BOOLEAN
    BY <1>2 DEF Typed
  <2>1. told' \in [Watchers -> SUBSET Connections]
    <3>1. \/ told' = [w \in Watchers |->
                IF Contains(conn_watchers, w) THEN told[w] \ {c} ELSE told[w]]
          \/ told' = told
      BY DEF UnregisterInternalConnection, c
    <3> QED BY <2>0, <3>1
  <2>2. misled' \in BOOLEAN
    <3>1. misled' = misled \/ misled' \in BOOLEAN
      BY DEF UnregisterInternalConnection
    <3> QED BY <2>0, <3>1
  <2> QED BY <1>1, <1>2, <1>3, <1>6, <1>9, <2>1, <2>2 DEF Typed
<1>12. OnceOnly'
  BY <1>0, <1>1, <1>2, <1>6, <1>7, OnceKept
<1>13. SlotsThere'
  BY <1>1, <1>6, <1>9 DEF ConnInv, SlotsThere
<1>14. WatchersInformed'
  BY <1>1, <1>8 DEF WatchersInformed
<1>15. WatchDataKept'
  <2>1. \A d \in ToSet(im_fd_info'), i \in 1..intact' :
           Holds(watch_data'[d], i, conn_watchers'[i])
    BY <1>1, <1>6, <1>9 DEF ConnInv, WatchDataKept
  <2> QED BY <2>1 DEF WatchDataKept, Holds
<1> QED BY <1>11, <1>12, <1>13, <1>14, <1>15 DEF ConnInv

LEMMA WatchKeeps ==
    ASSUME Sizes, ConnInv, NEW t \in ConnThreads, AddConnectionWatch(t)
    PROVE  ConnInv'
<1> DEFINE w == Arg(t)
           n == Len(conn_watchers) + 1
           Longer(k) == [c \in Connections |->
               IF Contains(SubSeq(im_fd_info, 1, k), c)
               THEN Resized(watch_data[c], n) ELSE watch_data[c]]
<1>1. Call(t, "watch") /\ UNCHANGED im_fd_info
  BY DEF AddConnectionWatch
<1>2. /\ Typed /\ OnceOnly /\ NoneTwice(conn_script)
  BY DEF ConnInv, OnceOnly
<1>3. /\ Head(conn_script[t]) \in ConnCalls /\ Head(conn_script[t]).op = "watch"
      /\ ToCome(Head(conn_script[t])) /\ conn_script' \in [ConnThreads -> Seq(ConnCalls)]
      /\ NoneTwice(conn_script)'
      /\ \A call \in ConnCalls : ToCome(call)' => ToCome(call) /\ call # Head(conn_script[t])
  BY <1>1, <1>2, CallMade
<1>4. w \in Watchers /\ ~Contains(conn_watchers, w)
  BY <1>2, <1>3 DEF Arg, ConnCalls, OnceOnly
<1>0. /\ im_fd_info \in Seq(Connections) /\ conn_watchers \in Seq(Watchers)
      /\ intact \in 0..Len(conn_watchers) /\ Len(im_fd_info) \in Nat
      /\ Len(conn_watchers) \in Nat /\ n \in Nat
      /\ \A c \in Connections : watch_data[c] \in Arrays
      /\ DOMAIN watch_data = Connections
      /\ \A c \in ToSet(im_fd_info) : c \in Connections
  <2>1. im_fd_info \in Seq(Connections)
    BY <1>2 DEF Typed
  <2>2. \A c \in ToSet(im_fd_info) : c \in Connections
    BY <2>1, Members DEF Contains
  <2> QED BY <1>2, <2>2 DEF Typed, Arrays
<1>s. /\ Len(conn_watchers) * PointerSize \in Nat /\ n * PointerSize \in Nat
      /\ Len(conn_watchers) * PointerSize <= n * PointerSize
  BY <1>0, Multiples DEF Sizes
<1>6. ASSUME NEW k \in 0..Len(im_fd_info), NEW c \in Connections
      PROVE  /\ Longer(k)[c] \in Arrays
             /\ c \in ToSet(im_fd_info) =>
                   Len(conn_watchers) * PointerSize <= Len(Longer(k)[c])
             /\ \A v : \A i \in 1..n : Holds(watch_data[c], i, v) => Holds(Longer(k)[c], i, v)
  <2>1. CASE Longer(k)[c] = watch_data[c]
    BY <1>0, <2>1 DEF ConnInv, SlotsThere
  <2>2. CASE Longer(k)[c] = Resized(watch_data[c], n)
    <3>1. /\ Longer(k)[c] \in Arrays /\ Len(Longer(k)[c]) = n * PointerSize
          /\ \A v : \A i \in 1..n : Holds(watch_data[c], i, v) => Holds(Longer(k)[c], i, v)
      <4> HIDE DEF n
      <4> QED BY <1>0, <2>2, ResizedKeeps
    <3> QED BY <1>s, <3>1
  <2> QED BY <2>1, <2>2
<1>7. CASE /\ \E k \in 0..Len(im_fd_info) : watch_data' = Longer(k)
           /\ UNCHANGED watchVars
  <2>1. PICK k \in 0..Len(im_fd_info) : watch_data' = Longer(k)
    BY <1>7
  <2>2. UNCHANGED <<conn_watchers, told, misled, intact>>
    BY <1>7 DEF watchVars
  <2>3. /\ DOMAIN watch_data' = Connections
        /\ \A c \in Connections : watch_data'[c] = Longer(k)[c]
    BY <2>1
  <2> HIDE DEF Longer
  <2>4. Typed'
    <3>1. \A c \in Connections : watch_data'[c] \in Seq(Watchers \cup {None})
      BY <1>6, <2>3 DEF Arrays
    <3> QED BY <1>1, <1>2, <1>3, <2>2, <2>3, <3>1 DEF Typed
  <2>5. OnceOnly'
    BY <1>1, <1>2, <2>2, OnceKept DEF OnceOnly
  <2>6. SlotsThere'
    BY <1>0, <1>1, <1>6, <2>2, <2>3 DEF SlotsThere
  <2>7. WatchersInformed'
    BY <1>1, <2>2 DEF ConnInv, WatchersInformed
  <2>8. WatchDataKept'
    <3>1. \A c \in ToSet(im_fd_info'), i \in 1..intact' :
             Holds(watch_data'[c], i, conn_watchers'[i])
      <4>1. \A i \in 1..intact : i \in 1..n
        BY <1>0
      <4> QED BY <1>0, <1>1, <1>6, <2>2, <2>3, <4>1 DEF ConnInv, WatchDataKept
    <3> QED BY <3>1 DEF WatchDataKept, Holds
  <2> QED BY <2>4, <2>5, <2>6, <2>7, <2>8 DEF ConnInv
<1>8. CASE /\ conn_watchers' = Append(conn_watchers, w)
           /\ watch_data' = [c \in Connections |->
                  IF Contains(im_fd_info, c)
                  THEN Stored(Longer(Len(im_fd_info))[c], n, w) ELSE watch_data[c]]
           /\ CalledForAll(w)
           /\ intact' = IF intact = n - 1 THEN n ELSE intact
           /\ UNCHANGED misled
  <2>1. /\ conn_watchers' \in Seq(Watchers) /\ Len(conn_watchers') = n
        /\ \A i \in 1..Len(conn_watchers) : conn_watchers'[i] = conn_watchers[i]
        /\ conn_watchers'[n] = w
        /\ ToSet(conn_watchers') = ToSet(conn_watchers) \cup {w}
        /\ Distinct(conn_watchers')
    BY <1>2, <1>4, <1>8, <1>0, Appended DEF OnceOnly
  <2>2. DOMAIN watch_data' = Connections
    BY <1>8
  <2>3. ASSUME NEW c \in ToSet(im_fd_info)
        PROVE  /\ watch_data'[c] \in Arrays
               /\ n * PointerSize <= Len(watch_data'[c])
               /\ Holds(watch_data'[c], n, w)
               /\ \A v : \A i \in 1..(n - 1) :
                     Holds(watch_data[c], i, v) => Holds(watch_data'[c], i, v)
    <3> DEFINE new == Resized(watch_data[c], n)
    <3>0. c \in Connections /\ Contains(im_fd_info, c)
      BY <1>0, Members
    <3>1. SubSeq(im_fd_info, 1, Len(im_fd_info)) = im_fd_info
      BY <1>0
    <3>2. watch_data'[c] = Stored(new, n, w)
      BY <1>8, <3>0, <3>1
    <3> HIDE DEF n
    <3>3. /\ new \in Arrays /\ Len(new) = n * PointerSize
          /\ \A v : \A i \in 1..n : Holds(watch_data[c], i, v) => Holds(new, i, v)
      BY <1>0, <3>0, ResizedKeeps
    <3> HIDE DEF new
    <3>4. n \in 1..n /\ \A i \in 1..(n - 1) : i \in 1..n /\ i \in Nat \ {0} /\ i # n
      <4>1. n \in Nat \ {0}
        BY <1>0 DEF n
      <4> QED BY <4>1
    <3>5. n * PointerSize <= Len(new)
      BY <1>s, <3>3
    <3>6. /\ Stored(new, n, w) \in Arrays /\ Len(Stored(new, n, w)) = Len(new)
          /\ Holds(Stored(new, n, w), n, w)
          /\ \A v : \A j \in Nat \ {0} : j # n /\ Holds(new, j, v) => Holds(Stored(new, n, w), j, v)
      <4> HIDE DEF w
      <4> QED BY <1>0, <1>4, <3>3, <3>4, <3>5, StoredKeeps
    <3>7. ASSUME NEW i \in 1..(n - 1), NEW v, Holds(watch_data[c], i, v)
          PROVE  Holds(watch_data'[c], i, v)
      BY <3>2, <3>3, <3>4, <3>6, <3>7
    <3> QED BY <3>2, <3>5, <3>6, <3>7
  <2>4. \A c \in Connections : c \notin ToSet(im_fd_info) => watch_data'[c] = watch_data[c]
    BY <1>8, <1>0, Members
  <2>5. intact' \in 0..n /\ (intact' = n \/ intact' = intact) /\ (intact' = n => intact = n - 1)
    BY <1>0, <1>8
  <2> HIDE DEF Longer
  <2>6. told' = [told EXCEPT ![w] = ToSet(im_fd_info)]
    BY <1>8 DEF CalledForAll
  <2>7. Typed'
    <3>1. \A c \in Connections : watch_data'[c] \in Seq(Watchers \cup {None})
      BY <1>0, <2>3, <2>4 DEF Arrays
    <3>2. told' \in [Watchers -> SUBSET Connections]
      BY <1>0, <1>2, <2>6 DEF Typed
    <3>3. misled' = misled
      BY <1>8
    <3> QED BY <1>1, <1>2, <1>3, <2>1, <2>2, <2>5, <3>1, <3>2, <3>3 DEF Typed
  <2>8. OnceOnly'
    <3>1. ASSUME NEW call \in ConnCalls, ToCome(call)'
          PROVE  /\ call.op = "register" => ~Contains(im_fd_info', call.arg)
                 /\ call.op = "watch" => ~Contains(conn_watchers', call.arg)
      <4>1. ToCome(call) /\ call # Head(conn_script[t])
        BY <1>3, <3>1
      <4>2. ASSUME call.op = "watch" PROVE call.arg # w
        BY <1>3, <4>1, <4>2, SameCall DEF Arg
      <4>3. Contains(conn_watchers', call.arg) <=>
               Contains(conn_watchers, call.arg) \/ call.arg = w
        <5> HIDE DEF w
        <5> QED BY <1>0, <2>1, Members
      <4> QED BY <1>1, <1>2, <4>1, <4>2, <4>3 DEF OnceOnly
    <3> QED BY <1>1, <1>2, <1>3, <2>1, <3>1 DEF OnceOnly
  <2>9. SlotsThere'
    BY <1>1, <2>1, <2>3 DEF SlotsThere
  <2>10. WatchersInformed'
    <3>1. ASSUME NEW v \in ToSet(conn_watchers') PROVE told'[v] = ToSet(im_fd_info)
      <4>0. told \in [Watchers -> SUBSET Connections]
        BY <1>2 DEF Typed
      <4>1. CASE v = w
        BY <1>4, <2>6, <4>0, <4>1
      <4>2. CASE v # w /\ v \in ToSet(conn_watchers)
        <5>1. told'[v] = told[v]
          BY <2>6, <4>0, <4>2
        <5> QED BY <4>2, <5>1 DEF ConnInv, WatchersInformed
      <4> QED BY <2>1, <4>1, <4>2
    <3> QED BY <1>1, <3>1 DEF WatchersInformed
  <2>11. WatchDataKept'
    <3>1. ASSUME NEW c \in ToSet(im_fd_info), NEW i \in 1..intact'
          PROVE  Holds(watch_data'[c], i, conn_watchers'[i])
      <4>1. CASE i = n
        BY <2>1, <2>3, <4>1
      <4>2. CASE i # n
        <5>1. i \in 1..intact /\ i \in 1..(n - 1) /\ i \in 1..Len(conn_watchers)
          BY <1>0, <2>5, <4>2
        <5>2. Holds(watch_data[c], i, conn_watchers[i])
          BY <5>1 DEF ConnInv, WatchDataKept
        <5> QED BY <2>1, <2>3, <5>1, <5>2
      <4> QED BY <4>1, <4>2
    <3>2. \A c \in ToSet(im_fd_info'), i \in 1..intact' :
             Holds(watch_data'[c], i, conn_watchers'[i])
      BY <1>1, <3>1
    <3> QED BY <3>2 DEF WatchDataKept, Holds
  <2> QED BY <2>7, <2>8, <2>9, <2>10, <2>11 DEF ConnInv
<1> QED BY <1>7, <1>8 DEF AddConnectionWatch

LEMMA UnwatchKeeps ==
    ASSUME Sizes, ConnInv, NEW t \in ConnThreads, RemoveConnectionWatch(t)
    PROVE  ConnInv'
<1> DEFINE w == Arg(t)
           i == Place(conn_watchers, w)
           n == Len(conn_watchers) - i
<1>1. Call(t, "unwatch")
  BY DEF RemoveConnectionWatch
<1>2. /\ Typed /\ OnceOnly /\ NoneTwice(conn_script)
  BY DEF ConnInv, OnceOnly
<1>3. conn_script' \in [ConnThreads -> Seq(ConnCalls)]
  BY <1>1, <1>2, CallMade
<1>0. /\ im_fd_info \in Seq(Connections) /\ conn_watchers \in Seq(Watchers)
      /\ intact \in 0..Len(conn_watchers) /\ Len(conn_watchers) \in Nat
      /\ \A c \in Connections : watch_data[c] \in Arrays
      /\ DOMAIN watch_data = Connections
      /\ Distinct(conn_watchers) /\ Distinct(im_fd_info)
  BY <1>2 DEF Typed, Arrays, OnceOnly
<1>i. \A c \in ToSet(im_fd_info) : c \in Connections
  BY <1>0, Members DEF Contains
<1>6. CASE ~Contains(conn_watchers, w)
  <2>1. UNCHANGED <<listVars, watchVars>>
    BY <1>6 DEF RemoveConnectionWatch
  <2>2. Typed'
    BY <1>1, <1>2, <1>3, <2>1 DEF Typed, listVars, watchVars
  <2>3. OnceOnly'
    BY <1>1, <1>2, <2>1, OnceKept DEF listVars, watchVars, OnceOnly
  <2> QED BY <2>1, <2>2, <2>3, ListsKept DEF ConnInv
<1>7. CASE Contains(conn_watchers, w)
  <2>1. /\ conn_watchers' = Unlinked(conn_watchers, w)
        /\ watch_data' = [c \in Connections |->
               IF Contains(im_fd_info, c) THEN MovedDown(watch_data[c], i, n) ELSE watch_data[c]]
        /\ told' = [told EXCEPT ![w] = {}]
        /\ intact' = Min({intact, i - 1})
        /\ UNCHANGED <<im_fd_info, misled>>
    BY <1>7 DEF RemoveConnectionWatch
  <2>2. i \in 1..Len(conn_watchers) /\ conn_watchers[i] = w
    BY <1>0, <1>7, PlaceFound
  <2>3. /\ conn_watchers' \in Seq(Watchers) /\ Len(conn_watchers') = Len(conn_watchers) - 1
        /\ \A j \in 1..Len(conn_watchers') :
              conn_watchers'[j] = IF j < i THEN conn_watchers[j] ELSE conn_watchers[j + 1]
        /\ ToSet(conn_watchers') = ToSet(conn_watchers) \ {w}
        /\ Distinct(conn_watchers')
    BY <1>0, <1>7, <2>1, TakenOut
  <2> HIDE DEF i, w
  <2>4. /\ intact' \in 0..Len(conn_watchers') /\ intact' \in Nat
        /\ intact' <= intact /\ intact' <= i - 1
    <3>1. intact \in Int /\ i - 1 \in Int
      BY <1>0, <2>2
    <3>2. \A a, b \in Int : Min({a, b}) = IF a <= b THEN a ELSE b
      BY DEF Min
    <3>3. intact' = IF intact <= i - 1 THEN intact ELSE i - 1
      BY <2>1, <3>1, <3>2
    <3> QED BY <1>0, <2>2, <2>3, <3>3
  <2>s. ASSUME NEW c \in ToSet(im_fd_info)
        PROVE  Len(conn_watchers) * PointerSize <= Len(watch_data[c])
    BY DEF ConnInv, SlotsThere
  <2>5. ASSUME NEW c \in ToSet(im_fd_info)
        PROVE  /\ watch_data'[c] \in Arrays /\ Len(watch_data'[c]) = Len(watch_data[c])
               /\ \A v : \A j \in 1..(i - 1) :
                     Holds(watch_data[c], j, v) => Holds(watch_data'[c], j, v)
    <3>1. watch_data'[c] = MovedDown(watch_data[c], i, Len(conn_watchers) - i)
      BY <1>0, <1>i, <2>1, Members
    <3> QED BY <1>0, <1>i, <2>2, <2>s, <3>1, MovedKeeps
  <2>6. \A c \in Connections : c \notin ToSet(im_fd_info) => watch_data'[c] = watch_data[c]
    BY <1>0, <2>1, Members
  <2>7. Typed'
    <3>1. DOMAIN watch_data' = Connections
      BY <2>1
    <3>2. \A c \in Connections : watch_data'[c] \in Seq(Watchers \cup {None})
      BY <1>0, <2>5, <2>6 DEF Arrays
    <3>3. told' \in [Watchers -> SUBSET Connections]
      BY <1>2, <2>1 DEF Typed
    <3> QED BY <1>1, <1>2, <1>3, <2>1, <2>3, <2>4, <3>1, <3>2, <3>3 DEF Typed
  <2>8. OnceOnly'
    <3>1. \A x : Contains(conn_watchers', x) => Contains(conn_watchers, x)
      BY <1>0, <2>3, Members
    <3> QED BY <1>0, <1>1, <1>2, <2>1, <2>3, <3>1, OnceKept
  <2>9. SlotsThere'
    <3>1. Len(conn_watchers') * PointerSize <= Len(conn_watchers) * PointerSize
          /\ Len(conn_watchers') * PointerSize \in Nat
          /\ Len(conn_watchers) * PointerSize \in Nat
      <4>1. Len(conn_watchers') \in Nat /\ Len(conn_watchers') <= Len(conn_watchers)
        BY <1>0, <2>2, <2>3
      <4> QED BY <1>0, <4>1, Multiples DEF Sizes
    <3>2. \A c \in ToSet(im_fd_info) : Len(watch_data'[c]) = Len(watch_data[c])
                                        /\ Len(watch_data[c]) \in Nat
      BY <1>0, <1>i, <2>5 DEF Arrays
    <3>3. ASSUME NEW c \in ToSet(im_fd_info)
          PROVE  Len(conn_watchers') * PointerSize <= Len(watch_data'[c])
      <4> DEFINE x == Len(conn_watchers') * PointerSize
                 y == Len(conn_watchers) * PointerSize
                 z == Len(watch_data[c])
      <4>1. x <= y /\ y <= z /\ x \in Nat /\ y \in Nat /\ z \in Nat
        BY <2>s, <3>1, <3>2
      <4>2. Len(watch_data'[c]) = z
        BY <3>2
      <4> HIDE DEF x, y, z
      <4>3. x <= z
        BY <4>1
      <4> QED BY <4>2, <4>3 DEF x
    <3> QED BY <2>1, <3>3 DEF SlotsThere
  <2>10. WatchersInformed'
    <3>1. ASSUME NEW v \in ToSet(conn_watchers') PROVE told'[v] = ToSet(im_fd_info)
      <4>1. v \in ToSet(conn_watchers) /\ v # w
        BY <2>3
      <4>2. v \in Watchers
        BY <1>0, <4>1, Members DEF Contains
      <4>3. told'[v] = told[v]
        BY <1>2, <2>1, <4>1, <4>2 DEF Typed
      <4> QED BY <4>1, <4>3 DEF ConnInv, WatchersInformed
    <3> QED BY <2>1, <3>1 DEF WatchersInformed
  <2>11. WatchDataKept'
    <3>1. ASSUME NEW c \in ToSet(im_fd_info), NEW j \in 1..intact'
          PROVE  Holds(watch_data'[c], j, conn_watchers'[j])
      <4>1. j \in 1..intact /\ j \in 1..(i - 1) /\ j \in 1..Len(conn_watchers') /\ j < i
        BY <1>0, <2>2, <2>3, <2>4
      <4>2. Holds(watch_data[c], j, conn_watchers[j])
        BY <4>1 DEF ConnInv, WatchDataKept
      <4> QED BY <2>3, <2>5, <4>1, <4>2
    <3>2. \A c \in ToSet(im_fd_info'), j \in 1..intact' :
             Holds(watch_data'[c], j, conn_watchers'[j])
      BY <2>1, <3>1
    <3> QED BY <3>2 DEF WatchDataKept, Holds
  <2> QED BY <2>7, <2>8, <2>9, <2>10, <2>11 DEF ConnInv
<1> QED BY <1>6, <1>7

\* Polling and its callbacks leave the lists alone.
LEMMA CallbacksKeep ==
    ASSUME Sizes, ConnInv, NEW t \in ConnThreads,
           \/ ProcessInternalConnection(t) \/ CheckInternalConnections(t)
           \/ AfterCallback(t) \/ AfterCallbackInLoop(t)
    PROVE  ConnInv'
<1>1. UNCHANGED <<listVars, watchVars>>
  BY DEF ProcessInternalConnection, CheckInternalConnections, AfterCallback, AfterCallbackInLoop
<1>2. Typed /\ OnceOnly /\ NoneTwice(conn_script)
  BY DEF ConnInv, OnceOnly
<1>3. OnceOnly' /\ conn_script' \in [ConnThreads -> Seq(ConnCalls)]
  <2>1. ASSUME NEW op, Call(t, op) PROVE OnceOnly' /\ conn_script' \in [ConnThreads -> Seq(ConnCalls)]
    BY <1>1, <1>2, <2>1, CallMade, OnceKept DEF OnceOnly, listVars, watchVars
  <2>2. CASE UNCHANGED conn_script
    BY <1>1, <1>2, <2>2 DEF Typed, OnceOnly, NoneTwice, ToCome, listVars, watchVars
  <2> QED BY <2>1, <2>2
          DEF ProcessInternalConnection, CheckInternalConnections, AfterCallback, AfterCallbackInLoop
<1>4. Typed'
  BY <1>1, <1>2, <1>3 DEF Typed, listVars, watchVars
<1> QED BY <1>1, <1>3, <1>4, ListsKept DEF ConnInv

-----------------------------------------------------------------------------
(***************************************************************************)
(* The theorems.                                                           *)
(***************************************************************************)
LEMMA InitConnInv == Sizes /\ CallsOnce /\ ConnInit => ConnInv
<1> SUFFICES ASSUME Sizes, CallsOnce, ConnInit PROVE ConnInv
  OBVIOUS
<1>1. /\ im_fd_info = <<>> /\ conn_watchers = <<>> /\ intact = 0
      /\ im_fd_info \in Seq(Connections) /\ conn_watchers \in Seq(Watchers)
      /\ Len(im_fd_info) = 0 /\ Len(conn_watchers) = 0
  BY DEF ConnInit
<1>2. \A x : ~Contains(im_fd_info, x) /\ ~Contains(conn_watchers, x)
  BY <1>1 DEF Contains
<1>3. ToSet(im_fd_info) = {} /\ ToSet(conn_watchers) = {}
  BY <1>1, <1>2, Members
<1>4. Typed
  <2>1. conn_script \in [ConnThreads -> Seq(ConnCalls)]
    BY DEF ConnInit, CallsOnce
  <2>2. /\ DOMAIN watch_data = Connections
        /\ \A c \in Connections : watch_data[c] = <<>>
    BY DEF ConnInit
  <2>3. \A c \in Connections : watch_data[c] \in Seq(Watchers \cup {None})
    <3>1. <<>> \in Seq(Watchers \cup {None})
      OBVIOUS
    <3> QED BY <2>2, <3>1, Zenon
  <2>4. told \in [Watchers -> SUBSET Connections] /\ misled \in BOOLEAN
    BY DEF ConnInit
  <2>5. intact \in 0..Len(conn_watchers)
    BY <1>1
  <2> QED BY <1>1, <2>1, <2>2, <2>3, <2>4, <2>5 DEF Typed
<1>5. OnceOnly
  BY <1>1, <1>2 DEF ConnInit, CallsOnce, OnceOnly, Distinct
<1> QED BY <1>3, <1>4, <1>5 DEF ConnInv, SlotsThere, WatchersInformed, WatchDataKept

LEMMA StepConnInv == Sizes /\ ConnInv /\ [ConnNext]_connVars => ConnInv'
<1> SUFFICES ASSUME Sizes, ConnInv, [ConnNext]_connVars PROVE ConnInv'
  OBVIOUS
<1>1. ASSUME NEW t \in ConnThreads, RegisterInternalConnection(t) PROVE ConnInv'
  BY <1>1, RegisterKeeps
<1>2. ASSUME NEW t \in ConnThreads, UnregisterInternalConnection(t) PROVE ConnInv'
  BY <1>2, UnregisterKeeps
<1>3. ASSUME NEW t \in ConnThreads, AddConnectionWatch(t) PROVE ConnInv'
  BY <1>3, WatchKeeps
<1>4. ASSUME NEW t \in ConnThreads, RemoveConnectionWatch(t) PROVE ConnInv'
  BY <1>4, UnwatchKeeps
<1>5. ASSUME NEW t \in ConnThreads,
             \/ ProcessInternalConnection(t) \/ CheckInternalConnections(t)
             \/ AfterCallback(t) \/ AfterCallbackInLoop(t)
      PROVE  ConnInv'
  BY <1>5, CallbacksKeep
<1>6. CASE UNCHANGED connVars
  <2>1. UNCHANGED <<listVars, watchVars, conn_script>>
    BY <1>6 DEF connVars
  <2>2. Typed' /\ OnceOnly'
    BY <2>1 DEF ConnInv, Typed, OnceOnly, NoneTwice, ToCome, listVars, watchVars
  <2> QED BY <2>1, <2>2, ListsKept DEF ConnInv
<1> QED BY <1>1, <1>2, <1>3, <1>4, <1>5, <1>6 DEF ConnNext

\* The inductive invariant holds, for any threads and sizes, whatever calls
\* are made, if no descriptor is registered and no watcher added twice.
THEOREM ConnInvariance == ASSUME Sizes, CallsOnce PROVE ConnSpec => []ConnInv
<1>1. ConnInit => ConnInv
  BY InitConnInv
<1>2. ConnInv /\ [ConnNext]_connVars => ConnInv'
  BY StepConnInv
<1> QED BY <1>1, <1>2, PTL DEF ConnSpec

\* XAddConnectionWatch and _XRegisterInternalConnection tell every watcher of
\* every connection, and of its end, in whatever order both came and went and
\* wherever memory failed.
THEOREM WatchersStayInformed == ASSUME Sizes, CallsOnce PROVE ConnSpec => []WatchersInformed
<1>1. ConnInv => WatchersInformed
  BY DEF ConnInv
<1> QED BY <1>1, ConnInvariance, PTL

\* A watcher finds its pointer in its slot, while none before it has been
\* removed.
THEOREM WatchDataStaysKept == ASSUME Sizes, CallsOnce PROVE ConnSpec => []WatchDataKept
<1>1. ConnInv => WatchDataKept
  BY DEF ConnInv
<1> QED BY <1>1, ConnInvariance, PTL

-----------------------------------------------------------------------------
(***************************************************************************)
(* If no watcher is ever removed, what XlibInt.c:596 does to the slots     *)
(* behind it never happens.                                                *)
(***************************************************************************)
LEMMA StepIntact == Sizes /\ ConnInv /\ AllIntact /\ [ConnNext]_connVars => AllIntact'
<1> SUFFICES ASSUME Sizes, ConnInv, AllIntact, [ConnNext]_connVars PROVE AllIntact'
  OBVIOUS
<1>0. /\ Typed /\ NoneTwice(conn_script) /\ im_fd_info \in Seq(Connections)
      /\ conn_watchers \in Seq(Watchers)
  BY DEF ConnInv, OnceOnly, Typed
<1>1. ASSUME NEW t \in ConnThreads, NEW op, Call(t, op), intact' = Len(conn_watchers'), ~misled'
      PROVE  AllIntact'
  BY <1>0, <1>1, CallMade DEF AllIntact, WatchDataHeld
<1>2. ASSUME NEW t \in ConnThreads, RegisterInternalConnection(t) PROVE AllIntact'
  <2>1. Call(t, "register") /\ UNCHANGED <<intact, conn_watchers, misled>>
    BY <1>2 DEF RegisterInternalConnection, watchVars
  <2> QED BY <1>1, <2>1 DEF AllIntact, WatchDataHeld
<1>3. ASSUME NEW t \in ConnThreads, UnregisterInternalConnection(t) PROVE AllIntact'
  <2>1. Call(t, "unregister") /\ UNCHANGED <<intact, conn_watchers>>
    BY <1>3 DEF UnregisterInternalConnection
  <2>2. ~misled'
    <3>1. CASE Contains(im_fd_info, Arg(t))
      <4>1. Arg(t) \in ToSet(im_fd_info)
        BY <1>0, <3>1, Members
      <4>2. \A i \in 1..Len(conn_watchers) : Holds(watch_data[Arg(t)], i, conn_watchers[i])
        BY <4>1 DEF ConnInv, WatchDataKept, AllIntact
      <4>3. misled' = (misled \/ \E i \in 1..Len(conn_watchers) :
                         ~Holds(watch_data[Arg(t)], i, conn_watchers[i]))
        BY <1>3, <3>1 DEF UnregisterInternalConnection
      <4> QED BY <4>2, <4>3 DEF AllIntact, WatchDataHeld
    <3>2. CASE ~Contains(im_fd_info, Arg(t))
      BY <1>3, <3>2 DEF UnregisterInternalConnection, AllIntact, WatchDataHeld
    <3> QED BY <3>1, <3>2
  <2> QED BY <1>1, <2>1, <2>2 DEF AllIntact
<1>4. ASSUME NEW t \in ConnThreads, AddConnectionWatch(t) PROVE AllIntact'
  <2>0. Call(t, "watch") /\ Len(conn_watchers) \in Nat
    BY <1>0, <1>4 DEF AddConnectionWatch
  <2>1. misled' = misled
    BY <1>4 DEF AddConnectionWatch, watchVars
  <2>2. \/ UNCHANGED <<conn_watchers, intact>>
        \/ /\ conn_watchers' = Append(conn_watchers, Arg(t))
           /\ intact' = IF intact = Len(conn_watchers) + 1 - 1
                        THEN Len(conn_watchers) + 1 ELSE intact
    BY <1>4 DEF AddConnectionWatch, watchVars
  <2>3. Arg(t) \in Watchers
    <3>1. Head(conn_script[t]) \in ConnCalls /\ Head(conn_script[t]).op = "watch"
      BY <1>0, <2>0, CallMade
    <3> QED BY <3>1 DEF ConnCalls, Arg
  <2>4. intact' = Len(conn_watchers')
    <3>1. CASE UNCHANGED <<conn_watchers, intact>>
      BY <3>1 DEF AllIntact
    <3>2. CASE /\ conn_watchers' = Append(conn_watchers, Arg(t))
               /\ intact' = IF intact = Len(conn_watchers) + 1 - 1
                            THEN Len(conn_watchers) + 1 ELSE intact
      <4>1. Len(conn_watchers') = Len(conn_watchers) + 1
        BY <1>0, <2>3, <3>2
      <4>2. intact = Len(conn_watchers) + 1 - 1
        BY <2>0 DEF AllIntact
      <4> QED BY <3>2, <4>1, <4>2
    <3> QED BY <2>2, <3>1, <3>2
  <2> QED BY <1>1, <2>0, <2>1, <2>4 DEF AllIntact, WatchDataHeld
<1>5. ASSUME NEW t \in ConnThreads PROVE ~RemoveConnectionWatch(t)
  <2>1. ASSUME Call(t, "unwatch") PROVE FALSE
    <3>1. /\ Head(conn_script[t]) \in ConnCalls /\ Head(conn_script[t]).op = "unwatch"
          /\ ToCome(Head(conn_script[t]))
      BY <1>0, <2>1, CallMade
    <3> QED BY <3>1 DEF AllIntact
  <2> QED BY <2>1 DEF RemoveConnectionWatch
<1>6. ASSUME NEW t \in ConnThreads, ProcessInternalConnection(t) \/ CheckInternalConnections(t)
      PROVE  AllIntact'
  <2>1. Call(t, "process") \/ Call(t, "check")
    BY <1>6 DEF ProcessInternalConnection, CheckInternalConnections
  <2>2. UNCHANGED <<intact, conn_watchers, misled>>
    BY <1>6 DEF ProcessInternalConnection, CheckInternalConnections, watchVars
  <2> QED BY <1>1, <2>1, <2>2 DEF AllIntact, WatchDataHeld
<1>7. ASSUME UNCHANGED <<intact, conn_watchers, misled, conn_script>> PROVE AllIntact'
  BY <1>7 DEF AllIntact, WatchDataHeld, ToCome
<1>8. ASSUME NEW t \in ConnThreads, AfterCallback(t) \/ AfterCallbackInLoop(t) PROVE AllIntact'
  BY <1>7, <1>8 DEF AfterCallback, AfterCallbackInLoop, watchVars
<1>9. CASE UNCHANGED connVars
  BY <1>7, <1>9 DEF connVars, watchVars
<1> QED BY <1>2, <1>3, <1>4, <1>5, <1>6, <1>8, <1>9 DEF ConnNext

\* A watcher that is told of the end of a connection finds its own pointer, if
\* no call removes a watcher; with such calls TLC refutes it.
THEOREM WatchDataStaysHeld ==
    ASSUME Sizes, CallsOnce, NoRemoval PROVE ConnSpec => []WatchDataHeld
<1>1. ConnInit => AllIntact
  BY DEF ConnInit, NoRemoval, AllIntact, ToCome, WatchDataHeld
<1>2. ConnInv /\ AllIntact /\ [ConnNext]_connVars => AllIntact'
  BY StepIntact
<1>3. AllIntact => WatchDataHeld
  BY DEF AllIntact
<1> QED BY <1>1, <1>2, <1>3, ConnInvariance, PTL DEF ConnSpec

-----------------------------------------------------------------------------
(***************************************************************************)
(* Polling.  Nothing here depends on what is registered how often.         *)
(***************************************************************************)
CallsTyped == \A s \in ConnScripts : s \in [ConnThreads -> Seq(ConnCalls)]

PollTyped ==
    /\ im_fd_info \in Seq(Connections)
    /\ pollfds \in [CacheEntries -> Connections \cup {None}]
    /\ most \in Nat /\ Len(im_fd_info) <= most
    /\ overrun \in BOOLEAN /\ overtaken \in BOOLEAN /\ proc_conni \in BOOLEAN
    /\ conn_script \in [ConnThreads -> Seq(ConnCalls)]
    /\ DOMAIN conn_local = ConnThreads
    /\ \A t \in ConnThreads : conn_local[t].at \in {"Idle", "Callback", "Loop"}

\* Who is in the polling loop finds the flag set, unless another callback has
\* cleared it meanwhile.
PollerAlone ==
    ~overtaken =>
        /\ \A t \in ConnThreads : conn_local[t].at = "Loop" => proc_conni
        /\ \A t, u \in ConnThreads : conn_local[t].at = "Loop" /\ conn_local[u].at = "Loop" => t = u

PollInv == PollTyped /\ PollerAlone /\ PollingGoesOn /\ PollCacheCurrent

(***************************************************************************)
(* Operators.                                                              *)
(***************************************************************************)
LEMMA LeastOfSet ==
    ASSUME NEW S \in SUBSET Nat, S # {}
    PROVE  Min(S) \in S
<1>1. PICK m \in S : \A k \in S : <<k, m>> \notin OpToRel(<, Nat)
  BY WFMin, NatLessThanWellFounded
<1>2. ASSUME NEW k \in S PROVE m <= k
  <2>1. k \in Nat /\ m \in Nat
    OBVIOUS
  <2>2. CASE k < m
    BY <2>2, <2>1, <1>1 DEF OpToRel
  <2> QED BY <2>1, <2>2
<1> QED BY <1>1, <1>2 DEF Min

LEMMA GreaterOfTwo ==
    ASSUME NEW a \in Nat, NEW b \in Nat
    PROVE  Max({a, b}) \in Nat /\ Max({a, b}) >= a /\ Max({a, b}) >= b
<1>1. \E x \in {a, b} : \A y \in {a, b} : x >= y
  <2>1. CASE a >= b
    BY <2>1
  <2>2. CASE b >= a
    BY <2>2
  <2> QED BY <2>1, <2>2
<1> QED BY <1>1 DEF Max

\* A list with an element less, if it was there, has no more elements.
LEMMA Shorter ==
    ASSUME NEW S, NEW s \in Seq(S), NEW x
    PROVE  Unlinked(s, x) \in Seq(S) /\ Len(Unlinked(s, x)) <= Len(s)
<1>1. CASE ~Contains(s, x)
  BY <1>1 DEF Unlinked
<1>2. CASE Contains(s, x)
  <2> DEFINE places == {j \in DOMAIN s : s[j] = x}
             i == Place(s, x)
             before == SubSeq(s, 1, i - 1)
             after == SubSeq(s, i + 1, Len(s))
  <2>1. i \in 1..Len(s) /\ Len(s) \in Nat
    <3>1. places # {} /\ places \in SUBSET Nat
      BY <1>2, Members DEF Contains
    <3>2. Min(places) \in places
      BY <3>1, LeastOfSet
    <3> QED BY <3>2, Members DEF Place
  <2> HIDE DEF i
  <2>2. before \in Seq(S) /\ Len(before) = i - 1 /\ after \in Seq(S) /\ Len(after) = Len(s) - i
    BY <2>1
  <2>3. Unlinked(s, x) = before \o after
    BY <1>2 DEF Unlinked, RemoveAt, i
  <2> HIDE DEF before, after
  <2> QED BY <2>1, <2>2, <2>3, Joined
<1> QED BY <1>1, <1>2

LEMMA CallTyped ==
    ASSUME conn_script \in [ConnThreads -> Seq(ConnCalls)], NEW t \in ConnThreads, NEW op,
           Call(t, op)
    PROVE  /\ Head(conn_script[t]) \in ConnCalls /\ Head(conn_script[t]).op = op
           /\ conn_script' \in [ConnThreads -> Seq(ConnCalls)]
BY DEF Call

\* Entries are written in places that are in the list, all of them but for what
\* the cache still has.
LEMMA CacheWritten ==
    ASSUME Sizes, PollTyped, NEW list \in Seq(Connections), NEW places \in SUBSET (1..Len(list)),
           Written(places, list)
    PROVE  /\ pollfds' \in [CacheEntries -> Connections \cup {None}]
           /\ \A i \in CacheEntries : pollfds'[i] = IF i \in places THEN list[i] ELSE pollfds[i]
           /\ overrun' \in BOOLEAN
           /\ overrun' => overrun \/ Len(list) >= PollfdCacheSize
<1>1. pollfds' = [i \in CacheEntries |-> IF i \in places THEN list[i] ELSE pollfds[i]]
  BY DEF Written
<1>2. \A i \in CacheEntries : i \in places => list[i] \in Connections
  OBVIOUS
<1>3. \A i \in CacheEntries : pollfds[i] \in Connections \cup {None}
  BY DEF PollTyped
<1>4. overrun' = (overrun \/ ~(places \subseteq CacheEntries)) /\ overrun \in BOOLEAN
  BY DEF Written, PollTyped
<1>5. ~(places \subseteq CacheEntries) => Len(list) >= PollfdCacheSize
  BY DEF CacheEntries, Sizes
<1> QED BY <1>1, <1>2, <1>3, <1>4, <1>5, Zenon

(***************************************************************************)
(* The steps.                                                              *)
(***************************************************************************)
\* A step that changes neither the flag nor who is in a callback.
LEMMA FlagLeft ==
    ASSUME PollInv, UNCHANGED <<proc_conni, conn_local, overtaken>>
    PROVE  PollerAlone' /\ PollingGoesOn'
BY DEF PollInv, PollerAlone, PollingGoesOn

\* A step that changes neither the list nor the cache.
LEMMA CacheLeft ==
    ASSUME PollInv, UNCHANGED listVars
    PROVE  PollCacheCurrent'
BY DEF PollInv, PollCacheCurrent, listVars

LEMMA RegisterPolls ==
    ASSUME Sizes, PollInv, NEW t \in ConnThreads, RegisterInternalConnection(t)
    PROVE  PollInv'
<1> DEFINE c == Arg(t)
           list == Append(im_fd_info, c)
<1>1. Call(t, "register") /\ UNCHANGED <<proc_conni, conn_local, overtaken>>
  BY DEF RegisterInternalConnection
<1>2. PollerAlone' /\ PollingGoesOn'
  BY <1>1, FlagLeft
<1>3. c \in Connections /\ conn_script' \in [ConnThreads -> Seq(ConnCalls)]
  <2>1. /\ Head(conn_script[t]) \in ConnCalls /\ Head(conn_script[t]).op = "register"
        /\ conn_script' \in [ConnThreads -> Seq(ConnCalls)]
    BY <1>1, CallTyped DEF PollInv, PollTyped
  <2> QED BY <2>1 DEF Arg, ConnCalls
<1>4. CASE UNCHANGED <<listVars, watchVars>>
  <2>1. PollTyped'
    BY <1>1, <1>3, <1>4 DEF PollInv, PollTyped, listVars
  <2> QED BY <1>2, <1>4, <2>1, CacheLeft DEF PollInv
<1>5. CASE /\ im_fd_info' = list /\ CacheAdd(list)
           /\ most' = Max({most, Len(im_fd_info) + 1})
  <2>0. /\ im_fd_info \in Seq(Connections) /\ Len(im_fd_info) \in Nat /\ most \in Nat
        /\ PollTyped /\ PollCacheCurrent /\ PollfdCacheSize \in Nat \ {0}
        /\ Len(im_fd_info) <= most
    BY DEF PollInv, PollTyped, Sizes
  <2>1. /\ list \in Seq(Connections) /\ Len(list) = Len(im_fd_info) + 1
        /\ \A i \in 1..Len(im_fd_info) : list[i] = im_fd_info[i]
    BY <1>3, <2>0, Appended
  <2>2. most' \in Nat /\ most' >= most /\ most' >= Len(list)
    <3>1. Len(im_fd_info) + 1 \in Nat
      BY <2>0
    <3> QED BY <1>5, <2>0, <2>1, <3>1, GreaterOfTwo
  <2> HIDE DEF list
  <2>3. /\ pollfds' \in [CacheEntries -> Connections \cup {None}] /\ overrun' \in BOOLEAN
        /\ overrun' => overrun \/ Len(list) >= PollfdCacheSize
        /\ Len(list) < PollfdCacheSize =>
              \A i \in 1..Len(list) :
                 pollfds'[i] = IF i = Len(list) THEN list[i] ELSE pollfds[i]
    <3>1. CASE Len(list) <= PollfdCacheSize
      <4>1. Written({Len(list)}, list) /\ {Len(list)} \in SUBSET (1..Len(list))
        BY <1>5, <2>0, <2>1, <3>1 DEF CacheAdd
      <4>2. Len(list) < PollfdCacheSize => 1..Len(list) \subseteq CacheEntries
        BY <2>0, <2>1 DEF CacheEntries
      <4> QED BY <2>0, <2>1, <4>1, <4>2, CacheWritten
    <3>2. CASE Len(list) > PollfdCacheSize
      BY <1>5, <2>0, <2>1, <3>2 DEF CacheAdd, PollTyped
    <3> QED BY <2>0, <2>1, <3>1, <3>2
  <2>4. PollTyped'
    BY <1>1, <1>3, <1>5, <2>0, <2>1, <2>2, <2>3 DEF PollTyped
  <2>5. PollCacheCurrent'
    <3>1. ASSUME Len(list) < PollfdCacheSize, NEW i \in 1..Len(list) PROVE pollfds'[i] = list[i]
      <4>1. CASE i = Len(list)
        BY <2>3, <3>1, <4>1
      <4>2. CASE i # Len(list)
        <5>1. i \in DOMAIN im_fd_info /\ i \in 1..Len(im_fd_info) /\ Len(im_fd_info) < PollfdCacheSize
          BY <2>0, <2>1, <3>1, <4>2
        <5> QED BY <2>0, <2>1, <2>3, <3>1, <4>2, <5>1 DEF PollCacheCurrent
      <4> QED BY <4>1, <4>2
    <3>2. overrun' => most' >= PollfdCacheSize
      BY <2>0, <2>1, <2>2, <2>3 DEF PollCacheCurrent
    <3>3. DOMAIN list = 1..Len(list)
      BY <2>1
    <3> QED BY <1>5, <3>1, <3>2, <3>3 DEF PollCacheCurrent
  <2> QED BY <1>2, <2>4, <2>5 DEF PollInv
<1> QED BY <1>4, <1>5 DEF RegisterInternalConnection

LEMMA UnregisterPolls ==
    ASSUME Sizes, PollInv, NEW t \in ConnThreads, UnregisterInternalConnection(t)
    PROVE  PollInv'
<1> DEFINE list == Unlinked(im_fd_info, Arg(t))
<1>1. /\ Call(t, "unregister") /\ im_fd_info' = list /\ CacheDel(list)
      /\ UNCHANGED <<most, proc_conni, conn_local, overtaken>>
  BY DEF UnregisterInternalConnection
<1>2. PollerAlone' /\ PollingGoesOn'
  BY <1>1, FlagLeft
<1>3. conn_script' \in [ConnThreads -> Seq(ConnCalls)]
  BY <1>1, CallTyped DEF PollInv, PollTyped
<1>4. /\ im_fd_info \in Seq(Connections) /\ Len(im_fd_info) \in Nat /\ most \in Nat
      /\ PollTyped /\ PollCacheCurrent /\ PollfdCacheSize \in Nat \ {0}
      /\ Len(im_fd_info) <= most
  BY DEF PollInv, PollTyped, Sizes
<1>5. /\ list \in Seq(Connections) /\ Len(list) <= Len(im_fd_info) /\ Len(list) \in Nat
      /\ DOMAIN list = 1..Len(list)
  BY <1>4, Shorter, Members
<1> HIDE DEF list
<1>6. /\ pollfds' \in [CacheEntries -> Connections \cup {None}] /\ overrun' \in BOOLEAN
      /\ overrun' => overrun \/ Len(list) >= PollfdCacheSize
      /\ Len(list) < PollfdCacheSize => \A i \in 1..Len(list) : pollfds'[i] = list[i]
  <2>1. CASE Len(list) <= PollfdCacheSize
    <3>1. Written(1..Len(list), list) /\ 1..Len(list) \in SUBSET (1..Len(list))
      BY <1>1, <1>5, <2>1 DEF CacheDel
    <3>2. Len(list) < PollfdCacheSize => 1..Len(list) \subseteq CacheEntries
      BY <1>4, <1>5 DEF CacheEntries
    <3> QED BY <1>4, <1>5, <3>1, <3>2, CacheWritten
  <2>2. CASE Len(list) > PollfdCacheSize
    BY <1>1, <1>4, <1>5, <2>2 DEF CacheDel, PollTyped
  <2> QED BY <1>4, <1>5, <2>1, <2>2
<1>7. PollTyped'
  BY <1>1, <1>3, <1>4, <1>5, <1>6 DEF PollTyped
<1>8. PollCacheCurrent'
  BY <1>1, <1>4, <1>5, <1>6 DEF PollCacheCurrent
<1> QED BY <1>2, <1>7, <1>8 DEF PollInv

\* Watchers do not concern the cache.
LEMMA WatchersPoll ==
    ASSUME PollInv, NEW t \in ConnThreads, AddConnectionWatch(t) \/ RemoveConnectionWatch(t)
    PROVE  PollInv'
<1>1. /\ UNCHANGED <<im_fd_info, pollfds, overrun, most, proc_conni, conn_local, overtaken>>
      /\ Call(t, "watch") \/ Call(t, "unwatch")
  BY DEF AddConnectionWatch, RemoveConnectionWatch, listVars
<1>2. PollTyped'
  BY <1>1, CallTyped DEF PollInv, PollTyped
<1>3. PollCacheCurrent'
  BY <1>1 DEF PollInv, PollCacheCurrent
<1> QED BY <1>1, <1>2, <1>3, FlagLeft DEF PollInv

LEMMA Moved ==
    ASSUME DOMAIN conn_local = ConnThreads, NEW t \in ConnThreads, NEW r,
           conn_local' = [conn_local EXCEPT ![t] = r]
    PROVE  /\ DOMAIN conn_local' = ConnThreads /\ conn_local'[t] = r
           /\ \A u \in ConnThreads : u # t => conn_local'[u] = conn_local[u]
OBVIOUS

LEMMA ProcessEffect ==
    ASSUME DOMAIN conn_local = ConnThreads, NEW t \in ConnThreads, NEW c, NEW at, NEW rest, NEW left,
           Process(t, c, at, rest, left)
    PROVE  /\ DOMAIN conn_local' = ConnThreads /\ conn_local'[t].at = at
           /\ \A u \in ConnThreads : u # t => conn_local'[u] = conn_local[u]
           /\ proc_conni' = TRUE
<1> DEFINE r == [at |-> at, fd |-> c, rest |-> rest, readable |-> left]
<1>1. conn_local' = [conn_local EXCEPT ![t] = r] /\ proc_conni' = TRUE
  BY DEF Process
<1>2. r.at = at
  OBVIOUS
<1> HIDE DEF r
<1> QED BY <1>1, <1>2, Moved

\* The loop ends, or runs a callback with the flag set.
LEMMA LoopEffect ==
    ASSUME DOMAIN conn_local = ConnThreads, NEW t \in ConnThreads, NEW list, NEW readable,
           Loop(t, list, readable)
    PROVE  /\ DOMAIN conn_local' = ConnThreads
           /\ \A u \in ConnThreads : u # t => conn_local'[u] = conn_local[u]
           /\ \/ conn_local'[t].at = "Idle" /\ proc_conni' = FALSE
              \/ conn_local'[t].at = "Loop" /\ proc_conni' = TRUE
<1>1. CASE /\ conn_local' = [conn_local EXCEPT ![t] = [at |-> "Idle"]]
           /\ proc_conni' = FlagCleared
  BY <1>1, Moved DEF FlagCleared
<1>2. CASE \E c, rest, left : Process(t, c, "Loop", rest, left)
  <2>1. PICK c, rest, left : Process(t, c, "Loop", rest, left)
    BY <1>2
  <2> QED BY <2>1, ProcessEffect
<1> QED BY <1>1, <1>2 DEF Loop

\* What is left to show of a step that polls or returns from a callback.
LEMMA PollingKept ==
    ASSUME Sizes, PollInv, UNCHANGED listVars,
           conn_script' \in [ConnThreads -> Seq(ConnCalls)],
           DOMAIN conn_local' = ConnThreads,
           \A t \in ConnThreads : conn_local'[t].at \in {"Idle", "Callback", "Loop"},
           proc_conni' \in BOOLEAN, overtaken' \in BOOLEAN, PollerAlone', PollingGoesOn'
    PROVE  PollInv'
<1>1. PollTyped'
  BY DEF PollInv, PollTyped, listVars
<1> QED BY <1>1, CacheLeft DEF PollInv

LEMMA ProcessPolls ==
    ASSUME Sizes, PollInv, NEW t \in ConnThreads, ProcessInternalConnection(t)
    PROVE  PollInv'
<1>1. Call(t, "process") /\ Idle(t) /\ UNCHANGED <<listVars, overtaken>>
  BY DEF ProcessInternalConnection
<1>2. PollTyped /\ PollerAlone /\ PollingGoesOn /\ DOMAIN conn_local = ConnThreads
  BY DEF PollInv, PollTyped
<1>3. conn_script' \in [ConnThreads -> Seq(ConnCalls)]
  BY <1>1, <1>2, CallTyped DEF PollTyped
<1>4. CASE UNCHANGED <<proc_conni, conn_local>>
  BY <1>1, <1>2, <1>3, <1>4, FlagLeft, PollingKept DEF PollTyped
<1>5. CASE Process(t, Arg(t), "Callback", <<>>, {})
  <2>1. /\ DOMAIN conn_local' = ConnThreads /\ conn_local'[t].at = "Callback"
        /\ \A u \in ConnThreads : u # t => conn_local'[u] = conn_local[u]
        /\ proc_conni' = TRUE
    BY <1>2, <1>5, ProcessEffect
  <2>2. PollerAlone' /\ PollingGoesOn'
    BY <1>1, <1>2, <2>1 DEF PollerAlone, PollingGoesOn
  <2>3. /\ \A u \in ConnThreads : conn_local'[u].at \in {"Idle", "Callback", "Loop"}
        /\ overtaken' \in BOOLEAN
    BY <1>1, <1>2, <2>1 DEF PollTyped
  <2> QED BY <1>1, <1>3, <2>1, <2>2, <2>3, PollingKept
<1> QED BY <1>4, <1>5 DEF ProcessInternalConnection

LEMMA CheckPolls ==
    ASSUME Sizes, PollInv, NEW t \in ConnThreads, CheckInternalConnections(t)
    PROVE  PollInv'
<1>1. Call(t, "check") /\ Idle(t) /\ UNCHANGED <<listVars, overtaken>>
  BY DEF CheckInternalConnections
<1>2. PollTyped /\ PollerAlone /\ PollingGoesOn /\ DOMAIN conn_local = ConnThreads
  BY DEF PollInv, PollTyped
<1>3. conn_script' \in [ConnThreads -> Seq(ConnCalls)]
  BY <1>1, <1>2, CallTyped DEF PollTyped
<1>4. CASE UNCHANGED <<conn_local, proc_conni>>
  BY <1>1, <1>2, <1>3, <1>4, FlagLeft, PollingKept DEF PollTyped
<1>5. CASE Polled /\ \E readable \in SUBSET ToSet(im_fd_info) : Loop(t, im_fd_info, readable)
  <2>1. PICK readable : Loop(t, im_fd_info, readable)
    BY <1>5
  <2>2. /\ DOMAIN conn_local' = ConnThreads
        /\ \A u \in ConnThreads : u # t => conn_local'[u] = conn_local[u]
        /\ \/ conn_local'[t].at = "Idle" /\ proc_conni' = FALSE
           \/ conn_local'[t].at = "Loop" /\ proc_conni' = TRUE
    BY <1>2, <2>1, LoopEffect
  <2>3. ~proc_conni
    BY <1>5 DEF Polled
  <2>4. PollerAlone' /\ PollingGoesOn'
    BY <1>1, <1>2, <2>2, <2>3 DEF PollerAlone, PollingGoesOn
  <2>5. /\ \A u \in ConnThreads : conn_local'[u].at \in {"Idle", "Callback", "Loop"}
        /\ overtaken' \in BOOLEAN /\ proc_conni' \in BOOLEAN
    BY <1>1, <1>2, <2>2 DEF PollTyped
  <2> QED BY <1>1, <1>3, <2>2, <2>4, <2>5, PollingKept
<1> QED BY <1>4, <1>5 DEF CheckInternalConnections

\* A callback that returns leaves the flag cleared, or set by its own loop for the
\* next callback.
LEMMA ReturnPolls ==
    ASSUME Sizes, PollInv, NEW t \in ConnThreads, AfterCallback(t) \/ AfterCallbackInLoop(t)
    PROVE  PollInv'
<1>1. UNCHANGED <<listVars, conn_script>> /\ Returned(t)
  BY DEF AfterCallback, AfterCallbackInLoop
<1>2. PollTyped /\ PollerAlone /\ PollingGoesOn /\ DOMAIN conn_local = ConnThreads
  BY DEF PollInv, PollTyped
<1>3. /\ DOMAIN conn_local' = ConnThreads
      /\ \A u \in ConnThreads : u # t => conn_local'[u] = conn_local[u]
      /\ \/ conn_local'[t].at = "Idle" /\ proc_conni' = FALSE
         \/ conn_local'[t].at = "Loop" /\ proc_conni' = TRUE
  <2>1. CASE AfterCallback(t)
    BY <1>2, <2>1, Moved DEF AfterCallback, FlagCleared
  <2>2. CASE AfterCallbackInLoop(t)
    <3>1. PICK list, readable : Loop(t, list, readable)
      BY <2>2 DEF AfterCallbackInLoop
    <3> QED BY <1>2, <3>1, LoopEffect
  <2> QED BY <2>1, <2>2
<1>4. /\ overtaken' \in BOOLEAN
      /\ ~overtaken' => ~overtaken /\ \A u \in ConnThreads : u # t => conn_local[u].at # "Loop"
  BY <1>1, <1>2 DEF Returned, PollTyped
<1>5. PollerAlone' /\ PollingGoesOn'
  BY <1>2, <1>3, <1>4 DEF PollerAlone, PollingGoesOn
<1>6. /\ \A u \in ConnThreads : conn_local'[u].at \in {"Idle", "Callback", "Loop"}
      /\ proc_conni' \in BOOLEAN /\ conn_script' \in [ConnThreads -> Seq(ConnCalls)]
  BY <1>1, <1>2, <1>3 DEF PollTyped
<1> QED BY <1>1, <1>3, <1>4, <1>5, <1>6, PollingKept

LEMMA InitPollInv == Sizes /\ CallsTyped /\ ConnInit => PollInv
<1> SUFFICES ASSUME Sizes, CallsTyped, ConnInit PROVE PollInv
  OBVIOUS
<1>1. PollTyped
  <2>1. conn_script \in [ConnThreads -> Seq(ConnCalls)]
    BY DEF ConnInit, CallsTyped
  <2>2. DOMAIN conn_local = ConnThreads /\ \A t \in ConnThreads : conn_local[t].at = "Idle"
    BY DEF ConnInit
  <2>3. im_fd_info = <<>> /\ im_fd_info \in Seq(Connections) /\ Len(im_fd_info) = 0
    BY DEF ConnInit
  <2>4. /\ pollfds \in [CacheEntries -> Connections \cup {None}] /\ most = 0
        /\ overrun \in BOOLEAN /\ overtaken \in BOOLEAN /\ proc_conni \in BOOLEAN
    BY DEF ConnInit
  <2> QED BY <2>1, <2>2, <2>3, <2>4 DEF PollTyped
<1>2. PollerAlone /\ PollingGoesOn
  BY DEF ConnInit, PollerAlone, PollingGoesOn
<1>3. PollCacheCurrent
  BY DEF ConnInit, PollCacheCurrent
<1> QED BY <1>1, <1>2, <1>3 DEF PollInv

LEMMA StepPollInv == Sizes /\ PollInv /\ [ConnNext]_connVars => PollInv'
<1> SUFFICES ASSUME Sizes, PollInv, [ConnNext]_connVars PROVE PollInv'
  OBVIOUS
<1>1. ASSUME NEW t \in ConnThreads, RegisterInternalConnection(t) PROVE PollInv'
  BY <1>1, RegisterPolls
<1>2. ASSUME NEW t \in ConnThreads, UnregisterInternalConnection(t) PROVE PollInv'
  BY <1>2, UnregisterPolls
<1>3. ASSUME NEW t \in ConnThreads, AddConnectionWatch(t) \/ RemoveConnectionWatch(t) PROVE PollInv'
  BY <1>3, WatchersPoll
<1>4. ASSUME NEW t \in ConnThreads, ProcessInternalConnection(t) PROVE PollInv'
  BY <1>4, ProcessPolls
<1>5. ASSUME NEW t \in ConnThreads, CheckInternalConnections(t) PROVE PollInv'
  BY <1>5, CheckPolls
<1>6. ASSUME NEW t \in ConnThreads, AfterCallback(t) \/ AfterCallbackInLoop(t) PROVE PollInv'
  BY <1>6, ReturnPolls
<1>7. CASE UNCHANGED connVars
  <2>1. UNCHANGED <<listVars, conn_script, proc_conni, conn_local, overtaken>>
    BY <1>7 DEF connVars
  <2>2. PollTyped'
    BY <2>1 DEF PollInv, PollTyped, listVars
  <2> QED BY <2>1, <2>2, FlagLeft, CacheLeft DEF PollInv
<1> QED BY <1>1, <1>2, <1>3, <1>4, <1>5, <1>6, <1>7 DEF ConnNext

\* One thread is in the loop of check_internal_connections at a time until the
\* return of another callback clears the flag under it; the flag is never left
\* behind; and the cache agrees with every list that fits in it, also after a
\* longer one, with nothing written behind it before there have been as many
\* connections at a time as it has entries.  For any threads and calls, also
\* those that register a descriptor twice.
THEOREM PollingStaysTrue == ASSUME Sizes, CallsTyped PROVE ConnSpec => []PollingTrue
<1>1. PollInv => OnePoller
  <2> SUFFICES ASSUME PollInv, ~overtaken
               PROVE  Cardinality({t \in ConnThreads : conn_local[t].at = "Loop"}) <= 1
    BY DEF OnePoller
  <2> DEFINE Pollers == {t \in ConnThreads : conn_local[t].at = "Loop"}
  <2>1. \A t, u \in Pollers : t = u
    BY DEF PollInv, PollerAlone
  <2>2. CASE Pollers = {}
    BY <2>2, FS_EmptySet
  <2>3. CASE Pollers # {}
    <3>1. PICK t : t \in Pollers
      BY <2>3
    <3>2. Pollers = {t}
      BY <2>1, <3>1
    <3> HIDE DEF Pollers
    <3>3. Cardinality(Pollers) = 1
      BY <3>2, FS_Singleton
    <3> QED BY <3>3 DEF Pollers
  <2> QED BY <2>2, <2>3
<1>2. PollInv => PollingTrue
  BY <1>1 DEF PollInv, PollingTrue
<1>3. ConnInit => PollInv
  BY InitPollInv
<1>4. PollInv /\ [ConnNext]_connVars => PollInv'
  BY StepPollInv
<1> QED BY <1>2, <1>3, <1>4, PTL DEF ConnSpec
=============================================================================
