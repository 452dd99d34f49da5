-------------------------- MODULE DisplayLifeProofs --------------------------
(***************************************************************************)
(* Proofs about Cookies and DisplayLife, for any application threads,      *)
(* kinds of events and screens, through the whole life of a Display.  The  *)
(* data of a generic event have one owner at any time, nothing is freed    *)
(* twice, and what a thread claims was made for its event; and when the    *)
(* Display is closed, or could not be opened, all of its storage is freed, *)
(* but for four exceptions.                                                *)
(*                                                                         *)
(* The calls are put together from a few changes of the lists, and each    *)
(* of these keeps an invariant of the lists.                               *)
(***************************************************************************)
EXTENDS DisplayLife, TLAPS, FiniteSetTheorems, WellFoundedInduction

(***************************************************************************)
(* Lists with an element more.                                             *)
(***************************************************************************)
\* r is s with x at the place k; K tells where the others were.
AddedAt(r, s, x, k, K) ==
    /\ k \in DOMAIN r /\ K \in [DOMAIN r \ {k} -> DOMAIN s]
    /\ r[k] = x
    /\ \A i \in DOMAIN r \ {k} : r[i] = s[K[i]]
    /\ \A i, j \in DOMAIN r \ {k} : K[i] = K[j] => i = j
    /\ \A m \in DOMAIN s : \E i \in DOMAIN r \ {k} : K[i] = m

Added(r, s, x) == \E k, K : AddedAt(r, s, x, k, K)

\* At the end: _XStoreEventCookie, _XEnq.
LEMMA AppendAdds ==
    ASSUME NEW S, NEW s \in Seq(S), NEW x \in S
    PROVE  Append(s, x) \in Seq(S) /\ Added(Append(s, x), s, x)
<1> DEFINE r == Append(s, x)
           k == Len(s) + 1
           K == [i \in DOMAIN r \ {k} |-> i]
<1>1. /\ r \in Seq(S) /\ Len(s) \in Nat /\ DOMAIN r = 1..(Len(s) + 1) /\ DOMAIN s = 1..Len(s)
      /\ r[k] = x /\ \A i \in 1..Len(s) : r[i] = s[i]
  OBVIOUS
<1> HIDE DEF r
<1>2. DOMAIN r \ {k} = 1..Len(s)
  BY <1>1
<1>3. AddedAt(r, s, x, k, K)
  BY <1>1, <1>2 DEF AddedAt
<1> QED BY <1>1, <1>3 DEF Added, r

\* In front: XPutBackEvent.
LEMMA ConsAdds ==
    ASSUME NEW S, NEW s \in Seq(S), NEW x \in S
    PROVE  <<x>> \o s \in Seq(S) /\ Added(<<x>> \o s, s, x)
<1> DEFINE r == <<x>> \o s
           K == [i \in DOMAIN r \ {1} |-> i - 1]
<1>1. /\ r \in Seq(S) /\ Len(s) \in Nat /\ DOMAIN r = 1..(Len(s) + 1) /\ DOMAIN s = 1..Len(s)
      /\ r[1] = x /\ \A i \in 1..Len(s) : r[i + 1] = s[i]
  OBVIOUS
<1> HIDE DEF r
<1>2. DOMAIN r \ {1} = 2..(Len(s) + 1)
  BY <1>1
<1>3. \A i \in 2..(Len(s) + 1) : i - 1 \in 1..Len(s) /\ (i - 1) + 1 = i
  BY <1>1
<1>4. \A i \in 2..(Len(s) + 1) : r[i] = s[i - 1]
  BY <1>1, <1>3
<1>5. \A m \in 1..Len(s) : m + 1 \in 2..(Len(s) + 1) /\ (m + 1) - 1 = m
  BY <1>1
<1>6. K \in [DOMAIN r \ {1} -> DOMAIN s] /\ \A i \in DOMAIN r \ {1} : K[i] = i - 1
  BY <1>1, <1>2, <1>3
<1> HIDE DEF K
<1>7. \A i, j \in DOMAIN r \ {1} : K[i] = K[j] => i = j
  <2>1. \A i, j \in 2..(Len(s) + 1) : i - 1 = j - 1 => i = j
    BY <1>1
  <2> QED BY <1>2, <1>6, <2>1
<1>8. \A m \in DOMAIN s : \E i \in DOMAIN r \ {1} : K[i] = m
  BY <1>1, <1>2, <1>5, <1>6
<1>9. \A i \in DOMAIN r \ {1} : r[i] = s[K[i]]
  BY <1>2, <1>4, <1>6
<1>10. 1 \in DOMAIN r
  BY <1>1
<1>11. AddedAt(r, s, x, 1, K)
  BY <1>1, <1>6, <1>7, <1>8, <1>9, <1>10 DEF AddedAt
<1> QED BY <1>1, <1>11 DEF Added, r

\* The list from which an element is taken had it more.
LEMMA RemoveTakes ==
    ASSUME NEW S, NEW s \in Seq(S), NEW k \in DOMAIN s
    PROVE  RemoveAt(s, k) \in Seq(S) /\ Added(s, RemoveAt(s, k), s[k])
<1> DEFINE r == RemoveAt(s, k)
           K == [i \in DOMAIN s \ {k} |-> IF i < k THEN i ELSE i - 1]
<1>0. Len(s) \in Nat /\ DOMAIN s = 1..Len(s) /\ k \in 1..Len(s) /\ k \in Nat
  OBVIOUS
<1>1. /\ r \in Seq(S) /\ DOMAIN r = 1..(Len(s) - 1)
      /\ \A j \in 1..(Len(s) - 1) : r[j] = IF j < k THEN s[j] ELSE s[j + 1]
  <2> DEFINE a == SubSeq(s, 1, k - 1)
             b == SubSeq(s, k + 1, Len(s))
  <2>1. a \in Seq(S) /\ Len(a) = k - 1 /\ \A j \in 1..(k - 1) : a[j] = s[j]
    BY <1>0
  <2>2. b \in Seq(S) /\ Len(b) = Len(s) - k /\ \A j \in 1..(Len(s) - k) : b[j] = s[k + j]
    BY <1>0
  <2>3. r = a \o b
    BY DEF RemoveAt
  <2> HIDE DEF a, b, r
  <2>4. /\ a \o b \in Seq(S) /\ Len(a \o b) = Len(a) + Len(b)
        /\ \A j \in 1..(Len(a) + Len(b)) :
              (a \o b)[j] = IF j <= Len(a) THEN a[j] ELSE b[j - Len(a)]
    <3>1. a \in Seq(S) /\ b \in Seq(S)
      BY <2>1, <2>2
    <3> QED BY <3>1
  <2>5. Len(r) = Len(s) - 1 /\ r \in Seq(S)
    BY <2>1, <2>2, <2>3, <2>4, <1>0
  <2>6. ASSUME NEW j \in 1..(Len(s) - 1) PROVE r[j] = IF j < k THEN s[j] ELSE s[j + 1]
    <3>0. j \in 1..(Len(a) + Len(b))
      BY <2>1, <2>2, <1>0
    <3>1. CASE j < k
      <4>1. j <= Len(a) /\ j \in 1..(k - 1)
        BY <3>1, <2>1, <1>0
      <4>2. r[j] = a[j]
        BY <4>1, <3>0, <2>3, <2>4
      <4> QED BY <4>1, <4>2, <3>1, <2>1
    <3>2. CASE j >= k
      <4>1. ~(j <= Len(a)) /\ j - Len(a) \in 1..(Len(s) - k) /\ k + (j - Len(a)) = j + 1
        BY <3>2, <2>1, <1>0
      <4>2. r[j] = b[j - Len(a)]
        BY <4>1, <3>0, <2>3, <2>4
      <4>3. b[j - Len(a)] = s[k + (j - Len(a))]
        BY <4>1, <2>2
      <4>4. r[j] = s[j + 1] /\ ~(j < k)
        BY <4>1, <4>2, <4>3, <3>2, <1>0
      <4> QED BY <4>4
    <3> QED BY <3>1, <3>2, <1>0
  <2> QED BY <2>5, <2>6, <1>0
<1> HIDE DEF r
<1>2. ASSUME NEW i \in DOMAIN s \ {k}
      PROVE  K[i] \in 1..(Len(s) - 1) /\ s[i] = r[K[i]]
  <2>1. CASE i < k
    BY <2>1, <1>0, <1>1
  <2>2. CASE i > k
    <3>1. i - 1 \in 1..(Len(s) - 1) /\ ~(i - 1 < k) /\ (i - 1) + 1 = i /\ K[i] = i - 1
      BY <2>2, <1>0
    <3> QED BY <3>1, <1>1
  <2> QED BY <2>1, <2>2, <1>0
<1>3. K \in [DOMAIN s \ {k} -> DOMAIN r]
  <2>1. \A i \in DOMAIN s \ {k} : K[i] \in DOMAIN r
    BY <1>1, <1>2
  <2> QED BY <2>1
<1>4. \A i, j \in DOMAIN s \ {k} : K[i] = K[j] => i = j
  BY <1>0
<1>5. ASSUME NEW m \in DOMAIN r PROVE \E i \in DOMAIN s \ {k} : K[i] = m
  <2>1. CASE m < k
    BY <2>1, <1>0, <1>1
  <2>2. CASE m >= k
    <3>1. m + 1 \in DOMAIN s \ {k} /\ ~(m + 1 < k) /\ (m + 1) - 1 = m
      BY <2>2, <1>0, <1>1
    <3> QED BY <3>1
  <2> QED BY <2>1, <2>2, <1>0, <1>1
<1> HIDE DEF K
<1>6. AddedAt(s, r, s[k], k, K)
  BY <1>0, <1>2, <1>3, <1>4, <1>5 DEF AddedAt
<1> QED BY <1>1, <1>6 DEF Added, r

\* The members of the longer list.
LEMMA AddedMembers ==
    ASSUME NEW r, NEW s, NEW x, Added(r, s, x)
    PROVE  ToSet(r) = ToSet(s) \cup {x}
<1>1. PICK k, K : AddedAt(r, s, x, k, K)
  BY DEF Added
<1>2. ASSUME NEW y \in ToSet(r) PROVE y \in ToSet(s) \cup {x}
  BY <1>1, <1>2 DEF AddedAt, ToSet
<1>3. ASSUME NEW y \in ToSet(s) \cup {x} PROVE y \in ToSet(r)
  BY <1>1, <1>3 DEF AddedAt, ToSet
<1> QED BY <1>2, <1>3

(***************************************************************************)
(* The numbers of events.  Two elements are apart if neither has data that *)
(* the number of the other would find.                                     *)
(***************************************************************************)
Made(n) == {Block(e, m) : e \in Generic, m \in 1..n}
Kinds == Generic \cup Plain \cup {"none", "zero"}
Records(n) ==
    {e \in [event : Kinds, cookie : 0..n, data : Made(n) \cup {NULL}] :
        /\ e.event \notin Generic => e.cookie = 0
        /\ e.data # NULL =>
              e.event \in Generic /\ e.cookie # 0 /\ e.data = Block(e.event, e.cookie)}

Apart(e, f) == e.data # NULL \/ f.data # NULL => e.cookie # f.cookie
EachApart(s) == \A i, j \in DOMAIN s : i # j => Apart(s[i], s[j])

\* In a longer list the elements are apart if they are in the shorter one and
\* the other is apart from them.
LEMMA AddedApart ==
    ASSUME NEW r, NEW s, NEW x, Added(r, s, x)
    PROVE  EachApart(r) <=> EachApart(s) /\ \A e \in ToSet(s) : Apart(x, e)
<1>1. PICK k, K : AddedAt(r, s, x, k, K)
  BY DEF Added
<1>2. ASSUME EachApart(r) PROVE EachApart(s) /\ \A e \in ToSet(s) : Apart(x, e)
  <2>1. ASSUME NEW i \in DOMAIN s, NEW j \in DOMAIN s, i # j PROVE Apart(s[i], s[j])
    <3>1. PICK a \in DOMAIN r \ {k} : K[a] = i
      BY <1>1 DEF AddedAt
    <3>2. PICK b \in DOMAIN r \ {k} : K[b] = j
      BY <1>1 DEF AddedAt
    <3>3. r[a] = s[i] /\ r[b] = s[j] /\ a # b
      BY <1>1, <2>1, <3>1, <3>2 DEF AddedAt
    <3> QED BY <1>2, <3>3 DEF EachApart
  <2>2. ASSUME NEW i \in DOMAIN s PROVE Apart(x, s[i])
    <3>1. PICK a \in DOMAIN r \ {k} : K[a] = i
      BY <1>1 DEF AddedAt
    <3>2. r[a] = s[i] /\ a # k /\ k \in DOMAIN r /\ r[k] = x
      BY <1>1, <3>1 DEF AddedAt
    <3> QED BY <1>2, <3>2 DEF EachApart
  <2> QED BY <2>1, <2>2 DEF EachApart, ToSet
<1>3. ASSUME EachApart(s), \A e \in ToSet(s) : Apart(x, e) PROVE EachApart(r)
  <2>1. ASSUME NEW i \in DOMAIN r, i # k
        PROVE  K[i] \in DOMAIN s /\ r[i] = s[K[i]] /\ Apart(x, r[i]) /\ Apart(r[i], x)
    <3>1. K[i] \in DOMAIN s /\ r[i] = s[K[i]]
      BY <1>1, <2>1 DEF AddedAt
    <3>2. Apart(x, r[i])
      BY <1>3, <3>1 DEF ToSet
    <3> QED BY <3>1, <3>2 DEF Apart
  <2>2. ASSUME NEW i \in DOMAIN r, NEW j \in DOMAIN r, i # j PROVE Apart(r[i], r[j])
    <3>1. r[k] = x
      BY <1>1 DEF AddedAt
    <3>2. CASE i = k
      BY <2>1, <2>2, <3>1, <3>2
    <3>3. CASE j = k
      BY <2>1, <2>2, <3>1, <3>3
    <3>4. CASE i # k /\ j # k
      <4>1. K[i] # K[j]
        BY <1>1, <2>2, <3>4 DEF AddedAt
      <4> QED BY <1>3, <2>1, <3>4, <4>1 DEF EachApart
    <3> QED BY <3>2, <3>3, <3>4
  <2> QED BY <2>2 DEF EachApart
<1> QED BY <1>2, <1>3

\* The data of a list.
LEMMA PointersOf ==
    ASSUME NEW s
    PROVE  Pointers(s) = {e.data : e \in ToSet(s)} \ {NULL}
BY DEF Pointers, Data, ToSet

LEMMA Blocks ==
    /\ \A e, m : Block(e, m) # NULL
    /\ \A e, m, f, n : Block(e, m) = Block(f, n) => e = f /\ m = n
BY DEF Block, NULL

(***************************************************************************)
(* The invariant of the lists: q is the queue, f the data on the free      *)
(* list, j the jar, n the last number, h what the threads have, l the      *)
(* blocks that are allocated, o those that are lost.                       *)
(***************************************************************************)
Typed(q, f, j, n, h, o) ==
    /\ n \in Nat
    /\ q \in Seq(Records(n)) /\ j \in Seq(Records(n)) /\ h \in [Apps -> Records(n)]
    /\ f \in Seq(Made(n) \cup {NULL}) /\ o \subseteq Made(n)

\* While the data of a number are there, one element of the queue has the
\* number, or one of the jar with the thread that was given it, or the thread
\* that has claimed it.
NumbersApart(q, j, h) ==
    /\ EachApart(q) /\ EachApart(j)
    /\ \A t, u \in Apps : t # u => Apart(h[t], h[u])
    /\ \A e \in ToSet(q), g \in ToSet(j) : Apart(e, g)
    /\ \A e \in ToSet(q), t \in Apps : Apart(e, h[t])
    /\ \A g \in ToSet(j), t \in Apps : h[t].data # NULL => g.cookie # h[t].cookie
    /\ \A g \in ToSet(j), t, u \in Apps :
          g.data # NULL /\ h[t].cookie = g.cookie /\ h[u].cookie = g.cookie => t = u

\* A number is that of one event.
Alike(e, g) == e.cookie = g.cookie => e.cookie = 0 \/ e.event = g.event
Elements(q, j, h) == ToSet(q) \cup ToSet(j) \cup {h[t] : t \in Apps}
NumbersName(q, j, h) == \A e, g \in Elements(q, j, h) : Alike(e, g)

Used(q, j, h) == {e.data : e \in Elements(q, j, h)} \ {NULL}
Unused(f) == ToSet(f) \ {NULL}

Accounted(q, f, j, h, l, o) ==
    /\ l = Used(q, j, h) \cup Unused(f) \cup o
    /\ Used(q, j, h) \cap (Unused(f) \cup o) = {} /\ Unused(f) \cap o = {}
    /\ Once(f)

Sound(q, f, j, n, h, l, o) ==
    /\ Typed(q, f, j, n, h, o)
    /\ NumbersApart(q, j, h)
    /\ NumbersName(q, j, h)
    /\ Accounted(q, f, j, h, l, o)

LEMMA UsedParts ==
    ASSUME NEW q, NEW j, NEW h
    PROVE  Used(q, j, h) = Pointers(q) \cup Pointers(j) \cup ({h[t].data : t \in Apps} \ {NULL})
BY PointersOf DEF Used, Elements

(***************************************************************************)
(* What happens to an element.                                             *)
(***************************************************************************)
LEMMA ApartData ==
    ASSUME NEW n, NEW x \in Records(n), NEW e \in Records(n), Apart(x, e), x.data = e.data
    PROVE  x.data = NULL
BY Blocks DEF Records, Apart

LEMMA RecordsGrow ==
    ASSUME NEW n \in Nat
    PROVE  Records(n) \subseteq Records(n + 1) /\ Made(n) \subseteq Made(n + 1)
<1>1. Made(n) \subseteq Made(n + 1)
  <2>1. 1..n \subseteq 1..(n + 1)
    OBVIOUS
  <2> QED BY <2>1 DEF Made
<1>2. 0..n \subseteq 0..(n + 1)
  OBVIOUS
<1> QED BY <1>1, <1>2 DEF Records

\* There may be more numbers.
LEMMA Grow ==
    ASSUME NEW q, NEW f, NEW j, NEW n, NEW h, NEW l, NEW o, Sound(q, f, j, n, h, l, o)
    PROVE  Sound(q, f, j, n + 1, h, l, o)
<1>0. n \in Nat /\ n + 1 \in Nat
  BY DEF Sound, Typed
<1>1. Typed(q, f, j, n + 1, h, o)
  BY <1>0, RecordsGrow DEF Sound, Typed
<1> QED BY <1>1 DEF Sound

\* An element that is apart from all others and whose data are not elsewhere.
Lone(x, q, f, j, n, h, o) ==
    /\ x \in Records(n)
    /\ \A e \in ToSet(q) \cup ToSet(j) : Apart(x, e)
    /\ \A e \in Elements(q, j, h) : Alike(x, e)
    /\ x.data \notin Unused(f) \cup o

\* It comes into the queue.
LEMMA IntoQueue ==
    ASSUME NEW q, NEW f, NEW j, NEW n, NEW h, NEW l, NEW o, Sound(q, f, j, n, h, l, o),
           NEW x, Lone(x, q, f, j, n, h, o), \A t \in Apps : Apart(x, h[t]),
           NEW r \in Seq(Records(n)), Added(r, q, x)
    PROVE  Sound(r, f, j, n, h, l \cup ({x.data} \ {NULL}), o)
<1>0. ToSet(r) = ToSet(q) \cup {x}
  BY AddedMembers
<1>1. Typed(r, f, j, n, h, o)
  BY DEF Sound, Typed
<1>2. NumbersApart(r, j, h)
  <2>1. EachApart(r)
    BY AddedApart DEF Sound, NumbersApart, Lone
  <2> QED BY <1>0, <2>1 DEF Sound, NumbersApart, Lone
<1>3. Elements(r, j, h) = Elements(q, j, h) \cup {x}
  BY <1>0 DEF Elements
<1>4. NumbersName(r, j, h)
  BY <1>3 DEF Sound, NumbersName, Lone, Alike
<1>5. Used(r, j, h) = Used(q, j, h) \cup ({x.data} \ {NULL})
  BY <1>3 DEF Used
<1>6. Accounted(r, f, j, h, l \cup ({x.data} \ {NULL}), o)
  BY <1>5 DEF Sound, Accounted, Lone
<1> QED BY <1>1, <1>2, <1>4, <1>6 DEF Sound

\* It leaves the queue.
LEMMA OutOfQueue ==
    ASSUME NEW q, NEW f, NEW j, NEW n, NEW h, NEW l, NEW o, Sound(q, f, j, n, h, l, o),
           NEW x, NEW r \in Seq(Records(n)), Added(q, r, x)
    PROVE  /\ Sound(r, f, j, n, h, l \ {x.data}, o)
           /\ Lone(x, r, f, j, n, h, o) /\ \A t \in Apps : Apart(x, h[t])
           /\ x.data # NULL => x.data \in l
<1>0. ToSet(q) = ToSet(r) \cup {x} /\ x \in ToSet(q)
  BY AddedMembers
<1>1. Typed(r, f, j, n, h, o)
  BY DEF Sound, Typed
<1>2. EachApart(r) /\ \A e \in ToSet(r) : Apart(x, e)
  BY AddedApart DEF Sound, NumbersApart
<1>3. NumbersApart(r, j, h)
  BY <1>0, <1>2 DEF Sound, NumbersApart
<1>4. Elements(q, j, h) = Elements(r, j, h) \cup {x}
  BY <1>0 DEF Elements
<1>5. NumbersName(r, j, h)
  BY <1>4 DEF Sound, NumbersName
<1>6. /\ x \in Records(n) /\ ToSet(r) \subseteq Records(n) /\ ToSet(j) \subseteq Records(n)
      /\ \A t \in Apps : h[t] \in Records(n)
  BY <1>0 DEF Sound, Typed, ToSet
<1>7. /\ \A e \in ToSet(r) \cup ToSet(j) : Apart(x, e)
      /\ \A t \in Apps : Apart(x, h[t])
  BY <1>0, <1>2 DEF Sound, NumbersApart
<1>8. \A e \in Elements(r, j, h) : e \in Records(n) /\ Apart(x, e)
  BY <1>6, <1>7 DEF Elements
<1>9. \A e \in Elements(r, j, h) : e.data = x.data => x.data = NULL
  BY <1>6, <1>8, ApartData
<1>10. Used(q, j, h) = Used(r, j, h) \cup ({x.data} \ {NULL}) /\ x.data \notin Used(r, j, h)
  BY <1>4, <1>9 DEF Used
<1>11. NULL \notin Made(n)
  BY Blocks DEF Made
<1>12. x.data \notin Unused(f) \cup o
  BY <1>10, <1>11 DEF Sound, Accounted, Typed, Unused
<1>13. Accounted(r, f, j, h, l \ {x.data}, o)
  BY <1>10, <1>12 DEF Sound, Accounted
<1>14. Lone(x, r, f, j, n, h, o)
  BY <1>4, <1>6, <1>7, <1>12, <1>0 DEF Lone, Sound, NumbersName
<1>15. x.data # NULL => x.data \in l
  BY <1>10 DEF Sound, Accounted
<1> QED BY <1>1, <1>3, <1>5, <1>13, <1>7, <1>14, <1>15 DEF Sound

\* It comes into the jar.
LEMMA IntoJar ==
    ASSUME NEW q, NEW f, NEW j, NEW n, NEW h, NEW l, NEW o, Sound(q, f, j, n, h, l, o),
           NEW x, Lone(x, q, f, j, n, h, o),
           \A t \in Apps : h[t].data # NULL => x.cookie # h[t].cookie,
           \A t, u \in Apps :
              x.data # NULL /\ h[t].cookie = x.cookie /\ h[u].cookie = x.cookie => t = u,
           NEW r \in Seq(Records(n)), Added(r, j, x)
    PROVE  Sound(q, f, r, n, h, l \cup ({x.data} \ {NULL}), o)
<1>0. ToSet(r) = ToSet(j) \cup {x}
  BY AddedMembers
<1>1. Typed(q, f, r, n, h, o)
  BY DEF Sound, Typed
<1>2. NumbersApart(q, r, h)
  <2>1. EachApart(r)
    BY AddedApart DEF Sound, NumbersApart, Lone
  <2>2. \A e \in ToSet(q) : Apart(e, x)
    BY DEF Lone, Apart
  <2> QED BY <1>0, <2>1, <2>2 DEF Sound, NumbersApart
<1>3. Elements(q, r, h) = Elements(q, j, h) \cup {x}
  BY <1>0 DEF Elements
<1>4. NumbersName(q, r, h)
  BY <1>3 DEF Sound, NumbersName, Lone, Alike
<1>5. Used(q, r, h) = Used(q, j, h) \cup ({x.data} \ {NULL})
  BY <1>3 DEF Used
<1>6. Accounted(q, f, r, h, l \cup ({x.data} \ {NULL}), o)
  BY <1>5 DEF Sound, Accounted, Lone
<1> QED BY <1>1, <1>2, <1>4, <1>6 DEF Sound

\* It leaves the jar.
LEMMA OutOfJar ==
    ASSUME NEW q, NEW f, NEW j, NEW n, NEW h, NEW l, NEW o, Sound(q, f, j, n, h, l, o),
           NEW x, NEW r \in Seq(Records(n)), Added(j, r, x)
    PROVE  /\ Sound(q, f, r, n, h, l \ {x.data}, o)
           /\ Lone(x, q, f, r, n, h, o)
           /\ \A t \in Apps : h[t].data # NULL => x.cookie # h[t].cookie
           /\ \A t, u \in Apps :
                 x.data # NULL /\ h[t].cookie = x.cookie /\ h[u].cookie = x.cookie => t = u
           /\ x.data # NULL => x.data \in l
<1>0. ToSet(j) = ToSet(r) \cup {x} /\ x \in ToSet(j)
  BY AddedMembers
<1>1. Typed(q, f, r, n, h, o)
  BY DEF Sound, Typed
<1>2. EachApart(r) /\ \A e \in ToSet(r) : Apart(x, e)
  BY AddedApart DEF Sound, NumbersApart
<1>3. NumbersApart(q, r, h)
  BY <1>0, <1>2 DEF Sound, NumbersApart
<1>4. Elements(q, j, h) = Elements(q, r, h) \cup {x}
  BY <1>0 DEF Elements
<1>5. NumbersName(q, r, h)
  BY <1>4 DEF Sound, NumbersName
<1>6. /\ x \in Records(n) /\ ToSet(r) \subseteq Records(n) /\ ToSet(q) \subseteq Records(n)
      /\ \A t \in Apps : h[t] \in Records(n)
  BY <1>0 DEF Sound, Typed, ToSet
<1>7. \A e \in ToSet(q) \cup ToSet(r) : Apart(x, e)
  BY <1>0, <1>2 DEF Sound, NumbersApart, Apart
<1>8. /\ \A t \in Apps : h[t].data # NULL => x.cookie # h[t].cookie
      /\ \A t, u \in Apps :
            x.data # NULL /\ h[t].cookie = x.cookie /\ h[u].cookie = x.cookie => t = u
  BY <1>0 DEF Sound, NumbersApart
<1>9. ASSUME NEW e \in Elements(q, r, h), e.data = x.data PROVE x.data = NULL
  <2>1. CASE e \in ToSet(q) \cup ToSet(r)
    BY <1>6, <1>7, <1>9, <2>1, ApartData
  <2>2. CASE e \in {h[t] : t \in Apps}
    <3>1. PICK t \in Apps : e = h[t]
      BY <2>2
    <3>2. ASSUME x.data # NULL PROVE FALSE
      <4>1. x.cookie = h[t].cookie
        BY <1>6, <1>9, <3>1, <3>2, Blocks DEF Records
      <4> QED BY <1>8, <1>9, <3>1, <3>2, <4>1
    <3> QED BY <3>2
  <2> QED BY <1>9, <2>1, <2>2 DEF Elements
<1>10. Used(q, j, h) = Used(q, r, h) \cup ({x.data} \ {NULL}) /\ x.data \notin Used(q, r, h)
  BY <1>4, <1>9 DEF Used
<1>11. NULL \notin Made(n)
  BY Blocks DEF Made
<1>12. x.data \notin Unused(f) \cup o
  BY <1>10, <1>11 DEF Sound, Accounted, Typed, Unused
<1>13. Accounted(q, f, r, h, l \ {x.data}, o)
  BY <1>10, <1>12 DEF Sound, Accounted
<1>14. Lone(x, q, f, r, n, h, o)
  BY <1>4, <1>6, <1>7, <1>12, <1>0 DEF Lone, Sound, NumbersName
<1>15. x.data # NULL => x.data \in l
  BY <1>10 DEF Sound, Accounted
<1> QED BY <1>1, <1>3, <1>5, <1>13, <1>8, <1>14, <1>15 DEF Sound

\* A thread gets it that has no data.
LEMMA IntoHand ==
    ASSUME NEW q, NEW f, NEW j, NEW n, NEW h, NEW l, NEW o, Sound(q, f, j, n, h, l, o),
           NEW t \in Apps, h[t].data = NULL,
           NEW x \in Records(n), x.data \notin Unused(f) \cup o,
           \A e \in ToSet(q) : Apart(e, x),
           \A e \in Elements(q, j, h) : Alike(x, e),
           \A u \in Apps \ {t} : Apart(x, h[u]),
           \A g \in ToSet(j) : x.data # NULL => g.cookie # x.cookie,
           \A g \in ToSet(j), u \in Apps \ {t} :
              g.data # NULL /\ g.cookie = x.cookie => h[u].cookie # x.cookie
    PROVE  Sound(q, f, j, n, [h EXCEPT ![t] = x], l \cup ({x.data} \ {NULL}), o)
<1> DEFINE k == [h EXCEPT ![t] = x]
<1>0. k \in [Apps -> Records(n)] /\ k[t] = x /\ \A u \in Apps \ {t} : k[u] = h[u]
  BY DEF Sound, Typed
<1> HIDE DEF k
<1>1. Typed(q, f, j, n, k, o)
  BY <1>0 DEF Sound, Typed
<1>2. NumbersApart(q, j, k)
  <2>1. ASSUME NEW u \in Apps, NEW v \in Apps, u # v PROVE Apart(k[u], k[v])
    <3>1. CASE u = t
      BY <1>0, <2>1, <3>1
    <3>2. CASE v = t
      BY <1>0, <2>1, <3>2 DEF Apart
    <3>3. CASE u # t /\ v # t
      BY <1>0, <2>1, <3>3 DEF Sound, NumbersApart
    <3> QED BY <3>1, <3>2, <3>3
  <2>2. ASSUME NEW u \in Apps
        PROVE  /\ \A e \in ToSet(q) : Apart(e, k[u])
               /\ \A g \in ToSet(j) : k[u].data # NULL => g.cookie # k[u].cookie
    <3>1. CASE u = t
      BY <1>0, <3>1
    <3>2. CASE u # t
      BY <1>0, <3>2 DEF Sound, NumbersApart
    <3> QED BY <3>1, <3>2
  <2>3. ASSUME NEW g \in ToSet(j), NEW u \in Apps, NEW v \in Apps, g.data # NULL,
               k[u].cookie = g.cookie, k[v].cookie = g.cookie
        PROVE  u = v
    <3>1. CASE u = t /\ v # t
      BY <1>0, <2>3, <3>1
    <3>2. CASE v = t /\ u # t
      BY <1>0, <2>3, <3>2
    <3>3. CASE u # t /\ v # t
      BY <1>0, <2>3, <3>3 DEF Sound, NumbersApart
    <3> QED BY <3>1, <3>2, <3>3
  <2> QED BY <2>1, <2>2, <2>3 DEF Sound, NumbersApart
<1>3. Elements(q, j, k) \subseteq Elements(q, j, h) \cup {x}
  BY <1>0 DEF Elements
<1>4. NumbersName(q, j, k)
  BY <1>3 DEF Sound, NumbersName, Alike
<1>5. Used(q, j, k) = Used(q, j, h) \cup ({x.data} \ {NULL})
  <2>1. ASSUME NEW b, b \in Used(q, j, h) \cup ({x.data} \ {NULL})
        PROVE  b \in Used(q, j, k)
    <3>1. CASE b = x.data /\ b # NULL
      BY <1>0, <3>1 DEF Used, Elements
    <3>2. CASE b \in Used(q, j, h)
      <4>1. PICK e \in Elements(q, j, h) : e.data = b /\ b # NULL
        BY <3>2 DEF Used
      <4>2. e \in Elements(q, j, k)
        BY <1>0, <4>1 DEF Elements
      <4> QED BY <4>1, <4>2 DEF Used
    <3> QED BY <2>1, <3>1, <3>2
  <2>2. Used(q, j, k) \subseteq Used(q, j, h) \cup ({x.data} \ {NULL})
    BY <1>3 DEF Used
  <2> QED BY <2>1, <2>2
<1>6. Accounted(q, f, j, k, l \cup ({x.data} \ {NULL}), o)
  BY <1>5 DEF Sound, Accounted
<1> QED BY <1>1, <1>2, <1>4, <1>6 DEF Sound, k

\* A thread gives up its data, if it has any, and may forget the number.
LEMMA OutOfHand ==
    ASSUME NEW q, NEW f, NEW j, NEW n, NEW h, NEW l, NEW o, Sound(q, f, j, n, h, l, o),
           NEW t \in Apps,
           NEW x \in Records(n), x.data = NULL,
           x.cookie = 0 \/ (x.cookie = h[t].cookie /\ x.event = h[t].event)
    PROVE  /\ Sound(q, f, j, n, [h EXCEPT ![t] = x], l \ {h[t].data}, o)
           /\ h[t].data # NULL => h[t].data \in l
<1> DEFINE k == [h EXCEPT ![t] = x]
<1>0. k \in [Apps -> Records(n)] /\ k[t] = x /\ \A u \in Apps \ {t} : k[u] = h[u]
  BY DEF Sound, Typed
<1> HIDE DEF k
<1>1. Typed(q, f, j, n, k, o)
  BY <1>0 DEF Sound, Typed
<1>2. /\ h[t] \in Elements(q, j, h)
      /\ \A e \in Elements(q, j, h) : e \in Records(n)
  BY DEF Elements, Sound, Typed, ToSet
<1>3. \A e \in Elements(q, j, h) : e.data # NULL => e.cookie # 0
  BY <1>2 DEF Records
<1>4. NumbersApart(q, j, k)
  <2>1. ASSUME NEW e \in Elements(q, j, h), Apart(e, h[t]) PROVE Apart(e, x) /\ Apart(x, e)
    BY <1>3, <2>1 DEF Apart
  <2>2. ASSUME NEW u \in Apps, u # t PROVE Apart(k[u], x) /\ Apart(x, k[u])
    BY <1>0, <2>1, <2>2 DEF Sound, NumbersApart, Elements
  <2>3. ASSUME NEW u \in Apps, NEW v \in Apps, u # v PROVE Apart(k[u], k[v])
    <3>1. CASE u = t \/ v = t
      BY <1>0, <2>2, <2>3, <3>1
    <3>2. CASE u # t /\ v # t
      BY <1>0, <2>3, <3>2 DEF Sound, NumbersApart
    <3> QED BY <3>1, <3>2
  <2>4. ASSUME NEW u \in Apps
        PROVE  /\ \A e \in ToSet(q) : Apart(e, k[u])
               /\ \A g \in ToSet(j) : k[u].data # NULL => g.cookie # k[u].cookie
    <3>1. CASE u = t
      <4>1. \A e \in ToSet(q) : Apart(e, h[t]) /\ e \in Elements(q, j, h)
        BY DEF Sound, NumbersApart, Elements
      <4> QED BY <1>0, <2>1, <3>1, <4>1
    <3>2. CASE u # t
      BY <1>0, <3>2 DEF Sound, NumbersApart
    <3> QED BY <3>1, <3>2
  <2>5. ASSUME NEW g \in ToSet(j), NEW u \in Apps, NEW v \in Apps, g.data # NULL,
               k[u].cookie = g.cookie, k[v].cookie = g.cookie
        PROVE  u = v
    <3>1. g.cookie # 0
      BY <1>3, <2>5 DEF Elements
    <3>2. \A w \in Apps : k[w].cookie = g.cookie => h[w].cookie = g.cookie
      BY <1>0, <3>1
    <3> QED BY <2>5, <3>2 DEF Sound, NumbersApart
  <2> QED BY <2>3, <2>4, <2>5 DEF Sound, NumbersApart
<1>5. Elements(q, j, k) \subseteq Elements(q, j, h) \cup {x}
  BY <1>0 DEF Elements
<1>6. NumbersName(q, j, k)
  <2>1. \A e \in Elements(q, j, h) : Alike(x, e) /\ Alike(e, x)
    BY <1>2 DEF Sound, NumbersName, Alike
  <2> QED BY <1>5, <2>1 DEF Sound, NumbersName, Alike
<1>7. ASSUME NEW e \in Elements(q, j, k), e.data = h[t].data PROVE e.data = NULL
  <2>1. CASE e \in ToSet(q)
    <3>1. Apart(e, h[t]) /\ e \in Records(n) /\ h[t] \in Records(n)
      BY <1>2, <2>1 DEF Sound, NumbersApart, Elements
    <3> QED BY <1>7, <3>1, ApartData
  <2>2. CASE e \in ToSet(j)
    <3>1. e \in Records(n) /\ h[t] \in Records(n) /\ (h[t].data # NULL => e.cookie # h[t].cookie)
      BY <1>2, <2>2 DEF Sound, NumbersApart, Elements
    <3> QED BY <1>7, <3>1, Blocks DEF Records
  <2>3. CASE e \in {k[u] : u \in Apps}
    <3>1. PICK u \in Apps : e = k[u]
      BY <2>3
    <3>2. CASE u = t
      BY <1>0, <3>1, <3>2
    <3>3. CASE u # t
      <4>1. Apart(h[u], h[t]) /\ h[u] \in Records(n) /\ h[t] \in Records(n) /\ e = h[u]
        BY <1>0, <1>2, <3>1, <3>3 DEF Sound, NumbersApart, Elements
      <4> QED BY <1>7, <4>1, ApartData
    <3> QED BY <3>2, <3>3
  <2> QED BY <2>1, <2>2, <2>3 DEF Elements
<1>8. Used(q, j, k) = Used(q, j, h) \ {h[t].data}
  <2>1. ASSUME NEW b, b \in Used(q, j, h) \ {h[t].data} PROVE b \in Used(q, j, k)
    <3>1. PICK e \in Elements(q, j, h) : e.data = b /\ b # NULL
      BY <2>1 DEF Used
    <3>2. e \in Elements(q, j, k)
      BY <1>0, <2>1, <3>1 DEF Elements
    <3> QED BY <3>1, <3>2 DEF Used
  <2>2. ASSUME NEW b, b \in Used(q, j, k) PROVE b \in Used(q, j, h) \ {h[t].data}
    <3>1. PICK e \in Elements(q, j, k) : e.data = b /\ b # NULL
      BY <2>2 DEF Used
    <3>2. e \in Elements(q, j, h)
      BY <1>5, <3>1
    <3> QED BY <1>7, <3>1, <3>2 DEF Used
  <2> QED BY <2>1, <2>2
<1>9. h[t].data # NULL => h[t].data \in Used(q, j, h)
  BY <1>2 DEF Used
<1>10. h[t].data \notin Unused(f) \cup o
  <2>1. NULL \notin Made(n)
    BY Blocks DEF Made
  <2> QED BY <1>9, <2>1 DEF Sound, Accounted, Typed, Unused
<1>11. Accounted(q, f, j, k, l \ {h[t].data}, o)
  BY <1>8, <1>10 DEF Sound, Accounted
<1>12. h[t].data # NULL => h[t].data \in l
  BY <1>9 DEF Sound, Accounted
<1> QED BY <1>1, <1>4, <1>6, <1>11, <1>12 DEF Sound, k

(***************************************************************************)
(* What happens to the free list and to the jar as a whole.                *)
(***************************************************************************)
\* An element of the free list is used again.
LEMMA UsedAgain ==
    ASSUME NEW q, NEW f, NEW j, NEW n, NEW h, NEW l, NEW o, Sound(q, f, j, n, h, l, o),
           f # <<>>
    PROVE  Sound(q, Tail(f), j, n, h, l, o \cup ({f[1]} \ {NULL}))
<1> DEFINE r == Tail(f)
<1>0. /\ f \in Seq(Made(n) \cup {NULL})
      /\ r \in Seq(Made(n) \cup {NULL})
      /\ Len(f) \in Nat /\ DOMAIN f = 1..Len(f) /\ 1 \in DOMAIN f
      /\ DOMAIN r = 1..(Len(f) - 1) /\ \A i \in 1..(Len(f) - 1) : r[i] = f[i + 1]
  BY DEF Sound, Typed
<1> HIDE DEF r
<1>1. \A i \in 1..(Len(f) - 1) : i + 1 \in 1..Len(f) /\ i + 1 # 1
  BY <1>0
<1>2. \A m \in 1..Len(f) : m = 1 \/ (m - 1 \in 1..(Len(f) - 1) /\ (m - 1) + 1 = m)
  BY <1>0
<1>3. ToSet(f) = ToSet(r) \cup {f[1]}
  <2>1. ASSUME NEW y \in ToSet(f) PROVE y \in ToSet(r) \cup {f[1]}
    <3>1. PICK m \in 1..Len(f) : y = f[m]
      BY <1>0 DEF ToSet
    <3>2. CASE m = 1
      BY <3>1, <3>2
    <3>3. CASE m # 1
      <4>1. m - 1 \in DOMAIN r /\ y = r[m - 1]
        BY <1>0, <1>2, <3>1, <3>3
      <4> QED BY <4>1 DEF ToSet
    <3> QED BY <3>2, <3>3
  <2>2. ASSUME NEW y \in ToSet(r) PROVE y \in ToSet(f)
    BY <1>0, <1>1 DEF ToSet
  <2>3. f[1] \in ToSet(f)
    BY <1>0 DEF ToSet
  <2> QED BY <2>1, <2>2, <2>3
<1>4. \A a, b \in DOMAIN f : f[a] = f[b] => a = b \/ f[a] = NULL
  BY DEF Sound, Accounted, Once
<1>5. ASSUME NEW a \in DOMAIN r, NEW b \in DOMAIN r, r[a] = r[b] PROVE a = b \/ r[a] = NULL
  <2>1. a + 1 \in DOMAIN f /\ b + 1 \in DOMAIN f /\ r[a] = f[a + 1] /\ r[b] = f[b + 1]
    BY <1>0, <1>1
  <2>2. a + 1 = b + 1 \/ r[a] = NULL
    BY <1>4, <1>5, <2>1
  <2> QED BY <1>0, <2>2
<1>6. f[1] = NULL \/ f[1] \notin ToSet(r)
  <2>1. ASSUME f[1] \in ToSet(r) PROVE f[1] = NULL
    <3>1. PICK a \in DOMAIN r : f[1] = r[a]
      BY <2>1 DEF ToSet
    <3>2. a + 1 \in DOMAIN f /\ a + 1 # 1 /\ f[1] = f[a + 1]
      BY <1>0, <1>1, <3>1
    <3> QED BY <1>0, <1>4, <3>2
  <2> QED BY <2>1
<1>7. /\ Unused(f) = Unused(r) \cup ({f[1]} \ {NULL})
      /\ Unused(r) \cap ({f[1]} \ {NULL}) = {}
  BY <1>3, <1>6 DEF Unused
<1>8. Once(r)
  BY <1>5 DEF Once
<1>9. Accounted(q, r, j, h, l, o \cup ({f[1]} \ {NULL}))
  BY <1>7, <1>8 DEF Sound, Accounted
<1>10. f[1] \in Made(n) \cup {NULL}
  BY <1>0
<1>11. Typed(q, r, j, n, h, o \cup ({f[1]} \ {NULL}))
  BY <1>0, <1>10 DEF Sound, Typed
<1> QED BY <1>9, <1>11 DEF Sound, r

\* One list of data after the other.
LEMMA OnceJoined ==
    ASSUME NEW S, NEW a \in Seq(S), NEW b \in Seq(S), Once(a), Once(b), Unused(a) \cap Unused(b) = {}
    PROVE  /\ a \o b \in Seq(S) /\ Once(a \o b)
           /\ Unused(a \o b) = Unused(a) \cup Unused(b)
<1> DEFINE r == a \o b
<1>0. /\ r \in Seq(S) /\ DOMAIN r = 1..(Len(a) + Len(b)) /\ Len(a) \in Nat /\ Len(b) \in Nat
      /\ DOMAIN a = 1..Len(a) /\ DOMAIN b = 1..Len(b)
      /\ \A i \in 1..(Len(a) + Len(b)) : r[i] = IF i <= Len(a) THEN a[i] ELSE b[i - Len(a)]
  OBVIOUS
<1> HIDE DEF r
<1>1. ASSUME NEW i \in DOMAIN r
      PROVE  \/ i \in DOMAIN a /\ r[i] = a[i]
             \/ i - Len(a) \in DOMAIN b /\ r[i] = b[i - Len(a)]
  BY <1>0
<1>2. ASSUME NEW i \in DOMAIN a PROVE i \in DOMAIN r /\ r[i] = a[i]
  BY <1>0
<1>3. ASSUME NEW i \in DOMAIN b PROVE i + Len(a) \in DOMAIN r /\ r[i + Len(a)] = b[i]
  <2>1. i + Len(a) \in 1..(Len(a) + Len(b)) /\ ~(i + Len(a) <= Len(a)) /\ (i + Len(a)) - Len(a) = i
    BY <1>0
  <2> QED BY <1>0, <2>1
<1>4. ToSet(r) = ToSet(a) \cup ToSet(b)
  <2>1. ToSet(r) \subseteq ToSet(a) \cup ToSet(b)
    BY <1>1 DEF ToSet
  <2>2. ToSet(a) \subseteq ToSet(r)
    BY <1>2 DEF ToSet
  <2>3. ToSet(b) \subseteq ToSet(r)
    BY <1>3 DEF ToSet
  <2> QED BY <2>1, <2>2, <2>3
<1>5. ASSUME NEW i \in DOMAIN r, NEW k \in DOMAIN r, r[i] = r[k], r[i] # NULL PROVE i = k
  <2>1. CASE i \in DOMAIN a /\ k \in DOMAIN a /\ r[i] = a[i] /\ r[k] = a[k]
    BY <1>5, <2>1 DEF Once
  <2>2. CASE i - Len(a) \in DOMAIN b /\ k - Len(a) \in DOMAIN b
             /\ r[i] = b[i - Len(a)] /\ r[k] = b[k - Len(a)]
    <3>1. i - Len(a) = k - Len(a)
      BY <1>5, <2>2 DEF Once
    <3> QED BY <1>0, <3>1
  <2>3. CASE i \in DOMAIN a /\ r[i] = a[i] /\ k - Len(a) \in DOMAIN b /\ r[k] = b[k - Len(a)]
    <3>1. r[i] \in Unused(a) /\ r[k] \in Unused(b)
      BY <1>5, <2>3 DEF Unused, ToSet
    <3> QED BY <1>5, <3>1
  <2>4. CASE k \in DOMAIN a /\ r[k] = a[k] /\ i - Len(a) \in DOMAIN b /\ r[i] = b[i - Len(a)]
    <3>1. r[k] \in Unused(a) /\ r[i] \in Unused(b)
      BY <1>5, <2>4 DEF Unused, ToSet
    <3> QED BY <1>5, <3>1
  <2> QED BY <1>1, <2>1, <2>2, <2>3, <2>4
<1>6. Once(r)
  BY <1>5 DEF Once
<1>7. Unused(r) = Unused(a) \cup Unused(b)
  BY <1>4 DEF Unused
<1> QED BY <1>0, <1>6, <1>7 DEF r

\* The element of an event that leaves the queue: it points to nothing.
LEMMA ToFreeList ==
    ASSUME NEW q, NEW f, NEW j, NEW n, NEW h, NEW l, NEW o, Sound(q, f, j, n, h, l, o)
    PROVE  Sound(q, <<NULL>> \o f, j, n, h, l, o)
<1> DEFINE e == <<NULL>>
           S == Made(n) \cup {NULL}
<1>1. e \in Seq(S) /\ DOMAIN e = {1} /\ e[1] = NULL
  <2>1. NULL \in S
    OBVIOUS
  <2> HIDE DEF S
  <2> QED BY <2>1
<1>2. Once(e) /\ Unused(e) = {}
  BY <1>1 DEF Once, Unused, ToSet
<1>3. f \in Seq(S) /\ Once(f)
  BY DEF Sound, Typed, Accounted
<1> HIDE DEF e
<1>4. Unused(e) \cap Unused(f) = {}
  BY <1>2
<1>5. /\ e \o f \in Seq(S) /\ Once(e \o f)
      /\ Unused(e \o f) = Unused(e) \cup Unused(f)
  <2> HIDE DEF S
  <2>1. \A a, b \in Seq(S) : Once(a) /\ Once(b) /\ Unused(a) \cap Unused(b) = {}
            => /\ a \o b \in Seq(S) /\ Once(a \o b)
               /\ Unused(a \o b) = Unused(a) \cup Unused(b)
    BY OnceJoined
  <2> QED BY <1>1, <1>2, <1>3, <1>4, <2>1
<1>6. Typed(q, e \o f, j, n, h, o)
  BY <1>5 DEF Sound, Typed
<1>7. Accounted(q, e \o f, j, h, l, o)
  BY <1>2, <1>5 DEF Sound, Accounted
<1> QED BY <1>6, <1>7 DEF Sound, e

\* The data of a list whose elements are apart.
LEMMA DataOnce ==
    ASSUME NEW n, NEW q \in Seq(Records(n)), EachApart(q)
    PROVE  /\ Data(q) \in Seq(Made(n) \cup {NULL})
           /\ Once(Data(q)) /\ Unused(Data(q)) = Pointers(q)
<1>1. Data(q) \in Seq(Made(n) \cup {NULL})
  <2>1. \A i \in DOMAIN q : q[i].data \in Made(n) \cup {NULL}
    BY DEF Records
  <2>2. Len(q) \in Nat /\ DOMAIN q = 1..Len(q)
    OBVIOUS
  <2> QED BY <2>1, <2>2 DEF Data
<1>2. ASSUME NEW i \in DOMAIN q, NEW k \in DOMAIN q, i # k, q[i].data = q[k].data
      PROVE  q[i].data = NULL
  <2>1. Apart(q[i], q[k]) /\ q[i] \in Records(n) /\ q[k] \in Records(n)
    BY <1>2 DEF EachApart
  <2> QED BY <1>2, <2>1, ApartData
<1>3. Once(Data(q))
  BY <1>2 DEF Once, Data
<1> QED BY <1>1, <1>3 DEF Unused, Pointers

\* XSync: the data stay, on the free list.
LEMMA AllDiscarded ==
    ASSUME NEW q, NEW f, NEW j, NEW n, NEW h, NEW l, NEW o, Sound(q, f, j, n, h, l, o)
    PROVE  Sound(<<>>, Data(q) \o f, j, n, h, l, o)
<1> DEFINE S == Made(n) \cup {NULL}
<1>0. /\ Data(q) \in Seq(S) /\ Once(Data(q)) /\ Unused(Data(q)) = Pointers(q)
      /\ f \in Seq(S) /\ Once(f)
  BY DataOnce DEF Sound, Typed, NumbersApart, Accounted
<1>1. Used(q, j, h) = Pointers(q) \cup Used(<<>>, j, h)
  <2>1. Pointers(<<>>) = {}
    BY DEF Pointers, Data, ToSet
  <2> QED BY <2>1, UsedParts
<1>2. Pointers(q) \cap Used(<<>>, j, h) = {}
  <2>1. ASSUME NEW b \in Pointers(q), b \in Used(<<>>, j, h) PROVE FALSE
    <3>1. PICK e \in ToSet(q) : e.data = b /\ b # NULL
      BY <2>1, PointersOf
    <3>2. PICK g \in Elements(<<>>, j, h) : g.data = b
      BY <2>1 DEF Used
    <3>3. ToSet(<<>>) = {}
      BY DEF ToSet
    <3>4. Apart(e, g) /\ e \in Records(n) /\ g \in Records(n)
      BY <3>2, <3>3 DEF Elements, Sound, NumbersApart, Typed, ToSet
    <3> QED BY <3>1, <3>2, <3>4, ApartData
  <2> QED BY <2>1
<1>3. /\ Data(q) \o f \in Seq(S) /\ Once(Data(q) \o f)
      /\ Unused(Data(q) \o f) = Pointers(q) \cup Unused(f)
  <2>1. Pointers(q) \cap Unused(f) = {}
    BY <1>1 DEF Sound, Accounted
  <2> QED BY <1>0, <2>1, OnceJoined
<1>4. Typed(<<>>, Data(q) \o f, j, n, h, o)
  <2>1. <<>> \in Seq(Records(n))
    OBVIOUS
  <2> QED BY <1>3, <2>1 DEF Sound, Typed
<1>5. ToSet(<<>>) = {} /\ DOMAIN (<<>>) = {}
  BY DEF ToSet
<1>6. NumbersApart(<<>>, j, h)
  BY <1>5 DEF Sound, NumbersApart, EachApart
<1>7. NumbersName(<<>>, j, h)
  BY <1>5 DEF Sound, NumbersName, Elements
<1>8. Accounted(<<>>, Data(q) \o f, j, h, l, o)
  BY <1>1, <1>2, <1>3 DEF Sound, Accounted
<1> QED BY <1>4, <1>6, <1>7, <1>8 DEF Sound

\* The jar is emptied, and the free list as well or not.
LEMMA AllFreedOf ==
    ASSUME NEW q, NEW f, NEW j, NEW n, NEW h, NEW l, NEW o, Sound(q, f, j, n, h, l, o)
    PROVE  /\ Sound(q, f, <<>>, n, h, l \ Pointers(j), o)
           /\ Sound(q, <<>>, <<>>, n, h, l \ (Unused(f) \cup Pointers(j)), o)
           /\ Pointers(j) \subseteq l /\ Unused(f) \subseteq l
<1>1. Used(q, j, h) = Pointers(j) \cup Used(q, <<>>, h)
  <2>1. Pointers(<<>>) = {}
    BY DEF Pointers, Data, ToSet
  <2> QED BY <2>1, UsedParts
<1>2. Pointers(j) \cap Used(q, <<>>, h) = {}
  <2>1. ASSUME NEW b \in Pointers(j), b \in Used(q, <<>>, h) PROVE FALSE
    <3>1. PICK g \in ToSet(j) : g.data = b /\ b # NULL
      BY <2>1, PointersOf
    <3>2. PICK e \in Elements(q, <<>>, h) : e.data = b
      BY <2>1 DEF Used
    <3>3. ToSet(<<>>) = {}
      BY DEF ToSet
    <3>4. g \in Records(n) /\ e \in Records(n)
      BY <3>2, <3>3 DEF Elements, Sound, Typed, ToSet
    <3>5. CASE e \in ToSet(q)
      BY <3>1, <3>2, <3>4, <3>5, ApartData DEF Sound, NumbersApart
    <3>6. CASE e \in {h[t] : t \in Apps}
      <4>1. g.cookie # e.cookie
        BY <3>1, <3>2, <3>6 DEF Sound, NumbersApart
      <4> QED BY <3>1, <3>2, <3>4, <4>1, Blocks DEF Records
    <3> QED BY <3>2, <3>3, <3>5, <3>6 DEF Elements
  <2> QED BY <2>1
<1>3. /\ ToSet(<<>>) = {} /\ DOMAIN (<<>>) = {} /\ Once(<<>>) /\ Unused(<<>>) = {}
      /\ <<>> \in Seq(Records(n)) /\ <<>> \in Seq(Made(n) \cup {NULL})
  BY DEF ToSet, Once, Unused
<1>4. Typed(q, f, <<>>, n, h, o) /\ Typed(q, <<>>, <<>>, n, h, o)
  BY <1>3 DEF Sound, Typed
<1>5. NumbersApart(q, <<>>, h)
  BY <1>3 DEF Sound, NumbersApart, EachApart
<1>6. NumbersName(q, <<>>, h)
  BY <1>3 DEF Sound, NumbersName, Elements
<1>7. /\ Accounted(q, f, <<>>, h, l \ Pointers(j), o)
      /\ Accounted(q, <<>>, <<>>, h, l \ (Unused(f) \cup Pointers(j)), o)
      /\ Pointers(j) \subseteq l /\ Unused(f) \subseteq l
  BY <1>1, <1>2, <1>3 DEF Sound, Accounted
<1> QED BY <1>4, <1>5, <1>6, <1>7 DEF Sound

(***************************************************************************)
(* Elements that have just been made.                                      *)
(***************************************************************************)
\* One with a new number, with the data made for it or without data.
LEMMA NumberNew ==
    ASSUME NEW q, NEW f, NEW j, NEW n, NEW h, NEW l, NEW o, Sound(q, f, j, n, h, l, o),
           NEW event \in Generic, NEW d \in {NULL, Block(event, n + 1)}
    PROVE  LET x == Event(event, n + 1, d) IN
           /\ Lone(x, q, f, j, n + 1, h, o)
           /\ \A e \in Elements(q, j, h) :
                 e.cookie # n + 1 /\ Apart(x, e) /\ Apart(e, x) /\ Alike(x, e)
<1> DEFINE x == Event(event, n + 1, d)
<1>0. n \in Nat /\ n + 1 \in 0..(n + 1) /\ n + 1 \in 1..(n + 1) /\ n + 1 # 0
  BY DEF Sound, Typed
<1>1. x.event = event /\ x.cookie = n + 1 /\ x.data = d
  BY DEF Event
<1>2. Block(event, n + 1) \in Made(n + 1)
  BY <1>0 DEF Made
<1>3. x \in Records(n + 1)
  <2>1. x \in [event : Kinds, cookie : 0..(n + 1), data : Made(n + 1) \cup {NULL}]
    BY <1>0, <1>2 DEF Event, Kinds
  <2> QED BY <1>0, <1>1, <2>1 DEF Records
<1>4. ASSUME NEW e \in Elements(q, j, h)
      PROVE  e.cookie # n + 1 /\ Apart(x, e) /\ Apart(e, x) /\ Alike(x, e)
  <2>1. e \in Records(n)
    BY DEF Elements, Sound, Typed, ToSet
  <2>2. e.cookie \in 0..n
    BY <2>1 DEF Records
  <2>3. e.cookie # n + 1
    BY <1>0, <2>2
  <2> QED BY <1>1, <2>3 DEF Apart, Alike
<1>5. Block(event, n + 1) \notin Made(n) /\ NULL \notin Made(n)
  <2>1. n + 1 \notin 1..n
    BY <1>0
  <2> QED BY <2>1, Blocks DEF Made
<1>6. x.data \notin Unused(f) \cup o
  BY <1>1, <1>5 DEF Sound, Typed, Unused, ToSet
<1> HIDE DEF x
<1>7. Lone(x, q, f, j, n + 1, h, o)
  BY <1>3, <1>4, <1>6 DEF Lone, Elements
<1> QED BY <1>4, <1>7 DEF x

\* One that has no number.
LEMMA NumberNone ==
    ASSUME NEW q, NEW f, NEW j, NEW n, NEW h, NEW l, NEW o, Sound(q, f, j, n, h, l, o),
           NEW x \in Records(n), x.cookie = 0
    PROVE  /\ x.data = NULL
           /\ Lone(x, q, f, j, n, h, o)
           /\ \A e \in Elements(q, j, h) :
                 /\ Apart(x, e) /\ Apart(e, x) /\ Alike(x, e)
                 /\ e.data # NULL => e.cookie # 0
<1>1. x.data = NULL
  BY DEF Records
<1>2. ASSUME NEW e \in Elements(q, j, h)
      PROVE  /\ Apart(x, e) /\ Apart(e, x) /\ Alike(x, e)
             /\ e.data # NULL => e.cookie # 0
  <2>1. e \in Records(n)
    BY DEF Elements, Sound, Typed, ToSet
  <2>2. e.data # NULL => e.cookie # 0
    BY <2>1 DEF Records
  <2> QED BY <1>1, <2>2 DEF Apart, Alike
<1>3. NULL \notin Made(n)
  BY Blocks DEF Made
<1>4. x.data \notin Unused(f) \cup o
  BY <1>1, <1>3 DEF Sound, Typed, Unused
<1>5. Lone(x, q, f, j, n, h, o)
  BY <1>2, <1>4 DEF Lone, Elements
<1> QED BY <1>1, <1>2, <1>5

\* NoEvent, and an event of type 0, are elements without number.
LEMMA WithoutNumber ==
    ASSUME NEW n \in Nat
    PROVE  /\ NoEvent \in Records(n) /\ NoEvent.cookie = 0 /\ NoEvent.data = NULL
           /\ Zeroed \in Records(n) /\ Zeroed.cookie = 0
           /\ \A event \in Plain :
                 LET x == Event(event, 0, NULL) IN x \in Records(n) /\ x.cookie = 0
<1>1. ASSUME NEW event \in Plain \cup {"none", "zero"}
      PROVE  LET x == Event(event, 0, NULL) IN
             x \in Records(n) /\ x.cookie = 0 /\ x.data = NULL
  BY DEF Event, Records, Kinds
<1> QED BY <1>1 DEF NoEvent, Zeroed

-----------------------------------------------------------------------------
(***************************************************************************)
(* The calls.                                                              *)
(***************************************************************************)
ListsSound == Sound(queue, qfree, cookiejar, next_cookie, hand, live, overwritten)

\* The event that a thread has with a pointer of the queue is a generic one.
Borrows ==
    /\ DOMAIN borrowed = Apps /\ borrowed = [t \in DOMAIN borrowed |-> borrowed[t]]
    /\ \A t \in Apps : borrowed[t].data # NULL => borrowed[t].event \in Generic

EventInv ==
    /\ ListsSound
    /\ ~misused
    /\ DOMAIN waiting = Apps
    /\ \A t \in Apps : waiting[t] # "no" => hand[t].data = NULL
    /\ Borrows

LEMMA BorrowsNot ==
    ASSUME Borrows, NEW t \in Apps, NEW e, HasOwn(t, e)
    PROVE  Borrows' /\ hand' = [hand EXCEPT ![t] = e]
<1>1. NoEvent.data = NULL
  BY DEF NoEvent, Event
<1> QED BY <1>1 DEF Borrows, HasOwn

LEMMA BorrowsQueued ==
    ASSUME Borrows, NEW t \in Apps, NEW n, NEW e \in Records(n), HasQueued(t, e)
    PROVE  Borrows'
<1>1. NoEvent.data = NULL /\ (e.data # NULL => e.event \in Generic)
  BY DEF NoEvent, Event, Records
<1> QED BY <1>1 DEF Borrows, HasQueued

\* The element that a new event takes from the free list.
LEMMA TakesFree ==
    ASSUME NEW q, NEW j, NEW n, NEW h, NEW l, Sound(q, qfree, j, n, h, l, overwritten)
    PROVE  Sound(q, RestFree, j, n, h, l, overwritten \cup ({FirstFree} \ {NULL}))
<1>1. CASE qfree = <<>>
  <2>1. RestFree = qfree /\ overwritten \cup ({FirstFree} \ {NULL}) = overwritten
    BY <1>1 DEF RestFree, FirstFree
  <2> QED BY <2>1
<1>2. CASE qfree # <<>>
  <2>1. RestFree = Tail(qfree) /\ FirstFree = qfree[1]
    BY <1>2 DEF RestFree, FirstFree
  <2> QED BY <1>2, <2>1, UsedAgain
<1> QED BY <1>1, <1>2

LEMMA EnqSound ==
    ASSUME EventInv, _XEnq
    PROVE  EventInv'
<1>0. ListsSound /\ next_cookie \in Nat
  BY DEF EventInv, ListsSound, Sound, Typed
<1>1. PICK event \in Generic \cup Plain :
        /\ next_cookie' = IF event \in Generic THEN next_cookie + 1 ELSE next_cookie
        /\ LET data == IF event \in Generic THEN Block(event, next_cookie') ELSE NULL
               cookie == IF event \in Generic THEN next_cookie' ELSE 0
           IN  /\ queue' = Append(queue, Event(event, cookie, data))
               /\ live' = live \cup ({data} \ {NULL})
        /\ qfree' = RestFree
        /\ Reused
        /\ UNCHANGED <<cookiejar, hand, borrowed, waiting, misused>>
  BY DEF _XEnq
<1>2. Sound(queue', qfree, cookiejar, next_cookie', hand, live', overwritten)
  <2>1. CASE event \in Generic
    <3> DEFINE n == next_cookie + 1
               x == Event(event, n, Block(event, n))
    <3>1. queue' = Append(queue, x) /\ next_cookie' = n /\ live' = live \cup ({x.data} \ {NULL})
      BY <1>1, <2>1 DEF Event
    <3>2. Sound(queue, qfree, cookiejar, n, hand, live, overwritten)
      BY <1>0, Grow DEF ListsSound
    <3>3. /\ Lone(x, queue, qfree, cookiejar, n, hand, overwritten)
          /\ \A e \in Elements(queue, cookiejar, hand) : Apart(x, e)
      BY <1>0, <2>1, NumberNew DEF ListsSound
    <3> HIDE DEF n, x
    <3>4. queue \in Seq(Records(n)) /\ x \in Records(n)
      BY <3>2, <3>3 DEF Sound, Typed, Lone
    <3>5. Append(queue, x) \in Seq(Records(n)) /\ Added(Append(queue, x), queue, x)
      BY <3>4, AppendAdds
    <3>6. \A t \in Apps : Apart(x, hand[t])
      BY <3>3 DEF Elements
    <3>7. Sound(Append(queue, x), qfree, cookiejar, n, hand, live \cup ({x.data} \ {NULL}), overwritten)
      BY <3>2, <3>3, <3>5, <3>6, IntoQueue
    <3> QED BY <3>1, <3>7
  <2>2. CASE event \notin Generic
    <3> DEFINE x == Event(event, 0, NULL)
    <3>1. queue' = Append(queue, x) /\ next_cookie' = next_cookie /\ live' = live
      BY <1>1, <2>2
    <3>2. x \in Records(next_cookie) /\ x.cookie = 0
      BY <1>0, <1>1, <2>2, WithoutNumber
    <3> HIDE DEF x
    <3>3. /\ Lone(x, queue, qfree, cookiejar, next_cookie, hand, overwritten) /\ x.data = NULL
          /\ \A e \in Elements(queue, cookiejar, hand) : Apart(x, e)
      BY <1>0, <3>2, NumberNone DEF ListsSound
    <3>4. queue \in Seq(Records(next_cookie))
      BY <1>0 DEF ListsSound, Sound, Typed
    <3>5. Append(queue, x) \in Seq(Records(next_cookie)) /\ Added(Append(queue, x), queue, x)
      BY <3>2, <3>4, AppendAdds
    <3>6. \A t \in Apps : Apart(x, hand[t])
      BY <3>3 DEF Elements
    <3>7. Sound(Append(queue, x), qfree, cookiejar, next_cookie, hand,
                live \cup ({x.data} \ {NULL}), overwritten)
      BY <1>0, <3>3, <3>5, <3>6, IntoQueue DEF ListsSound
    <3> QED BY <3>1, <3>3, <3>7
  <2> QED BY <2>1, <2>2
<1>3. Sound(queue', qfree', cookiejar', next_cookie', hand', live', overwritten')
  <2>1. Sound(queue', RestFree, cookiejar, next_cookie', hand, live',
              overwritten \cup ({FirstFree} \ {NULL}))
    BY <1>2, TakesFree
  <2> QED BY <1>1, <2>1 DEF Reused
<1> QED BY <1>1, <1>3 DEF EventInv, ListsSound, Borrows

LEMMA IgnoredSound ==
    ASSUME EventInv, Ignored
    PROVE  EventInv'
<1>1. qfree # <<>> /\ FirstFree = qfree[1]
  BY DEF Ignored, FirstFree
<1>2. Sound(queue, <<NULL>> \o Tail(qfree), cookiejar, next_cookie, hand, live,
            overwritten \cup ({FirstFree} \ {NULL}))
  BY <1>1, UsedAgain, ToFreeList DEF EventInv, ListsSound
<1> QED BY <1>2 DEF EventInv, ListsSound, Ignored, Reused, Borrows

LEMMA SyncSound ==
    ASSUME EventInv, XSync
    PROVE  EventInv'
<1>1. Sound(<<>>, Data(queue) \o qfree, cookiejar, next_cookie, hand, live, overwritten)
  BY AllDiscarded DEF EventInv, ListsSound
<1> QED BY <1>1 DEF EventInv, ListsSound, XSync, Discarded, Borrows

\* A thread takes an element of the queue; the jar may have been emptied first.
LEMMA TakeSound ==
    ASSUME NEW jar, NEW l, NEW t \in Apps, NEW i \in DOMAIN queue,
           Sound(queue, qfree, jar, next_cookie, hand, l, overwritten),
           hand[t].data = NULL, Take(t, jar, i)
    PROVE  Sound(queue', qfree', cookiejar', next_cookie', hand', l, overwritten')
<1> DEFINE e == queue[i]
           r == RemoveAt(queue, i)
           n == next_cookie
           k == [hand EXCEPT ![t] = Stored(e)]
<1>0. /\ queue' = r /\ qfree' = <<Dequeued(e)>> \o qfree
      /\ cookiejar' = _XStoreEventCookie(jar, e) /\ hand' = k
      /\ next_cookie' = n /\ overwritten' = overwritten
  BY DEF Take, HasOwn
<1>1. queue \in Seq(Records(n)) /\ jar \in Seq(Records(n)) /\ hand \in [Apps -> Records(n)]
  BY DEF Sound, Typed
<1>2. r \in Seq(Records(n)) /\ Added(queue, r, e)
  BY <1>1, RemoveTakes
<1> HIDE DEF e, r, n, k
<1>3. /\ Sound(r, qfree, jar, n, hand, l \ {e.data}, overwritten)
      /\ Lone(e, r, qfree, jar, n, hand, overwritten)
      /\ \A u \in Apps : Apart(e, hand[u])
      /\ e.data # NULL => e.data \in l
  BY <1>2, OutOfQueue DEF n
<1>4. e \in Records(n)
  BY <1>3 DEF Lone
<1>5. Dequeued(e) = NULL /\ Stored(e).data = NULL /\ Stored(e).cookie = e.cookie
      /\ Stored(e).event = e.event /\ Stored(e) \in Records(n)
  BY <1>4 DEF Records, Dequeued, Stored, Unclaimed, _XIsEventCookie
<1>6. Sound(r, qfree, jar, n, k, l \ {e.data}, overwritten)
  <2> DEFINE x == Stored(e)
  <2>1. x \in Records(n) /\ x.data = NULL /\ x.cookie = e.cookie /\ x.event = e.event
    BY <1>5
  <2> HIDE DEF x
  <2>2. \A g \in ToSet(r) \cup ToSet(jar) : Apart(g, x)
    BY <1>3, <2>1 DEF Lone, Apart
  <2>3. \A g \in Elements(r, jar, hand) : Alike(x, g)
    BY <1>3, <2>1 DEF Lone, Alike
  <2>4. \A u \in Apps \ {t} : Apart(x, hand[u])
    BY <1>3, <2>1 DEF Apart
  <2>5. \A g \in ToSet(jar), u \in Apps \ {t} :
           g.data # NULL /\ g.cookie = x.cookie => hand[u].cookie # x.cookie
    BY <2>2 DEF Apart
  <2>6. x.data \notin Unused(qfree) \cup overwritten
    <3>1. NULL \notin Made(n)
      BY Blocks DEF Made
    <3> QED BY <1>3, <2>1, <3>1 DEF Sound, Typed, Unused
  <2>7. Sound(r, qfree, jar, n, [hand EXCEPT ![t] = x], (l \ {e.data}) \cup ({x.data} \ {NULL}),
              overwritten)
    BY <1>3, <2>1, <2>2, <2>3, <2>4, <2>5, <2>6, IntoHand
  <2> QED BY <2>1, <2>7 DEF k, x
<1>7. Sound(r, qfree, cookiejar', n, k, l, overwritten)
  <2>1. CASE _XIsEventCookie(e)
    <3>1. cookiejar' = Append(jar, e)
      BY <1>0, <2>1 DEF _XStoreEventCookie
    <3>2. Append(jar, e) \in Seq(Records(n)) /\ Added(Append(jar, e), jar, e)
      BY <1>1, <1>4, AppendAdds DEF n
    <3>3. /\ k[t].data = NULL /\ k[t].cookie = e.cookie /\ k[t].event = e.event
          /\ \A u \in Apps \ {t} : k[u] = hand[u]
      BY <1>1, <1>5 DEF k
    <3>4. \A u \in Apps : k[u].data # NULL => e.cookie # k[u].cookie
      BY <1>3, <3>3 DEF Apart
    <3>5. \A u, v \in Apps :
             e.data # NULL /\ k[u].cookie = e.cookie /\ k[v].cookie = e.cookie => u = v
      BY <1>3, <3>3 DEF Apart
    <3>6. \A g \in Elements(r, jar, k) : Alike(e, g)
      <4>1. ASSUME NEW u \in Apps PROVE Alike(e, k[u])
        BY <1>3, <3>3 DEF Lone, Elements, Alike
      <4> QED BY <1>3, <4>1 DEF Lone, Elements
    <3>7. Lone(e, r, qfree, jar, n, k, overwritten)
      BY <1>3, <3>6 DEF Lone
    <3>8. Sound(r, qfree, Append(jar, e), n, k, (l \ {e.data}) \cup ({e.data} \ {NULL}),
                overwritten)
      BY <1>6, <3>2, <3>4, <3>5, <3>7, IntoJar
    <3>9. (l \ {e.data}) \cup ({e.data} \ {NULL}) = l
      <4>1. NULL \notin l \ {e.data} /\ NULL \notin l
        <5>1. NULL \notin Made(n)
          BY Blocks DEF Made
        <5> QED BY <5>1 DEF Sound, Accounted, Used, Unused, Typed, n
      <4> QED BY <1>3, <4>1
    <3> QED BY <3>1, <3>8, <3>9
  <2>2. CASE ~_XIsEventCookie(e)
    <3>1. cookiejar' = jar
      BY <1>0, <2>2 DEF _XStoreEventCookie
    <3>2. e.data = NULL
      BY <1>4, <2>2 DEF Records, _XIsEventCookie
    <3>3. l \ {e.data} = l
      <4>1. NULL \notin Made(n)
        BY Blocks DEF Made
      <4> QED BY <3>2, <4>1 DEF Sound, Accounted, Used, Unused, Typed, n
    <3> QED BY <1>6, <3>1, <3>3
  <2> QED BY <2>1, <2>2
<1>8. Sound(r, <<NULL>> \o qfree, cookiejar', n, k, l, overwritten)
  BY <1>7, ToFreeList
<1> QED BY <1>0, <1>5, <1>8

\* A thread gets a copy, or what is in the queue if that has no data.
LEMMA PeekSound ==
    ASSUME NEW jar, NEW l, NEW t \in Apps, NEW i \in DOMAIN queue,
           Sound(queue, qfree, jar, next_cookie, hand, l, overwritten),
           hand[t].data = NULL, Peek(t, jar, i)
    PROVE  Sound(queue', qfree', cookiejar', next_cookie', hand',
                 l \cup (IF next_cookie' > next_cookie
                         THEN {Block(queue[i].event, next_cookie')} ELSE {}),
                 overwritten')
<1> DEFINE e == queue[i]
           n == next_cookie + 1
           d == Block(e.event, n)
           copy == Event(e.event, n, d)
<1>0. next_cookie \in Nat /\ n > next_cookie /\ ~(next_cookie > next_cookie)
  BY DEF Sound, Typed
<1>1. e \in Records(next_cookie) /\ e \in ToSet(queue)
  BY DEF Sound, Typed, ToSet
<1>2. UNCHANGED <<queue, qfree, overwritten>>
  BY DEF Peek
<1>3. CASE /\ _XIsEventCookie(e) /\ Copies(e)
           /\ next_cookie' = n
           /\ cookiejar' = _XStoreEventCookie(jar, copy)
           /\ HasOwn(t, Stored(copy))
  <2> DEFINE x == Event(e.event, n, NULL)
             k == [hand EXCEPT ![t] = x]
  <2>1. e.event \in Generic
    BY <1>3 DEF _XIsEventCookie
  <2>2. cookiejar' = Append(jar, copy) /\ hand' = k
    <3>1. copy.event = e.event
      BY DEF Event
    <3>2. [copy EXCEPT !.data = NULL] = x
      BY DEF Event
    <3> HIDE DEF copy, x, d, n
    <3>3. Stored(copy) = x /\ _XStoreEventCookie(jar, copy) = Append(jar, copy)
      BY <2>1, <3>1, <3>2 DEF _XStoreEventCookie, Stored, _XIsEventCookie, Unclaimed
    <3> QED BY <1>3, <3>3 DEF HasOwn
  <2>3. Sound(queue, qfree, jar, n, hand, l, overwritten)
    BY Grow
  <2>4. /\ Lone(copy, queue, qfree, jar, n, hand, overwritten)
        /\ \A g \in Elements(queue, jar, hand) :
              g.cookie # n /\ Apart(copy, g) /\ Alike(copy, g)
    BY <2>1, NumberNew
  <2>5. /\ Lone(x, queue, qfree, jar, n, hand, overwritten)
        /\ \A g \in Elements(queue, jar, hand) : Apart(x, g) /\ Apart(g, x) /\ Alike(x, g)
    BY <2>1, NumberNew
  <2>6. /\ copy.data = d /\ copy.cookie = n /\ copy.event = e.event
        /\ x.data = NULL /\ x.cookie = n /\ x.event = e.event
        /\ d # NULL
    BY Blocks DEF Event
  <2> HIDE DEF x, copy, d, n
  <2>7. Sound(queue, qfree, jar, n, k, l \cup ({x.data} \ {NULL}), overwritten)
    <3>1. x \in Records(n) /\ x.data \notin Unused(qfree) \cup overwritten
      BY <2>5 DEF Lone
    <3>2. \A u \in Apps \ {t} : Apart(x, hand[u]) /\ hand[u].cookie # x.cookie
      BY <2>4, <2>5, <2>6 DEF Elements
    <3>3. \A g \in ToSet(queue) : Apart(g, x)
      BY <2>5 DEF Elements
    <3> QED BY <2>3, <2>5, <2>6, <3>1, <3>2, <3>3, IntoHand
  <2>8. jar \in Seq(Records(n)) /\ copy \in Records(n)
    BY <2>3, <2>4 DEF Sound, Typed, Lone
  <2>9. Append(jar, copy) \in Seq(Records(n)) /\ Added(Append(jar, copy), jar, copy)
    BY <2>8, AppendAdds
  <2>10. k[t] = x /\ \A u \in Apps \ {t} : k[u] = hand[u] /\ hand[u].cookie # n
    BY <2>3, <2>4 DEF Sound, Typed, Elements
  <2> HIDE DEF k
  <2>11. Lone(copy, queue, qfree, jar, n, k, overwritten)
    <3>1. ASSUME NEW u \in Apps PROVE Alike(copy, k[u])
      BY <2>6, <2>10 DEF Alike
    <3> QED BY <2>4, <3>1 DEF Lone, Elements
  <2>12. /\ \A u \in Apps : k[u].data # NULL => copy.cookie # k[u].cookie
         /\ \A u, v \in Apps :
              copy.data # NULL /\ k[u].cookie = copy.cookie /\ k[v].cookie = copy.cookie => u = v
    BY <2>6, <2>10
  <2>13. Sound(queue, qfree, Append(jar, copy), n, k,
               (l \cup ({x.data} \ {NULL})) \cup ({copy.data} \ {NULL}), overwritten)
    BY <2>7, <2>9, <2>11, <2>12, IntoJar
  <2>14. (l \cup ({x.data} \ {NULL})) \cup ({copy.data} \ {NULL}) = l \cup {d}
    BY <2>6
  <2>15. IF next_cookie' > next_cookie THEN {Block(queue[i].event, next_cookie')} = {d} ELSE FALSE
    BY <1>0, <1>3 DEF d, n
  <2> QED BY <1>2, <1>3, <2>2, <2>13, <2>14, <2>15
<1>4. CASE /\ next_cookie' = next_cookie
           /\ cookiejar' = jar
           /\ HasQueued(t, e)
  <2> DEFINE x == IF e.data = NULL THEN e ELSE NoEvent
  <2>1. x \in Records(next_cookie) /\ x.data = NULL
    BY <1>0, <1>1, WithoutNumber
  <2>2. NULL \notin Unused(qfree) \cup overwritten
    <3>1. NULL \notin Made(next_cookie)
      BY Blocks DEF Made
    <3> QED BY <3>1 DEF Sound, Typed, Unused
  <2>3. /\ \A g \in Elements(queue, jar, hand) : Alike(x, g)
        /\ \A u \in Apps \ {t} : Apart(x, hand[u])
        /\ \A g \in ToSet(queue) : Apart(g, x)
        /\ \A g \in ToSet(jar) : g.data # NULL => g.cookie # x.cookie
    <3>1. CASE e.data = NULL
      <4>1. \A u \in Apps : Apart(e, hand[u])
        BY <1>1 DEF Sound, NumbersApart
      <4>2. \A g \in ToSet(jar) : Apart(e, g)
        BY <1>1 DEF Sound, NumbersApart
      <4>3. \A g \in ToSet(queue) : Apart(g, e)
        <5>1. ASSUME NEW g \in ToSet(queue), g # e PROVE Apart(g, e)
          BY <1>1, <5>1 DEF Sound, NumbersApart, EachApart, ToSet
        <5>2. Apart(e, e)
          BY <3>1 DEF Apart
        <5> QED BY <5>1, <5>2
      <4>4. \A g \in Elements(queue, jar, hand) : Alike(e, g)
        BY <1>1 DEF Sound, NumbersName, Elements
      <4>5. x = e
        BY <3>1
      <4> HIDE DEF x, e
      <4> QED BY <3>1, <4>1, <4>2, <4>3, <4>4, <4>5 DEF Apart
    <3>2. CASE e.data # NULL
      <4>1. x = NoEvent /\ x.cookie = 0
        BY <1>0, <3>2, WithoutNumber
      <4> HIDE DEF x
      <4>2. /\ Lone(x, queue, qfree, jar, next_cookie, hand, overwritten)
            /\ \A g \in Elements(queue, jar, hand) :
                  /\ Apart(x, g) /\ Apart(g, x) /\ Alike(x, g)
                  /\ g.data # NULL => g.cookie # 0
        BY <2>1, <4>1, NumberNone
      <4> QED BY <4>1, <4>2 DEF Elements
    <3> QED BY <3>1, <3>2
  <2> HIDE DEF x
  <2>4. Sound(queue, qfree, jar, next_cookie, [hand EXCEPT ![t] = x],
              l \cup ({x.data} \ {NULL}), overwritten)
    BY <2>1, <2>2, <2>3, IntoHand
  <2>5. ~(next_cookie' > next_cookie) /\ l \cup ({x.data} \ {NULL}) = l \cup {}
    BY <1>0, <1>4, <2>1
  <2>6. hand' = [hand EXCEPT ![t] = x] /\ UNCHANGED <<next_cookie, queue, qfree, overwritten>>
        /\ cookiejar' = jar
    BY <1>2, <1>4 DEF x, HasQueued
  <2> QED BY <2>4, <2>5, <2>6
<1> QED BY <1>3, <1>4 DEF Peek

LEMMA GivesSound ==
    ASSUME NEW jar, NEW freed, NEW t \in Apps, NEW call,
           Sound(queue, qfree, jar, next_cookie, hand, live \ freed, overwritten),
           freed \subseteq live, hand[t].data = NULL, ~misused, Gives(t, call, jar, freed)
    PROVE  ListsSound' /\ ~misused'
<1>1. PICK i \in Matches(call) :
        /\ IF call \in Peeks THEN Peek(t, jar, i) ELSE Take(t, jar, i)
        /\ live' = (live \ freed)
                   \cup (IF next_cookie' > next_cookie
                         THEN {Block(queue[i].event, next_cookie')} ELSE {})
        /\ misused' = (misused \/ ~(freed \subseteq live))
  BY DEF Gives
<1>2. i \in DOMAIN queue
  BY <1>1 DEF Matches
<1> DEFINE l == live \ freed
<1>3. CASE Peek(t, jar, i)
  <2>1. Sound(queue', qfree', cookiejar', next_cookie', hand',
              l \cup (IF next_cookie' > next_cookie
                      THEN {Block(queue[i].event, next_cookie')} ELSE {}),
              overwritten')
    BY <1>2, <1>3, PeekSound
  <2> QED BY <1>1, <2>1 DEF ListsSound
<1>4. CASE Take(t, jar, i)
  <2>1. Sound(queue', qfree', cookiejar', next_cookie', hand', l, overwritten')
    BY <1>2, <1>4, TakeSound
  <2>2. live' = l
    <3>1. next_cookie' = next_cookie /\ next_cookie \in Nat
      BY <1>4 DEF Take, Sound, Typed
    <3> QED BY <1>1, <3>1
  <2> QED BY <1>1, <2>1, <2>2 DEF ListsSound
<1> QED BY <1>1, <1>3, <1>4

\* Whatever thread calls, it has no data before it waits.
LEMMA OthersKeep ==
    ASSUME EventInv, NEW t \in Apps, NEW call, NEW jar, NEW freed, Gives(t, call, jar, freed)
    PROVE  \A u \in Apps \ {t} : hand'[u] = hand[u]
<1>1. hand \in [Apps -> Records(next_cookie)]
  BY DEF EventInv, ListsSound, Sound, Typed
<1>2. \E x : hand' = [hand EXCEPT ![t] = x]
  BY DEF Gives, Take, Peek, HasOwn, HasQueued
<1> QED BY <1>1, <1>2

\* What it may borrow is an event of the queue.
LEMMA OthersBorrow ==
    ASSUME EventInv, NEW t \in Apps, NEW call, NEW jar, NEW freed, Gives(t, call, jar, freed)
    PROVE  Borrows'
<1>1. PICK i \in Matches(call) : IF call \in Peeks THEN Peek(t, jar, i) ELSE Take(t, jar, i)
  BY DEF Gives
<1>2. queue[i] \in Records(next_cookie)
  BY DEF Matches, EventInv, ListsSound, Sound, Typed
<1>3. (\E e : HasOwn(t, e)) \/ HasQueued(t, queue[i])
  BY <1>1 DEF Take, Peek
<1> QED BY <1>2, <1>3, BorrowsNot, BorrowsQueued DEF EventInv

LEMMA CallSound ==
    ASSUME EventInv, NEW t \in Apps, NEW call \in Takes \cup Peeks, Call(t, call)
    PROVE  EventInv'
<1> DEFINE freed == IF call \in Clears THEN Pointers(cookiejar) ELSE {}
           jar == IF call \in Clears THEN <<>> ELSE cookiejar
<1>1. Sound(queue, qfree, jar, next_cookie, hand, live \ freed, overwritten) /\ freed \subseteq live
  <2>1. CASE call \in Clears
    BY <2>1, AllFreedOf DEF EventInv, ListsSound
  <2>2. CASE call \notin Clears
    <3>1. live \ freed = live
      BY <2>2
    <3> QED BY <2>2, <3>1 DEF EventInv, ListsSound
  <2> QED BY <2>1, <2>2
<1>2. /\ Free(t)
      /\ \/ Gives(t, call, jar, freed) /\ UNCHANGED waiting
         \/ /\ ~Satisfied(call)
            /\ Frees(freed)
            /\ cookiejar' = jar
            /\ waiting' = [waiting EXCEPT ![t] = IF call \in Waits THEN call ELSE "no"]
            /\ UNCHANGED <<queue, qfree, next_cookie, hand, borrowed, overwritten>>
  BY DEF Call
<1> HIDE DEF freed, jar
<1>3. hand[t].data = NULL /\ waiting[t] = "no"
  BY <1>2 DEF Free
<1>4. CASE Gives(t, call, jar, freed) /\ UNCHANGED waiting
  <2>1. ListsSound' /\ ~misused'
    BY <1>1, <1>3, <1>4, GivesSound DEF EventInv
  <2>2. \A u \in Apps \ {t} : hand'[u] = hand[u]
    BY <1>4, OthersKeep
  <2>3. Borrows'
    BY <1>4, OthersBorrow
  <2> QED BY <1>3, <1>4, <2>1, <2>2, <2>3 DEF EventInv
<1>5. CASE /\ ~Satisfied(call)
           /\ Frees(freed)
           /\ cookiejar' = jar
           /\ waiting' = [waiting EXCEPT ![t] = IF call \in Waits THEN call ELSE "no"]
           /\ UNCHANGED <<queue, qfree, next_cookie, hand, borrowed, overwritten>>
  <2>1. ListsSound' /\ ~misused'
    BY <1>1, <1>5 DEF Frees, ListsSound, EventInv
  <2>2. Borrows'
    BY <1>5 DEF EventInv, Borrows
  <2> QED BY <1>3, <1>5, <2>1, <2>2 DEF EventInv
<1> QED BY <1>2, <1>4, <1>5

LEMMA ResumeSound ==
    ASSUME EventInv, NEW t \in Apps, Resume(t)
    PROVE  EventInv'
<1>1. /\ waiting[t] # "no"
      /\ Gives(t, waiting[t], cookiejar, {})
      /\ waiting' = [waiting EXCEPT ![t] = "no"]
  BY DEF Resume
<1>2. hand[t].data = NULL /\ live \ {} = live
  BY <1>1 DEF EventInv
<1>3. ListsSound' /\ ~misused'
  BY <1>1, <1>2, GivesSound DEF EventInv, ListsSound
<1>4. \A u \in Apps \ {t} : hand'[u] = hand[u]
  BY <1>1, OthersKeep
<1>5. Borrows'
  BY <1>1, OthersBorrow
<1> QED BY <1>1, <1>3, <1>4, <1>5 DEF EventInv

\* What _XFetchEventCookie finds is in the jar.
LEMMA FoundInJar ==
    ASSUME ListsSound, NEW e, Fetched(e) # {}
    PROVE  LET m == Min(Fetched(e)) IN
           /\ m \in DOMAIN cookiejar
           /\ cookiejar[m].cookie = e.cookie /\ cookiejar[m].event = e.event
           /\ cookiejar[m] \in Records(next_cookie) /\ cookiejar[m] \in ToSet(cookiejar)
           /\ RemoveAt(cookiejar, m) \in Seq(Records(next_cookie))
           /\ Added(cookiejar, RemoveAt(cookiejar, m), cookiejar[m])
<1> DEFINE S == Fetched(e)
<1>0. cookiejar \in Seq(Records(next_cookie))
  BY DEF ListsSound, Sound, Typed
<1>1. S \subseteq Nat /\ S \subseteq DOMAIN cookiejar
  BY <1>0 DEF Fetched
<1>2. Min(S) \in S
  <2> HIDE DEF S
  <2>1. PICK m \in S : \A k \in S : <<k, m>> \notin OpToRel(<, Nat)
    BY <1>1, WFMin, NatLessThanWellFounded DEF S
  <2>2. ASSUME NEW k \in S PROVE m =< k
    <3>1. k \in Nat /\ m \in Nat
      BY <1>1
    <3>2. ~(k < m)
      BY <2>1, <3>1 DEF OpToRel
    <3> QED BY <3>1, <3>2
  <2> QED BY <2>2 DEF Min
<1>3. ASSUME NEW m \in S
      PROVE  /\ m \in DOMAIN cookiejar
             /\ cookiejar[m].cookie = e.cookie /\ cookiejar[m].event = e.event
             /\ cookiejar[m] \in Records(next_cookie) /\ cookiejar[m] \in ToSet(cookiejar)
             /\ RemoveAt(cookiejar, m) \in Seq(Records(next_cookie))
             /\ Added(cookiejar, RemoveAt(cookiejar, m), cookiejar[m])
  BY <1>0, RemoveTakes DEF Fetched, ToSet
<1> QED BY <1>2, <1>3

LEMMA GetDataSound ==
    ASSUME EventInv, NEW t \in Apps, XGetEventData(t), ~unearned'
    PROVE  EventInv'
<1> DEFINE m == Min(Fetched(hand[t]))
           x == cookiejar[m]
           r == RemoveAt(cookiejar, m)
           n == next_cookie
<1>a. borrowed[t].data = NULL /\ Had(t) = hand[t]
  BY DEF XGetEventData, Had
<1>b. HasOwn(t, x)
  BY <1>a DEF XGetEventData
<1>0. /\ Fetched(hand[t]) # {} /\ waiting[t] = "no"
      /\ hand' = [hand EXCEPT ![t] = x] /\ cookiejar' = r /\ Borrows'
      /\ UNCHANGED <<queue, qfree, next_cookie, waiting, live, overwritten, misused>>
  BY <1>a, <1>b, BorrowsNot DEF XGetEventData, EventInv
<1>1. /\ x.cookie = hand[t].cookie /\ x \in ToSet(cookiejar) /\ x \in Records(n)
      /\ r \in Seq(Records(n)) /\ Added(cookiejar, r, x)
  BY <1>0, FoundInJar DEF EventInv
<1> HIDE DEF m, x, r, n
<1>2. /\ Sound(queue, qfree, r, n, hand, live \ {x.data}, overwritten)
      /\ Lone(x, queue, qfree, r, n, hand, overwritten)
      /\ \A u \in Apps : hand[u].data # NULL => x.cookie # hand[u].cookie
      /\ \A u, v \in Apps :
            x.data # NULL /\ hand[u].cookie = x.cookie /\ hand[v].cookie = x.cookie => u = v
      /\ x.data # NULL => x.data \in live
  BY <1>1, OutOfJar DEF EventInv, ListsSound, n
<1>3. hand[t].data = NULL
  BY <1>1, <1>2
<1>4. \A u \in Apps \ {t} : Apart(x, hand[u])
  BY <1>1, <1>2 DEF Apart
<1>5. /\ \A e \in ToSet(queue) : Apart(e, x)
      /\ \A g \in ToSet(r) : x.data # NULL \/ g.data # NULL => g.cookie # x.cookie
  BY <1>2 DEF Lone, Apart
<1>6. x.data \notin Unused(qfree) \cup overwritten /\ \A e \in Elements(queue, r, hand) : Alike(x, e)
  BY <1>2 DEF Lone
<1>7. Sound(queue, qfree, r, n, [hand EXCEPT ![t] = x],
            (live \ {x.data}) \cup ({x.data} \ {NULL}), overwritten)
  BY <1>1, <1>2, <1>3, <1>4, <1>5, <1>6, IntoHand
<1>8. (live \ {x.data}) \cup ({x.data} \ {NULL}) = live
  <2>1. NULL \notin live
    <3>1. NULL \notin Made(n)
      BY Blocks DEF Made
    <3> QED BY <3>1 DEF EventInv, ListsSound, Sound, Accounted, Used, Unused, Typed, n
  <2> QED BY <1>2, <2>1
<1>9. ListsSound'
  BY <1>0, <1>7, <1>8 DEF ListsSound, n
<1>10. \A u \in Apps \ {t} : hand'[u] = hand[u]
  BY <1>0 DEF EventInv, ListsSound, Sound, Typed
<1> QED BY <1>0, <1>9, <1>10 DEF EventInv

LEMMA FreeDataSound ==
    ASSUME EventInv, NEW t \in Apps, XFreeEventData(t), ~unearned'
    PROVE  EventInv'
<1> DEFINE x == Event(hand[t].event, 0, NULL)
<1>a. borrowed[t].data = NULL /\ Had(t) = hand[t]
  BY DEF XFreeEventData, Had
<1>0. /\ waiting[t] = "no" /\ hand[t].data # NULL
      /\ Frees({hand[t].data})
      /\ UNCHANGED <<queue, qfree, cookiejar, next_cookie, waiting, overwritten>>
  BY <1>a DEF XFreeEventData
<1>1. hand' = [hand EXCEPT ![t] = x] /\ Borrows'
  <2>1. HasOwn(t, x)
    BY <1>a DEF XFreeEventData
  <2> QED BY <2>1, BorrowsNot DEF EventInv
<1>2. hand \in [Apps -> Records(next_cookie)] /\ next_cookie \in Nat
  BY DEF EventInv, ListsSound, Sound, Typed
<1>3. x \in Records(next_cookie) /\ x.data = NULL /\ x.cookie = 0
  <2>1. hand[t].event \in Kinds
    BY <1>2 DEF Records
  <2> QED BY <1>2, <2>1 DEF Records, Event
<1> HIDE DEF x
<1>4. /\ Sound(queue, qfree, cookiejar, next_cookie, [hand EXCEPT ![t] = x],
               live \ {hand[t].data}, overwritten)
      /\ hand[t].data \in live
  BY <1>0, <1>3, OutOfHand DEF EventInv, ListsSound
<1>5. ListsSound' /\ ~misused'
  BY <1>0, <1>1, <1>4 DEF Frees, ListsSound, EventInv
<1>6. \A u \in Apps : hand[u].data = NULL => hand'[u].data = NULL
  BY <1>1, <1>2, <1>3
<1> QED BY <1>0, <1>1, <1>5, <1>6 DEF EventInv

\* An element that is lone comes back to the head of the queue.
LEMMA PutBackSound ==
    ASSUME NEW j, NEW n, NEW h, NEW l, Sound(queue, qfree, j, n, h, l, overwritten),
           NEW x, Lone(x, queue, qfree, j, n, h, overwritten),
           \A u \in Apps : Apart(x, h[u]), PutBack(x)
    PROVE  Sound(queue', qfree', j, n, h, l \cup ({x.data} \ {NULL}), overwritten')
<1>1. queue \in Seq(Records(n)) /\ x \in Records(n)
  BY DEF Sound, Typed, Lone
<1>2. <<x>> \o queue \in Seq(Records(n)) /\ Added(<<x>> \o queue, queue, x)
  BY <1>1, ConsAdds
<1>3. Sound(<<x>> \o queue, qfree, j, n, h, l \cup ({x.data} \ {NULL}), overwritten)
  BY <1>2, IntoQueue
<1>4. Sound(<<x>> \o queue, RestFree, j, n, h, l \cup ({x.data} \ {NULL}),
            overwritten \cup ({FirstFree} \ {NULL}))
  BY <1>3, TakesFree
<1> QED BY <1>4 DEF PutBack, Reused

LEMMA PutBackEventSound ==
    ASSUME EventInv, NEW t \in Apps, XPutBackEvent(t)
    PROVE  EventInv'
<1> DEFINE e == Had(t)
           n == next_cookie + 1
           m == Min(Fetched(e))
<1>0. /\ ListsSound /\ waiting[t] = "no" /\ UNCHANGED <<waiting, misused>>
      /\ hand \in [Apps -> Records(next_cookie)] /\ hand[t] \in Records(next_cookie)
      /\ next_cookie \in Nat
      /\ hand[t] \in Elements(queue, cookiejar, hand)
  BY DEF XPutBackEvent, EventInv, ListsSound, Sound, Typed, Elements
<1>1. NULL \notin Unused(qfree) \cup overwritten
  <2>1. NULL \notin Made(next_cookie)
    BY Blocks DEF Made
  <2> QED BY <2>1 DEF EventInv, ListsSound, Sound, Typed, Unused
<1>2. SUFFICES /\ ListsSound' /\ (UNCHANGED borrowed \/ Borrows')
               /\ \A u \in Apps : hand'[u] = hand[u] \/ hand'[u].data = NULL
  BY <1>0 DEF EventInv, Borrows
<1>7. ASSUME ~_XIsEventCookie(e) \/ e.data = NULL PROVE e = hand[t]
  BY <1>7 DEF Had, EventInv, Borrows, _XIsEventCookie
<1> HIDE DEF e
<1>3. CASE /\ ~_XIsEventCookie(e) \/ (e.data = NULL /\ Fetched(e) = {})
           /\ PutBack(e)
           /\ UNCHANGED <<cookiejar, next_cookie, hand, borrowed, live>>
  <2>0. e \in Records(next_cookie) /\ e \in Elements(queue, cookiejar, hand) /\ e = hand[t]
    BY <1>0, <1>3, <1>7
  <2>1. /\ Lone(e, queue, qfree, cookiejar, next_cookie, hand, overwritten)
        /\ e.data = NULL /\ \A u \in Apps : Apart(e, hand[u])
    <3>1. CASE ~_XIsEventCookie(e)
      <4>1. e.cookie = 0
        BY <2>0, <1>0, <3>1 DEF Records, _XIsEventCookie
      <4> QED BY <2>0, <1>0, <4>1, NumberNone DEF ListsSound, Elements
    <3>2. CASE _XIsEventCookie(e) /\ e.data = NULL /\ Fetched(e) = {}
      <4>1. \A g \in ToSet(queue) : Apart(e, g)
        BY <2>0, <1>0 DEF ListsSound, Sound, NumbersApart, Apart
      <4>2. \A u \in Apps : Apart(e, hand[u])
        BY <2>0, <1>0, <3>2 DEF ListsSound, Sound, NumbersApart, Apart
      <4>3. \A g \in Elements(queue, cookiejar, hand) : Alike(e, g)
        BY <2>0, <1>0 DEF ListsSound, Sound, NumbersName
      <4>4. ASSUME NEW g \in ToSet(cookiejar) PROVE Apart(e, g)
        <5>1. g.data # NULL => g.cookie # 0
          BY DEF ToSet, EventInv, ListsSound, Sound, Typed, Records
        <5>2. Alike(e, g)
          BY <4>3 DEF Elements
        <5>3. ~(g.cookie = e.cookie /\ g.event = e.event)
          BY <3>2 DEF Fetched, ToSet
        <5> QED BY <3>2, <5>1, <5>2, <5>3 DEF Apart, Alike
      <4> QED BY <2>0, <1>0, <1>1, <3>2, <4>1, <4>2, <4>3, <4>4 DEF Lone
    <3> QED BY <1>3, <3>1, <3>2
  <2>2. Sound(queue', qfree', cookiejar, next_cookie, hand, live \cup ({e.data} \ {NULL}), overwritten')
    BY <2>0, <1>0, <1>3, <2>1, PutBackSound DEF ListsSound
  <2>3. live \cup ({e.data} \ {NULL}) = live
    BY <2>1
  <2> QED BY <1>3, <2>2, <2>3 DEF ListsSound
<1>4. CASE /\ _XIsEventCookie(e) /\ e.data = NULL /\ Fetched(e) # {}
           /\ PutBack(cookiejar[m])
           /\ HasQueued(t, cookiejar[m])
           /\ cookiejar' = RemoveAt(cookiejar, m)
           /\ UNCHANGED <<next_cookie, live>>
  <2> DEFINE x == cookiejar[m]
             r == RemoveAt(cookiejar, m)
             y == IF x.data = NULL THEN x ELSE NoEvent
             h == [hand EXCEPT ![t] = y]
  <2>0. e = hand[t]
    BY <1>4, <1>7
  <2>1. /\ x.cookie = e.cookie /\ x.event = e.event /\ x \in Records(next_cookie)
        /\ r \in Seq(Records(next_cookie)) /\ Added(cookiejar, r, x)
    BY <1>0, <1>4, FoundInJar
  <2>2. h[t] = y /\ (\A u \in Apps \ {t} : h[u] = hand[u]) /\ hand' = h /\ cookiejar' = r
    BY <1>0, <1>4 DEF HasQueued
  <2>3. PutBack(x) /\ UNCHANGED <<next_cookie, live>> /\ hand[t].data = NULL
        /\ x.cookie = hand[t].cookie /\ x.event = hand[t].event
    BY <1>4, <2>0, <2>1
  <2>14. Borrows'
    BY <1>4, <2>1, BorrowsQueued DEF EventInv
  <2> HIDE DEF m, x, r, y
  <2>4. /\ Sound(queue, qfree, r, next_cookie, hand, live \ {x.data}, overwritten)
        /\ Lone(x, queue, qfree, r, next_cookie, hand, overwritten)
        /\ \A u \in Apps : hand[u].data # NULL => x.cookie # hand[u].cookie
        /\ \A u, v \in Apps :
              x.data # NULL /\ hand[u].cookie = x.cookie /\ hand[v].cookie = x.cookie => u = v
        /\ x.data # NULL => x.data \in live
    BY <1>0, <2>1, OutOfJar DEF ListsSound
  <2>5. NoEvent \in Records(next_cookie) /\ NoEvent.data = NULL /\ NoEvent.cookie = 0
    BY <1>0, WithoutNumber
  <2>13. CASE x.data = NULL
    <3>1. y = x /\ x = hand[t]
      BY <1>0, <2>1, <2>3, <2>13 DEF y, Records
    <3>2. h = hand
      BY <1>0, <3>1 DEF h
    <3> HIDE DEF h
    <3>3. \A u \in Apps : Apart(x, hand[u])
      BY <2>3, <2>4, <2>13 DEF Apart
    <3>4. live \ {x.data} = live /\ live \cup ({x.data} \ {NULL}) = live
      <4>1. NULL \notin Made(next_cookie)
        BY Blocks DEF Made
      <4> QED BY <1>0, <2>13, <4>1 DEF ListsSound, Sound, Accounted, Used, Unused, Typed
    <3>5. Sound(queue', qfree', r, next_cookie, hand, live \cup ({x.data} \ {NULL}), overwritten')
      BY <2>3, <2>4, <3>3, <3>4, PutBackSound
    <3> QED BY <2>2, <2>3, <2>14, <3>2, <3>4, <3>5 DEF ListsSound
  <2> SUFFICES ASSUME x.data # NULL
               PROVE  /\ ListsSound' /\ \A u \in Apps : hand'[u] = hand[u] \/ hand'[u].data = NULL
    BY <2>13, <2>14
  <2>15. y = NoEvent
    BY DEF y
  <2>6. Sound(queue, qfree, r, next_cookie, h, live \ {x.data}, overwritten)
    <3>1. Sound(queue, qfree, r, next_cookie, h, (live \ {x.data}) \ {hand[t].data}, overwritten)
      <4> DEFINE none == NoEvent
                 left == live \ {x.data}
      <4>1. Sound(queue, qfree, r, next_cookie, hand, left, overwritten)
        BY <2>4
      <4>2. none \in Records(next_cookie) /\ none.data = NULL /\ none.cookie = 0
        BY <2>5
      <4> HIDE DEF none, left
      <4>3. Sound(queue, qfree, r, next_cookie, [hand EXCEPT ![t] = none], left \ {hand[t].data},
                  overwritten)
        BY <4>1, <4>2, OutOfHand
      <4> QED BY <2>15, <4>3 DEF none, left, h
    <3>2. NULL \notin live \ {x.data}
      <4>1. NULL \notin Made(next_cookie)
        BY Blocks DEF Made
      <4> QED BY <1>0, <4>1 DEF ListsSound, Sound, Accounted, Used, Unused, Typed
    <3>3. (live \ {x.data}) \ {hand[t].data} = live \ {x.data}
      BY <2>3, <3>2
    <3> QED BY <3>1, <3>3
  <2> HIDE DEF h
  <2>7. \A u \in Apps : Apart(x, h[u]) /\ Alike(x, h[u])
    <3>1. x.data # NULL => x.cookie # 0
      BY <2>1 DEF Records
    <3>2. Apart(x, h[t]) /\ Alike(x, h[t])
      BY <2>2, <2>5, <2>15, <3>1 DEF Apart, Alike
    <3>3. ASSUME NEW u \in Apps \ {t} PROVE Apart(x, h[u]) /\ Alike(x, h[u])
      <4>1. Apart(x, hand[u])
        BY <2>3, <2>4 DEF Apart
      <4>2. Alike(x, hand[u])
        BY <2>4 DEF Lone, Elements
      <4> QED BY <2>2, <4>1, <4>2
    <3> QED BY <3>2, <3>3
  <2>8. Lone(x, queue, qfree, r, next_cookie, h, overwritten)
    BY <2>4, <2>7 DEF Lone, Elements
  <2>9. Sound(queue', qfree', r, next_cookie, h, (live \ {x.data}) \cup ({x.data} \ {NULL}), overwritten')
    BY <2>3, <2>6, <2>7, <2>8, PutBackSound
  <2>10. (live \ {x.data}) \cup ({x.data} \ {NULL}) = live
    <3>1. NULL \notin live
      <4>1. NULL \notin Made(next_cookie)
        BY Blocks DEF Made
      <4> QED BY <1>0, <4>1 DEF ListsSound, Sound, Accounted, Used, Unused, Typed
    <3> QED BY <2>4, <3>1
  <2>11. ListsSound'
    BY <2>2, <2>3, <2>9, <2>10 DEF ListsSound
  <2>12. \A u \in Apps : hand'[u] = hand[u] \/ hand'[u].data = NULL
    BY <2>2, <2>5, <2>15
  <2> QED BY <2>11, <2>12
<1>5. CASE /\ _XIsEventCookie(e) /\ e.data # NULL /\ Copies(e)
           /\ PutBack(Event(e.event, n, Block(e.event, n)))
           /\ next_cookie' = n
           /\ live' = live \cup {Block(e.event, n)}
           /\ UNCHANGED <<cookiejar, hand, borrowed>>
  <2> DEFINE x == Event(e.event, n, Block(e.event, n))
  <2>1. e.event \in Generic
    BY <1>5 DEF _XIsEventCookie
  <2>2. /\ Lone(x, queue, qfree, cookiejar, n, hand, overwritten)
        /\ \A g \in Elements(queue, cookiejar, hand) : Apart(x, g)
    BY <1>0, <2>1, NumberNew DEF ListsSound
  <2>3. Sound(queue, qfree, cookiejar, n, hand, live, overwritten)
    BY <1>0, Grow DEF ListsSound
  <2>4. x.data = Block(e.event, n) /\ x.data # NULL
    BY Blocks DEF Event
  <2> HIDE DEF x
  <2>5. \A u \in Apps : Apart(x, hand[u])
    BY <2>2 DEF Elements
  <2>6. PutBack(x)
    BY <1>5 DEF x
  <2> HIDE DEF n
  <2>7. Sound(queue', qfree', cookiejar, n, hand, live \cup ({x.data} \ {NULL}), overwritten')
    BY <2>2, <2>3, <2>5, <2>6, PutBackSound
  <2>8. live \cup ({x.data} \ {NULL}) = live'
    BY <1>5, <2>4
  <2> QED BY <1>5, <2>7, <2>8 DEF ListsSound
<1>6. CASE /\ _XIsEventCookie(e) /\ e.data # NULL
           /\ PutBack(Zeroed)
           /\ UNCHANGED <<cookiejar, next_cookie, hand, borrowed, live>>
  <2>1. Zeroed \in Records(next_cookie) /\ Zeroed.cookie = 0
    BY <1>0, WithoutNumber
  <2>2. /\ Lone(Zeroed, queue, qfree, cookiejar, next_cookie, hand, overwritten)
        /\ Zeroed.data = NULL
        /\ \A g \in Elements(queue, cookiejar, hand) : Apart(Zeroed, g)
    BY <1>0, <2>1, NumberNone DEF ListsSound
  <2>3. \A u \in Apps : Apart(Zeroed, hand[u])
    BY <2>2 DEF Elements
  <2>4. Sound(queue', qfree', cookiejar, next_cookie, hand, live \cup ({Zeroed.data} \ {NULL}),
              overwritten')
    BY <1>0, <1>6, <2>2, <2>3, PutBackSound DEF ListsSound
  <2>5. live \cup ({Zeroed.data} \ {NULL}) = live
    BY <2>2
  <2> QED BY <1>6, <2>4, <2>5 DEF ListsSound
<1> QED BY <1>3, <1>4, <1>5, <1>6 DEF XPutBackEvent, e

LEMMA EventCallsSound ==
    ASSUME EventInv, EventCalls, ~unearned'
    PROVE  EventInv'
BY EnqSound, IgnoredSound, SyncSound, CallSound, ResumeSound, GetDataSound, FreeDataSound,
   PutBackEventSound DEF EventCalls

LEMMA EventInit == CookieInit => EventInv
<1> SUFFICES ASSUME CookieInit PROVE EventInv
  OBVIOUS
<1>1. NoEvent \in Records(0) /\ NoEvent.data = NULL /\ NoEvent.cookie = 0
  BY WithoutNumber
<1>2. ToSet(<<>>) = {} /\ DOMAIN (<<>>) = {} /\ Once(<<>>) /\ Unused(<<>>) = {}
  BY DEF ToSet, Once, Unused
<1>3. Typed(<<>>, <<>>, <<>>, 0, hand, {})
  BY <1>1 DEF CookieInit, Typed
<1>4. NumbersApart(<<>>, <<>>, hand)
  BY <1>1, <1>2 DEF CookieInit, NumbersApart, EachApart, Apart
<1>5. \A e \in Elements(<<>>, <<>>, hand) : e = NoEvent
  BY <1>2 DEF CookieInit, Elements
<1>6. NumbersName(<<>>, <<>>, hand) /\ Used(<<>>, <<>>, hand) = {}
  BY <1>1, <1>5 DEF NumbersName, Alike, Used
<1>7. Accounted(<<>>, <<>>, <<>>, hand, {}, {})
  BY <1>2, <1>6 DEF Accounted
<1> QED BY <1>1, <1>3, <1>4, <1>6, <1>7 DEF EventInv, ListsSound, Sound, CookieInit, Borrows

\* What the invariant is for.
LEMMA OwnedUnion ==
    UNION {Owned[k] : k \in DOMAIN Owned}
        = Pointers(queue) \cup Pointers(cookiejar) \cup Claimed \cup Freelist \cup overwritten
<1>1. DOMAIN Owned = 1..5
  BY DEF Owned
<1>2. /\ Owned[1] = Pointers(queue) /\ Owned[2] = Pointers(cookiejar) /\ Owned[3] = Claimed
      /\ Owned[4] = Freelist /\ Owned[5] = overwritten
  BY DEF Owned
<1>3. UNION {Owned[k] : k \in DOMAIN Owned}
         = Owned[1] \cup Owned[2] \cup Owned[3] \cup Owned[4] \cup Owned[5]
  BY <1>1
<1> QED BY <1>2, <1>3

LEMMA EventsOwned == EventInv => AlwaysOwned
<1> SUFFICES ASSUME EventInv PROVE AlwaysOwned
  OBVIOUS
<1> DEFINE n == next_cookie
<1>0. /\ queue \in Seq(Records(n)) /\ cookiejar \in Seq(Records(n)) /\ hand \in [Apps -> Records(n)]
      /\ NumbersApart(queue, cookiejar, hand)
      /\ Accounted(queue, qfree, cookiejar, hand, live, overwritten)
  BY DEF EventInv, ListsSound, Sound, Typed
<1>1. \A e \in Elements(queue, cookiejar, hand) : e \in Records(n)
  BY <1>0 DEF Elements, ToSet
<1>2. Used(queue, cookiejar, hand) = Pointers(queue) \cup Pointers(cookiejar) \cup Claimed
  BY UsedParts DEF Claimed
<1>3. Unused(qfree) = Freelist
  BY DEF Unused, Freelist
<1>4. Pointers(queue) \cap Pointers(cookiejar) = {}
  <2>1. ASSUME NEW e \in ToSet(queue), NEW g \in ToSet(cookiejar), e.data = g.data
        PROVE  e.data = NULL
    BY <1>0, <1>1, <2>1, ApartData DEF NumbersApart, Elements
  <2> QED BY <2>1, PointersOf
<1>5. Pointers(queue) \cap Claimed = {}
  <2>1. ASSUME NEW e \in ToSet(queue), NEW t \in Apps, e.data = hand[t].data
        PROVE  e.data = NULL
    BY <1>0, <1>1, <2>1, ApartData DEF NumbersApart, Elements
  <2> QED BY <2>1, PointersOf DEF Claimed
<1>6. Pointers(cookiejar) \cap Claimed = {}
  <2>1. ASSUME NEW g \in ToSet(cookiejar), NEW t \in Apps, g.data = hand[t].data, g.data # NULL
        PROVE  FALSE
    <3>1. g.cookie # hand[t].cookie
      BY <1>0, <2>1 DEF NumbersApart
    <3>2. g \in Records(n) /\ hand[t] \in Records(n)
      BY <1>1 DEF Elements
    <3> QED BY <2>1, <3>1, <3>2, Blocks DEF Records
  <2> QED BY <2>1, PointersOf DEF Claimed
<1>7. \A k, m \in DOMAIN Owned : k # m => Owned[k] \cap Owned[m] = {}
  <2> DEFINE a == Pointers(queue)
             b == Pointers(cookiejar)
             c == Claimed
             d == Freelist
             o == overwritten
  <2>1. /\ a \cap b = {} /\ a \cap c = {} /\ b \cap c = {}
        /\ (a \cup b \cup c) \cap (d \cup o) = {} /\ d \cap o = {}
    BY <1>0, <1>2, <1>3, <1>4, <1>5, <1>6 DEF Accounted
  <2>2. Owned = <<a, b, c, d, o>>
    BY DEF Owned
  <2> HIDE DEF a, b, c, d, o
  <2> QED BY <2>1, <2>2
<1>8. live = UNION {Owned[k] : k \in DOMAIN Owned}
  BY <1>0, <1>2, <1>3, OwnedUnion DEF Accounted
<1>9. OneEach
  <2>1. Once(Data(queue)) /\ Once(Data(cookiejar)) /\ Once(qfree)
    BY <1>0, DataOnce DEF NumbersApart, Accounted
  <2>2. ASSUME NEW t \in Apps, NEW u \in Apps, hand[t].data = hand[u].data, t # u
        PROVE  hand[t].data = NULL
    BY <1>0, <2>2, ApartData DEF NumbersApart
  <2> QED BY <2>1, <2>2 DEF OneEach
<1>10. OwnData
  BY <1>1 DEF OwnData, Records, Elements
<1> QED BY <1>7, <1>8, <1>9, <1>10 DEF AlwaysOwned, EventInv

-----------------------------------------------------------------------------
(***************************************************************************)
(* The life of the Display.                                                *)
(***************************************************************************)
\* _XFreeDisplayStructure
LEMMA FreeStructureSound ==
    ASSUME NEW q, NEW f, Sound(q, f, cookiejar, next_cookie, hand, live, overwritten),
           ~misused, NEW h, _XFreeDisplayStructure(h, f, cookiejar)
    PROVE  /\ Sound(q, qfree', cookiejar', next_cookie, hand, live', overwritten)
           /\ ~misused' /\ qfree' = <<>> /\ cookiejar' = <<>>
<1>1. /\ Sound(q, <<>>, <<>>, next_cookie, hand, live \ (Unused(f) \cup Pointers(cookiejar)),
               overwritten)
      /\ Unused(f) \cup Pointers(cookiejar) \subseteq live
  BY AllFreedOf
<1>2. /\ live' = live \ (Unused(f) \cup Pointers(cookiejar))
      /\ misused' = (misused \/ ~(Unused(f) \cup Pointers(cookiejar) \subseteq live))
      /\ qfree' = <<>> /\ cookiejar' = <<>>
  BY DEF _XFreeDisplayStructure, Frees, Unused
<1> QED BY <1>1, <1>2

LEMMA OpenFailedSound ==
    ASSUME EventInv, OpenFailed
    PROVE  EventInv'
<1>1. CASE UNCHANGED cookieVars
  BY <1>1 DEF EventInv, ListsSound, Borrows, cookieVars
<1>2. CASE \E h : /\ _XFreeDisplayStructure(h, qfree, cookiejar)
                  /\ UNCHANGED <<queue, next_cookie, hand, borrowed, waiting, overwritten>>
  BY <1>2, FreeStructureSound DEF EventInv, ListsSound, Borrows
<1> QED BY <1>1, <1>2 DEF OpenFailed

LEMMA CloseSound ==
    ASSUME EventInv, XCloseDisplay
    PROVE  EventInv'
<1>1. Sound(<<>>, Data(queue) \o qfree, cookiejar, next_cookie, hand, live, overwritten)
  BY AllDiscarded DEF EventInv, ListsSound
<1> QED BY <1>1 DEF EventInv, ListsSound, XCloseDisplay, Discarded, Borrows

LEMMA CloseEndSound ==
    ASSUME EventInv, CloseEnd
    PROVE  EventInv'
<1>1. /\ queue' = IF unsynced THEN <<>> ELSE queue
      /\ _XFreeDisplayStructure(heap, FinalSync, cookiejar)
      /\ UNCHANGED <<next_cookie, hand, borrowed, waiting, overwritten>>
  BY DEF CloseEnd
<1>2. Sound(queue', FinalSync, cookiejar, next_cookie, hand, live, overwritten)
  <2>1. CASE unsynced
    BY <1>1, <2>1, AllDiscarded DEF EventInv, ListsSound, FinalSync, Discarded
  <2>2. CASE ~unsynced
    BY <1>1, <2>2 DEF EventInv, ListsSound, FinalSync
  <2> QED BY <2>1, <2>2
<1>3. Sound(queue', qfree', cookiejar', next_cookie, hand, live', overwritten) /\ ~misused'
  BY <1>1, <1>2, FreeStructureSound DEF EventInv
<1> QED BY <1>1, <1>3 DEF EventInv, ListsSound, Borrows

LEMMA LifeStepSound ==
    ASSUME EventInv, [LifeNext]_<<cookieVars, lifeVars>>, ~unearned'
    PROVE  EventInv'
<1>1. CASE UNCHANGED cookieVars
  BY <1>1 DEF EventInv, ListsSound, Borrows, cookieVars
<1>2. CASE Open \/ OpenStep \/ OpenWithout
  BY <1>1, <1>2 DEF Open, OpenStep, OpenWithout
<1>3. CASE OpenFailed
  BY <1>3, OpenFailedSound
<1>4. CASE Events
  BY <1>4, EventCallsSound DEF Events
<1>5. CASE XInitExtension \/ XAddExtension \/ XESetCloseDisplay \/ XESetWireToError
           \/ XAddToExtensionList \/ _XAllocScratch \/ MakeTable
           \/ XAddConnectionWatch \/ _XRegisterInternalConnection
  BY <1>1, <1>5 DEF XInitExtension, XAddExtension, XESetCloseDisplay, XESetWireToError,
     XAddToExtensionList, _XAllocScratch, MakeTable, XAddConnectionWatch,
     _XRegisterInternalConnection, Adds
<1>6. CASE XCloseDisplay
  BY <1>6, CloseSound
<1>7. CASE CallHook
  BY <1>1, <1>7, EnqSound DEF CallHook
<1>8. CASE CloseEnd
  BY <1>8, CloseEndSound
<1> QED BY <1>1, <1>2, <1>3, <1>4, <1>5, <1>6, <1>7, <1>8 DEF LifeNext

\* Once a thread has used what it has only borrowed, nothing is said of the data.
EventsHeld == unearned \/ EventInv

LEMMA EventsHeldOn == EventsHeld /\ [LifeNext]_<<cookieVars, lifeVars>> => EventsHeld'
<1> SUFFICES ASSUME EventsHeld, [LifeNext]_<<cookieVars, lifeVars>>, ~unearned' PROVE EventInv'
  BY DEF EventsHeld
<1>1. ~unearned
  <2>1. CASE UNCHANGED unearned
    BY <2>1
  <2>2. CASE Events
    <3>1. EventCalls
      BY <2>2 DEF Events
    <3> QED BY <3>1 DEF EventCalls, _XEnq, Ignored, XSync, Call, Resume, Gives, XGetEventData,
          XFreeEventData, XPutBackEvent
  <2>3. CASE CallHook
    BY <2>3 DEF CallHook, _XEnq, cookieVars
  <2>4. CASE ~Events /\ ~CallHook
    BY <2>4 DEF LifeNext, Open, OpenStep, OpenWithout, OpenFailed, XInitExtension, XAddExtension,
       XESetCloseDisplay, XESetWireToError, XAddToExtensionList, _XAllocScratch, MakeTable,
       XAddConnectionWatch, _XRegisterInternalConnection, Adds, XCloseDisplay, CloseEnd, cookieVars
  <2> QED BY <2>1, <2>2, <2>3, <2>4
<1> QED BY <1>1, LifeStepSound DEF EventsHeld

\* At any time of a Display's life the data of an event have one owner -- the
\* queue, the jar, the thread that has claimed them, an element of the free
\* list, or none when that element was used again --, nothing was freed twice,
\* and what a thread claims with a cookie was made for its event, unless a thread
\* has freed or claimed data, or put back data that were freed, through a pointer
\* that a peek or XPutBackEvent has left in its event (_XStoreEventCookie, _XFetchEventCookie, _XFreeEventCookies, XPutBackEvent,
\* XSync, _XFreeDisplayStructure).
THEOREM DataStayOwned == LifeSpec => []OneOwner
<1>1. LifeInit => EventsHeld
  BY EventInit DEF LifeInit, EventsHeld
<1>2. EventsHeld /\ [LifeNext]_<<cookieVars, lifeVars>> => EventsHeld'
  BY EventsHeldOn
<1>3. EventsHeld => OneOwner
  BY EventsOwned DEF EventsHeld, OneOwner
<1> QED BY <1>1, <1>2, <1>3, PTL DEF LifeSpec

-----------------------------------------------------------------------------
(***************************************************************************)
(* What is left of a Display that is closed.  The steps of XOpenDisplay    *)
(* after the first allocate neither a second Display nor a watcher, and no *)
(* GC but those of the screens.                                            *)
(***************************************************************************)
Named(b) ==
    /\ b[1] = "gc" => \E i \in 1 .. Screens : b = <<"gc", i>>
    /\ b[1] = "watcher" => \E m \in Nat \ {0} : b = <<"watcher", m>>

Parts ==
    {<<"xcb">>, <<"event_notify">>, <<"reply_notify">>, <<"lock_fns">>, <<"lock">>,
     <<"lock", "cv">>, <<"lock", "mutex">>, <<"lock", "writers">>,
     <<"display_name">>, <<"filedes">>, <<"buffer">>, <<"free_funcs">>, <<"vendor">>,
     <<"pixmap_format">>, <<"screens">>, <<"xdefaults">>, <<"xkb_info">>}
    \cup {<<"depths", i>> : i \in 1 .. Screens}
    \cup {<<"visuals", i>> : i \in 1 .. Screens}
    \cup {<<"gc", i>> : i \in 1 .. Screens}

Steps ==
    {s \in [kind : {"needs", "together", "check", "wants"}, blocks : SUBSET Parts] :
        IsFiniteSet(s.blocks)}

LEMMA StepsOf ==
    /\ Check \in Seq(Steps) /\ Len(Check) = 1
    /\ \A b \in Parts : /\ Needs(b) \in Seq(Steps) /\ Len(Needs(b)) = 1
                        /\ Wants(b) \in Seq(Steps)
    /\ \A bs \in SUBSET Parts : IsFiniteSet(bs) => Together(bs) \in Seq(Steps)
<1>1. ASSUME NEW kind \in {"needs", "together", "check", "wants"}, NEW bs \in SUBSET Parts,
             IsFiniteSet(bs)
      PROVE  /\ <<[kind |-> kind, blocks |-> bs]>> \in Seq(Steps)
             /\ Len(<<[kind |-> kind, blocks |-> bs]>>) = 1
  <2> DEFINE s == [kind |-> kind, blocks |-> bs]
  <2>1. s \in Steps
    BY <1>1 DEF Steps
  <2> HIDE DEF s
  <2>2. <<s>> \in Seq(Steps) /\ Len(<<s>>) = 1
    BY <2>1
  <2> QED BY <2>2 DEF s
<1>2. IsFiniteSet({}) /\ \A b \in Parts : IsFiniteSet({b}) /\ {b} \in SUBSET Parts
  BY FS_EmptySet, FS_Singleton
<1>3. Check \in Seq(Steps) /\ Len(Check) = 1
  BY <1>1, <1>2 DEF Check
<1>4. ASSUME NEW b \in Parts
      PROVE  Needs(b) \in Seq(Steps) /\ Len(Needs(b)) = 1 /\ Wants(b) \in Seq(Steps)
  BY <1>1, <1>2 DEF Needs, Wants
<1>5. ASSUME NEW bs \in SUBSET Parts, IsFiniteSet(bs) PROVE Together(bs) \in Seq(Steps)
  BY <1>1, <1>5 DEF Together
<1> QED BY <1>3, <1>4, <1>5

LEMMA PartsNamed == \A b \in Parts : Named(b) /\ b # <<"dpy">>
<1> SUFFICES ASSUME NEW b \in Parts PROVE Named(b) /\ b # <<"dpy">>
  OBVIOUS
<1>1. CASE b \in {<<"gc", i>> : i \in 1 .. Screens}
  BY <1>1 DEF Named
<1>2. CASE b \in {<<"depths", i>> : i \in 1 .. Screens} \cup {<<"visuals", i>> : i \in 1 .. Screens}
  BY <1>2 DEF Named
<1>3. CASE ~(b \in {<<"gc", i>> : i \in 1 .. Screens}
             \/ b \in {<<"depths", i>> : i \in 1 .. Screens}
                      \cup {<<"visuals", i>> : i \in 1 .. Screens})
  BY <1>3 DEF Named, Parts
<1> QED BY <1>1, <1>2, <1>3

LEMMA Joined ==
    ASSUME NEW S, NEW a \in Seq(S), NEW b \in Seq(S)
    PROVE  a \o b \in Seq(S) /\ Len(a \o b) = Len(a) + Len(b)
  OBVIOUS

LEMMA ScreensSteps ==
    ASSUME NEW n \in {1, 5}, NEW of \in [1 .. Screens -> Seq(Steps)],
           \A i \in 1 .. Screens : Len(of[i]) = n
    PROVE  EachScreen(n, of) \in Seq(Steps)
<1>1. n * Screens \in Nat
  BY ScreenCount
<1>2. ASSUME NEW k \in 1 .. n * Screens
      PROVE  of[1 + ((k - 1) \div n)][1 + ((k - 1) % n)] \in Steps
  <2>1. 1 + ((k - 1) \div n) \in 1 .. Screens /\ 1 + ((k - 1) % n) \in 1 .. n
    BY ScreenCount
  <2> QED BY <2>1
<1>3. EachScreen(n, of) \in [1 .. n * Screens -> Steps]
  BY <1>2 DEF EachScreen
<1> QED BY <1>1, <1>3

LEMMA FillDisplaySteps == FillDisplay \in Seq(Steps)
<1> DEFINE S == Seq(Steps)
<1>1. ASSUME NEW a \in S, NEW b \in S PROVE a \o b \in S
  OBVIOUS
<1>2. \A b \in Parts : Needs(b) \in S /\ Len(Needs(b)) = 1 /\ Wants(b) \in S
  BY StepsOf
<1>3. Check \in S /\ Len(Check) = 1
  BY StepsOf
<1>4. _XConnectXCB \in S
  <2>1. /\ {<<"event_notify">>, <<"reply_notify">>} \in SUBSET Parts
        /\ <<"xcb">> \in Parts
    BY DEF Parts
  <2>2. {<<"event_notify">>, <<"reply_notify">>} = {<<"event_notify">>} \cup {<<"reply_notify">>}
    OBVIOUS
  <2>3. IsFiniteSet({<<"event_notify">>} \cup {<<"reply_notify">>})
    BY FS_Singleton, FS_Union
  <2>4. Together({<<"event_notify">>, <<"reply_notify">>}) \in S
    BY <2>1, <2>2, <2>3, StepsOf
  <2>5. Needs(<<"xcb">>) \in S
    BY <1>2, <2>1
  <2> HIDE DEF S
  <2> QED BY <1>1, <1>3, <2>4, <2>5 DEF _XConnectXCB
<1>5. _XInitDisplayLock \in S
  <2>1. /\ {<<"lock", "cv">>, <<"lock", "mutex">>, <<"lock", "writers">>} \in SUBSET Parts
        /\ <<"lock_fns">> \in Parts /\ <<"lock">> \in Parts
    BY DEF Parts
  <2>2. {<<"lock", "cv">>, <<"lock", "mutex">>, <<"lock", "writers">>}
            = {<<"lock", "cv">>} \cup ({<<"lock", "mutex">>} \cup {<<"lock", "writers">>})
    OBVIOUS
  <2>3. IsFiniteSet({<<"lock", "cv">>} \cup ({<<"lock", "mutex">>} \cup {<<"lock", "writers">>}))
    BY FS_Singleton, FS_Union
  <2>4. Together({<<"lock", "cv">>, <<"lock", "mutex">>, <<"lock", "writers">>}) \in S
    BY <2>1, <2>2, <2>3, StepsOf
  <2>5. Needs(<<"lock_fns">>) \in S /\ Needs(<<"lock">>) \in S
    BY <1>2, <2>1
  <2> HIDE DEF S
  <2> QED BY <1>1, <2>4, <2>5 DEF _XInitDisplayLock
<1>6. EachScreen(5, [i \in 1 .. Screens |-> Screen(i)]) \in S
  <2>1. ASSUME NEW i \in 1 .. Screens PROVE Screen(i) \in S /\ Len(Screen(i)) = 5
    <3> DEFINE d == Needs(<<"depths", i>>)
               v == Needs(<<"visuals", i>>)
               c == Check
               e == (c \o d) \o c
    <3>1. <<"depths", i>> \in Parts /\ <<"visuals", i>> \in Parts
      BY DEF Parts
    <3>2. d \in S /\ v \in S /\ c \in S /\ Len(d) = 1 /\ Len(v) = 1 /\ Len(c) = 1
      BY <3>1, <1>2, <1>3
    <3>3. Screen(i) = (e \o v) \o c
      BY DEF Screen
    <3> HIDE DEF d, v, c
    <3>4. c \o d \in S /\ Len(c \o d) = Len(c) + Len(d)
      BY <3>2, Joined
    <3>5. e \in S /\ Len(e) = Len(c \o d) + Len(c)
      BY <3>2, <3>4, Joined
    <3> HIDE DEF e
    <3>6. e \o v \in S /\ Len(e \o v) = Len(e) + Len(v)
      BY <3>2, <3>5, Joined
    <3>7. (e \o v) \o c \in S /\ Len((e \o v) \o c) = Len(e \o v) + Len(c)
      BY <3>2, <3>6, Joined
    <3>8. Len((e \o v) \o c) = 5
      BY <3>2, <3>4, <3>5, <3>6, <3>7
    <3> QED BY <3>3, <3>7, <3>8
  <2> QED BY <2>1, ScreensSteps
<1>7. EachScreen(1, [i \in 1 .. Screens |-> Needs(<<"gc", i>>)]) \in S
  <2>1. \A i \in 1 .. Screens : <<"gc", i>> \in Parts
    BY DEF Parts
  <2>2. \A i \in 1 .. Screens : Needs(<<"gc", i>>) \in S /\ Len(Needs(<<"gc", i>>)) = 1
    BY <1>2, <2>1
  <2> QED BY <2>2, ScreensSteps
<1>8. /\ \A s \in {"display_name", "filedes", "buffer", "free_funcs", "vendor", "pixmap_format",
                   "screens"} : Needs(<<s>>) \in S
      /\ \A s \in {"xdefaults", "xkb_info"} : Wants(<<s>>) \in S
  <2>1. \A s \in {"display_name", "filedes", "buffer", "free_funcs", "vendor", "pixmap_format",
                 "screens", "xdefaults", "xkb_info"} : <<s>> \in Parts
    BY DEF Parts
  <2> QED BY <1>2, <2>1
<1> HIDE DEF S
<1> DEFINE a == Needs(<<"display_name">>) \o _XConnectXCB \o _XInitDisplayLock
                \o Needs(<<"filedes">>) \o Needs(<<"buffer">>) \o Needs(<<"free_funcs">>)
           b == a \o Check \o Needs(<<"vendor">>) \o Check \o Needs(<<"pixmap_format">>) \o Check
                \o Needs(<<"screens">>)
           c == b \o EachScreen(5, [i \in 1 .. Screens |-> Screen(i)]) \o Check
                \o EachScreen(1, [i \in 1 .. Screens |-> Needs(<<"gc", i>>)])
<1>9. a \in S
  BY <1>1, <1>4, <1>5, <1>8
<1>10. b \in S
  <2> HIDE DEF a
  <2> QED BY <1>1, <1>3, <1>8, <1>9
<1>11. c \in S
  <2> HIDE DEF b
  <2> QED BY <1>1, <1>3, <1>6, <1>7, <1>10
<1>12. FillDisplay = c \o Wants(<<"xdefaults">>) \o Wants(<<"xkb_info">>)
  BY DEF FillDisplay
<1> HIDE DEF c
<1>13. FillDisplay \in S
  BY <1>1, <1>8, <1>11, <1>12
<1> QED BY <1>13 DEF S

\* The first step allocates the Display itself.
LEMMA OpenSteps ==
    /\ Len(XOpenDisplay) \in Nat \ {0}
    /\ XOpenDisplay[1].blocks = {<<"dpy">>}
    /\ \A k \in 2 .. Len(XOpenDisplay) : XOpenDisplay[k] \in Steps
<1> DEFINE a == Needs(<<"dpy">>)
           b == FillDisplay
<1>1. Len(a) = 1 /\ a[1].blocks = {<<"dpy">>} /\ a \in Seq({a[1]})
  BY DEF Needs
<1>2. b \in Seq(Steps)
  BY FillDisplaySteps
<1>3. XOpenDisplay = a \o b
  BY DEF XOpenDisplay
<1> HIDE DEF a, b
<1>4. Len(a \o b) = 1 + Len(b) /\ (a \o b)[1] = a[1] /\ \A k \in 2 .. 1 + Len(b) : (a \o b)[k] = b[k - 1]
  <2>1. Len(b) \in Nat /\ Len(a) = 1
    BY <1>1, <1>2
  <2>2. /\ Len(a \o b) = Len(a) + Len(b)
        /\ \A k \in 1 .. Len(a) + Len(b) :
              (a \o b)[k] = IF k <= Len(a) THEN a[k] ELSE b[k - Len(a)]
    <3>1. a \in Seq({a[1]} \cup Steps) /\ b \in Seq({a[1]} \cup Steps)
      BY <1>1, <1>2
    <3> QED BY <3>1
  <2>3. \A k \in 1 .. 1 + Len(b) : (a \o b)[k] = IF k <= 1 THEN a[k] ELSE b[k - 1]
    BY <2>1, <2>2
  <2>4. (a \o b)[1] = a[1]
    BY <2>1, <2>3
  <2>5. \A k \in 2 .. 1 + Len(b) : k \in 1 .. 1 + Len(b) /\ ~(k <= 1)
    BY <2>1
  <2>6. \A k \in 2 .. 1 + Len(b) : (a \o b)[k] = b[k - 1]
    BY <2>3, <2>5
  <2> QED BY <2>1, <2>2, <2>4, <2>6
<1>5. Len(b) \in Nat /\ \A k \in 2 .. 1 + Len(b) : k - 1 \in 1 .. Len(b)
  BY <1>2
<1> QED BY <1>1, <1>2, <1>3, <1>4, <1>5

(***************************************************************************)
(* Where the events and the blocks may be, by the phase of the Display.    *)
(***************************************************************************)
\* While it is not open no thread has data, and events are in the queue only if
\* they came while an extension's close_display waited.
PhaseInv ==
    /\ hook \in Nat
    /\ phase \in {"closed", "opening", "closing"} =>
          /\ \A t \in Apps : hand[t].data = NULL
          /\ hook = 0 => queue = <<>>
    /\ phase \in {"closed", "opening"} => qfree = <<>> /\ cookiejar = <<>>

\* What _XFreeDisplayStructure does not free
Left(b) ==
    \/ b[1] = "gc" /\ opened < Len(XOpenDisplay)
    \/ b[1] = "watcher" /\ b[2] > 1

HeapInv ==
    /\ opened \in Nat
    /\ opened = 0 => heap = {} /\ phase \in {"closed", "opening"}
    /\ IsFiniteSet(heap) /\ \A b \in heap : Named(b)
    /\ phase = "opening" => opened < Len(XOpenDisplay)
    /\ phase = "closing" => \A b \in heap : b[1] # "gc"
    /\ phase = "closed" => \A b \in heap : Left(b)

LEMMA LeavesBehind == EventsHeld /\ PhaseInv /\ HeapInv => LeftBehind
<1>a. ASSUME PhaseInv, HeapInv, phase = "closed"
      PROVE  (\A b \in heap : Left(b)) /\ (queue # <<>> => hook > 0)
  BY <1>a DEF PhaseInv, HeapInv
<1> SUFFICES ASSUME EventInv, PhaseInv, phase = "closed"
             PROVE  ~misused /\ live = overwritten \cup Pointers(queue)
  BY <1>a DEF LeftBehind, Left, EventsHeld
<1>1. AlwaysOwned
  BY EventsOwned
<1>2. qfree = <<>> /\ cookiejar = <<>> /\ \A t \in Apps : hand[t].data = NULL
  BY DEF PhaseInv
<1>3. Freelist = {}
  BY <1>2 DEF Freelist, ToSet
<1>4. Pointers(cookiejar) = {}
  BY <1>2 DEF Pointers, Data, ToSet
<1>5. Claimed = {}
  BY <1>2 DEF Claimed
<1>6. live = Pointers(queue) \cup Pointers(cookiejar) \cup Claimed \cup Freelist \cup overwritten
  BY <1>1, OwnedUnion DEF AlwaysOwned
<1>7. live = overwritten \cup Pointers(queue)
  BY <1>3, <1>4, <1>5, <1>6
<1> QED BY <1>1, <1>7 DEF AlwaysOwned

LEMMA PhaseKept == PhaseInv /\ [LifeNext]_<<cookieVars, lifeVars>> => PhaseInv'
<1> SUFFICES ASSUME PhaseInv, [LifeNext]_<<cookieVars, lifeVars>> PROVE PhaseInv'
  OBVIOUS
<1> USE DEF PhaseInv
<1>1. CASE Open
  BY <1>1 DEF Open, cookieVars
<1>2. CASE OpenStep \/ OpenWithout
  BY <1>2 DEF OpenStep, OpenWithout, cookieVars
<1>3. CASE OpenFailed
  BY <1>3 DEF OpenFailed, Crash, cookieVars, _XFreeDisplayStructure
<1>4. CASE Events
  BY <1>4 DEF Events, Using, lifeVars
<1>5. CASE XInitExtension \/ XAddExtension \/ XESetCloseDisplay
  BY <1>5 DEF XInitExtension, XAddExtension, XESetCloseDisplay, Adds, Using, cookieVars
<1>6. CASE XESetWireToError \/ XAddToExtensionList \/ _XAllocScratch \/ MakeTable
  BY <1>6 DEF XESetWireToError, XAddToExtensionList, _XAllocScratch, MakeTable, Adds, Using, Crash,
              cookieVars
<1>7. CASE XAddConnectionWatch \/ _XRegisterInternalConnection
  BY <1>7 DEF XAddConnectionWatch, _XRegisterInternalConnection, Adds, Using, cookieVars
<1>8. CASE XCloseDisplay
  BY <1>8 DEF XCloseDisplay
<1>9. CASE CallHook
  <2>1. hand' = hand /\ hook' = hook + 1 /\ phase' = "closing" /\ phase = "closing"
    BY <1>9 DEF CallHook, cookieVars, _XEnq
  <2> QED BY <2>1
<1>10. CASE CloseEnd
  BY <1>10 DEF CloseEnd, _XFreeDisplayStructure
<1>11. CASE UNCHANGED <<cookieVars, lifeVars>>
  BY <1>11 DEF cookieVars, lifeVars
<1> QED BY <1>1, <1>2, <1>3, <1>4, <1>5, <1>6, <1>7, <1>8, <1>9, <1>10, <1>11 DEF LifeNext

\* What is allocated while the Display is open.
LEMMA AddsNamed ==
    ASSUME HeapInv, phase = "open", NEW blocks, Adds(blocks), IsFiniteSet(blocks),
           \A b \in blocks : Named(b)
    PROVE  HeapInv'
<1>1. heap' = heap \cup blocks /\ phase' = "open" /\ opened' = opened
  BY DEF Adds
<1>2. IsFiniteSet(heap') /\ \A b \in heap' : Named(b)
  BY <1>1, FS_Union DEF HeapInv
<1> QED BY <1>1, <1>2 DEF HeapInv

LEMMA OtherNames ==
    /\ \A s : s \notin {"gc", "watcher"} => Named(<<s>>) /\ \A v : Named(<<s, v>>)
    /\ \A m \in Nat : Named(<<"watcher", m + 1>>)
<1>1. ASSUME NEW s, s \notin {"gc", "watcher"} PROVE Named(<<s>>) /\ \A v : Named(<<s, v>>)
  BY <1>1 DEF Named
<1>2. ASSUME NEW m \in Nat PROVE Named(<<"watcher", m + 1>>)
  <2>1. m + 1 \in Nat \ {0}
    OBVIOUS
  <2> QED BY <2>1 DEF Named
<1> QED BY <1>1, <1>2

LEMMA MoreBlocks ==
    ASSUME HeapInv,
           \/ XInitExtension \/ XAddExtension \/ XESetCloseDisplay
           \/ XESetWireToError \/ XAddToExtensionList \/ _XAllocScratch \/ MakeTable
           \/ XAddConnectionWatch \/ _XRegisterInternalConnection
    PROVE  HeapInv'
<1>1. CASE XInitExtension
  <2> DEFINE e == Extension(Len(hooks) + 1)
             m == <<"name", Len(hooks) + 1>>
  <2>1. phase = "open" /\ Adds({e, m}) /\ {e, m} = {e} \cup {m}
    BY <1>1 DEF XInitExtension, Using
  <2>2. Named(e) /\ Named(m)
    BY OtherNames DEF Extension
  <2> HIDE DEF e, m
  <2>3. IsFiniteSet({e} \cup {m})
    BY FS_Singleton, FS_Union
  <2> QED BY <2>1, <2>2, <2>3, AddsNamed
<1>2. CASE XAddExtension
  <2> DEFINE e == Extension(Len(hooks) + 1)
  <2>1. phase = "open" /\ Adds({e})
    BY <1>2 DEF XAddExtension, Using
  <2>2. Named(e)
    BY OtherNames DEF Extension
  <2> HIDE DEF e
  <2> QED BY <2>1, <2>2, FS_Singleton, AddsNamed
<1>3. CASE XESetCloseDisplay
  BY <1>3, FS_EmptySet, AddsNamed DEF XESetCloseDisplay, Using
<1>4. CASE XESetWireToError
  <2>1. CASE Adds({<<"error_vec">>})
    <3>1. Named(<<"error_vec">>) /\ phase = "open"
      BY <1>4, OtherNames DEF XESetWireToError, Using
    <3> QED BY <2>1, <3>1, FS_Singleton, AddsNamed
  <2>2. CASE ~Adds({<<"error_vec">>})
    BY <1>4, <2>2 DEF XESetWireToError, Using, Crash, HeapInv
  <2> QED BY <2>1, <2>2
<1>5. CASE XAddToExtensionList
  <2>1. PICK owner : Adds({<<"ext_data", owner>>})
    BY <1>5 DEF XAddToExtensionList
  <2>2. Named(<<"ext_data", owner>>) /\ phase = "open"
    BY <1>5, OtherNames DEF XAddToExtensionList, Using
  <2> QED BY <2>1, <2>2, FS_Singleton, AddsNamed
<1>6. CASE _XAllocScratch
  <2>1. /\ heap' \in SUBSET (heap \cup {<<"scratch_buffer">>})
        /\ phase = "open" /\ phase' = "open" /\ opened' = opened
    BY <1>6 DEF _XAllocScratch, Using
  <2>2. IsFiniteSet(heap \cup {<<"scratch_buffer">>})
    BY FS_Singleton, FS_Union DEF HeapInv
  <2>3. IsFiniteSet(heap')
    BY <2>1, <2>2, FS_Subset
  <2>4. Named(<<"scratch_buffer">>)
    BY OtherNames
  <2> QED BY <2>1, <2>3, <2>4 DEF HeapInv
<1>7. CASE MakeTable
  <2>1. PICK table \in Lazy : Adds({<<table>>})
    BY <1>7 DEF MakeTable
  <2>2. Named(<<table>>) /\ phase = "open"
    BY <1>7, OtherNames DEF MakeTable, Using, Lazy
  <2> QED BY <2>1, <2>2, FS_Singleton, AddsNamed
<1>8. CASE XAddConnectionWatch
  <2>1. phase = "open" /\ Adds({<<"watcher", Cardinality(Watchers) + 1>>})
    BY <1>8 DEF XAddConnectionWatch, Using
  <2>2. IsFiniteSet(Watchers)
    BY FS_Subset DEF HeapInv, Watchers
  <2>3. Cardinality(Watchers) \in Nat
    BY <2>2, FS_CardinalityType
  <2>4. Named(<<"watcher", Cardinality(Watchers) + 1>>)
    BY <2>3, OtherNames
  <2> QED BY <2>1, <2>4, FS_Singleton, AddsNamed
<1>9. CASE _XRegisterInternalConnection
  <2>1. phase = "open" /\ Adds({<<"im_fd_info">>, <<"watch_data">>})
    BY <1>9 DEF _XRegisterInternalConnection, Using
  <2>2. Named(<<"im_fd_info">>) /\ Named(<<"watch_data">>)
    BY OtherNames
  <2>3. IsFiniteSet({<<"im_fd_info">>} \cup {<<"watch_data">>})
    BY FS_Singleton, FS_Union
  <2>4. IsFiniteSet({<<"im_fd_info">>, <<"watch_data">>})
    <3>1. {<<"im_fd_info">>, <<"watch_data">>} = {<<"im_fd_info">>} \cup {<<"watch_data">>}
      OBVIOUS
    <3> QED BY <2>3, <3>1
  <2> QED BY <2>1, <2>2, <2>4, AddsNamed
<1> QED BY <1>1, <1>2, <1>3, <1>4, <1>5, <1>6, <1>7, <1>8, <1>9

\* The k-th step of XOpenDisplay allocates what is named.
LEMMA StepNamed ==
    ASSUME NEW k \in 1 .. Len(XOpenDisplay), NEW b \in XOpenDisplay[k].blocks
    PROVE  Named(b)
<1>1. CASE k = 1
  BY <1>1, OpenSteps, OtherNames
<1>2. CASE k # 1
  <2>1. k \in 2 .. Len(XOpenDisplay)
    BY <1>2, OpenSteps
  <2>2. b \in Parts
    BY <2>1, OpenSteps DEF Steps
  <2> QED BY <2>2, PartsNamed
<1> QED BY <1>1, <1>2

LEMMA StepFinite ==
    ASSUME NEW k \in 1 .. Len(XOpenDisplay)
    PROVE  IsFiniteSet(XOpenDisplay[k].blocks)
<1>1. CASE k = 1
  <2>1. IsFiniteSet({<<"dpy">>})
    BY FS_Singleton
  <2> QED BY <1>1, <2>1, OpenSteps
<1>2. CASE k # 1
  <2>1. k \in 2 .. Len(XOpenDisplay)
    BY <1>2, OpenSteps
  <2> QED BY <2>1, OpenSteps DEF Steps
<1> QED BY <1>1, <1>2

\* OpenStep, OpenWithout
LEMMA OpenStepHeap ==
    ASSUME HeapInv, OpenStep \/ OpenWithout
    PROVE  HeapInv'
<1> DEFINE n == Len(XOpenDisplay)
<1>1. /\ opened \in Nat /\ n \in Nat /\ opened < n /\ opened' = opened + 1 /\ phase = "opening"
      /\ phase' = IF opened' = n THEN "open" ELSE phase
      /\ heap' = heap \/ heap' = heap \cup XOpenDisplay[opened'].blocks
  BY OpenSteps DEF HeapInv, OpenStep, OpenWithout
<1>2. opened' \in 1 .. n /\ opened' # 0 /\ opened' \in Nat
  BY <1>1
<1>3. phase' = "opening" => opened' < n
  BY <1>1, <1>2
<1>4. IsFiniteSet(heap') /\ \A b \in heap' : Named(b)
  <2>1. IsFiniteSet(XOpenDisplay[opened'].blocks) /\ \A b \in XOpenDisplay[opened'].blocks : Named(b)
    BY <1>2, StepFinite, StepNamed
  <2> DEFINE bs == XOpenDisplay[opened'].blocks
  <2> HIDE DEF bs
  <2>2. IsFiniteSet(heap \cup bs)
    BY <2>1, FS_Union DEF HeapInv, bs
  <2> QED BY <1>1, <2>1, <2>2 DEF HeapInv, bs
<1>5. phase' \in {"open", "opening"}
  BY <1>1
<1> HIDE DEF n
<1> QED BY <1>2, <1>3, <1>4, <1>5 DEF HeapInv, n

\* Until the Display is there is nothing else.
LEMMA OpenFailedHeap ==
    ASSUME HeapInv, OpenFailed
    PROVE  HeapInv'
<1> DEFINE step == XOpenDisplay[opened + 1]
           n == Len(XOpenDisplay)
<1>1. phase = "opening" /\ opened \in Nat /\ n \in Nat /\ opened < n /\ opened' = opened
  BY OpenSteps DEF HeapInv, OpenFailed
<1>2. opened + 1 \in 1 .. n
  BY <1>1
<1>3. CASE phase' = "crashed" /\ heap' = heap
  <2>1. opened # 0
    <3>1. ASSUME opened = 0 PROVE FALSE
      <4>1. step.blocks = {<<"dpy">>}
        BY <3>1, OpenSteps
      <4>2. phase' = "closed"
        BY <4>1 DEF OpenFailed
      <4> QED BY <4>2, <1>3
    <3> QED BY <3>1
  <2> QED BY <1>1, <1>3, <2>1 DEF HeapInv
<1>4. CASE phase' = "closed" /\ step.blocks = {<<"dpy">>} /\ heap' = heap
  <2>1. opened = 0
    <3>1. ASSUME opened # 0 PROVE FALSE
      <4>1. opened + 1 \in 2 .. n
        BY <1>1, <3>1
      <4>2. <<"dpy">> \in Parts
        BY <4>1, <1>4, OpenSteps DEF Steps
      <4> QED BY <4>2, PartsNamed
    <3> QED BY <3>1
  <2> QED BY <1>1, <1>4, <2>1 DEF HeapInv
<1>5. CASE /\ phase' = "closed" /\ <<"xcb">> \in heap
           /\ \E got \in SUBSET step.blocks : heap' = (heap \cup got) \ FreedOf(heap \cup got)
  <2>1. PICK got \in SUBSET step.blocks : heap' = (heap \cup got) \ FreedOf(heap \cup got)
    BY <1>5
  <2>2. IsFiniteSet(step.blocks) /\ \A b \in step.blocks : Named(b)
    BY <1>2, StepFinite, StepNamed
  <2> HIDE DEF step
  <2>3. IsFiniteSet(heap \cup step.blocks)
    BY <2>2, FS_Union DEF HeapInv
  <2>4. IsFiniteSet(heap')
    BY <2>1, <2>3, FS_Subset
  <2>5. ASSUME NEW b \in heap' PROVE Named(b) /\ (b[1] = "gc" \/ (b[1] = "watcher" /\ b[2] > 1))
    <3>1. Named(b) /\ (b[1] = "gc" \/ (b[1] = "watcher" /\ b # <<"watcher", 1>>))
      BY <2>1, <2>2 DEF FreedOf, HeapInv
    <3>2. ASSUME b[1] = "watcher", b # <<"watcher", 1>> PROVE b[2] > 1
      BY <3>1, <3>2 DEF Named
    <3> QED BY <3>1, <3>2
  <2>6. \A b \in heap' : Left(b)'
    BY <1>1, <2>5 DEF Left
  <2>7. opened # 0
    BY <1>5 DEF HeapInv
  <2> QED BY <1>1, <1>5, <2>4, <2>5, <2>6, <2>7 DEF HeapInv
<1>6. \/ phase' = "crashed" /\ heap' = heap
      \/ phase' = "closed" /\ step.blocks = {<<"dpy">>} /\ heap' = heap
      \/ /\ phase' = "closed" /\ <<"xcb">> \in heap
         /\ \E got \in SUBSET step.blocks : heap' = (heap \cup got) \ FreedOf(heap \cup got)
  BY DEF OpenFailed, Crash, _XFreeDisplayStructure
<1> QED BY <1>3, <1>4, <1>5, <1>6

LEMMA HeapKept == HeapInv /\ [LifeNext]_<<cookieVars, lifeVars>> => HeapInv'
<1> SUFFICES ASSUME HeapInv, [LifeNext]_<<cookieVars, lifeVars>> PROVE HeapInv'
  OBVIOUS
<1>1. CASE Open
  BY <1>1, OpenSteps DEF Open, HeapInv
<1>2. CASE OpenStep \/ OpenWithout
  BY <1>2, OpenStepHeap
<1>3. CASE OpenFailed
  BY <1>3, OpenFailedHeap
<1>4. CASE Events
  BY <1>4 DEF Events, Using, lifeVars, HeapInv
<1>5. CASE \/ XInitExtension \/ XAddExtension \/ XESetCloseDisplay
           \/ XESetWireToError \/ XAddToExtensionList \/ _XAllocScratch \/ MakeTable
           \/ XAddConnectionWatch \/ _XRegisterInternalConnection
  BY <1>5, MoreBlocks
<1>6. CASE XCloseDisplay
  <2>1. /\ phase = "open" /\ phase' = "closing" /\ opened' = opened
        /\ heap' = heap \ {<<"gc", i>> : i \in 1 .. Screens}
    BY <1>6 DEF XCloseDisplay
  <2>2. IsFiniteSet(heap')
    BY <2>1, FS_Subset DEF HeapInv
  <2>3. \A b \in heap' : Named(b) /\ b[1] # "gc"
    BY <2>1 DEF HeapInv, Named
  <2> QED BY <2>1, <2>2, <2>3 DEF HeapInv
<1>7. CASE CallHook
  BY <1>7 DEF CallHook, HeapInv
<1>8. CASE CloseEnd
  <2>1. /\ phase = "closing" /\ phase' = "closed" /\ opened' = opened
        /\ heap' = heap \ FreedOf(heap)
    BY <1>8 DEF CloseEnd, _XFreeDisplayStructure
  <2>2. IsFiniteSet(heap') /\ heap' \subseteq heap
    BY <2>1, FS_Subset DEF HeapInv
  <2>3. ASSUME NEW b \in heap' PROVE Named(b) /\ Left(b)'
    <3>1. Named(b) /\ b[1] # "gc" /\ (b[1] = "gc" \/ (b[1] = "watcher" /\ b # <<"watcher", 1>>))
      BY <2>1 DEF FreedOf, HeapInv
    <3>2. b[2] > 1
      BY <3>1 DEF Named
    <3> QED BY <3>1, <3>2 DEF Left
  <2> QED BY <2>1, <2>2, <2>3 DEF HeapInv
<1>9. CASE UNCHANGED <<cookieVars, lifeVars>>
  BY <1>9 DEF lifeVars, HeapInv, Left
<1> QED BY <1>1, <1>2, <1>3, <1>4, <1>5, <1>6, <1>7, <1>8, <1>9 DEF LifeNext

\* Wherever opening fails and however a Display that was open is closed, all is
\* freed, and nothing twice, but for the GCs of an opening that failed, the
\* watchers after the first, the events that came while an extension waited,
\* and the data whose element was used again (_XFreeDisplayStructure,
\* OutOfMemory, XCloseDisplay).
THEOREM ClosedLeavesOnly == LifeSpec => []LeftBehind
<1>1. LifeInit => EventsHeld /\ PhaseInv /\ HeapInv
  <2>1. LifeInit => EventsHeld
    BY EventInit DEF LifeInit, EventsHeld
  <2>2. LifeInit => PhaseInv
    BY DEF LifeInit, CookieInit, PhaseInv, NoEvent, Event
  <2>3. LifeInit => HeapInv
    BY FS_EmptySet DEF LifeInit, HeapInv
  <2> QED BY <2>1, <2>2, <2>3
<1>2. EventsHeld /\ PhaseInv /\ HeapInv /\ [LifeNext]_<<cookieVars, lifeVars>>
          => (EventsHeld /\ PhaseInv /\ HeapInv)'
  BY EventsHeldOn, PhaseKept, HeapKept
<1>3. EventsHeld /\ PhaseInv /\ HeapInv => LeftBehind
  BY LeavesBehind
<1> QED BY <1>1, <1>2, <1>3, PTL DEF LifeSpec
=============================================================================
