--------------------------- MODULE ItemPoolProofs ---------------------------
(***************************************************************************)
(* What the pointers of IntrusiveList mean, for any items and lists: the   *)
(* links of a heap make rings (Ring, Holds), a range-for walks one of them *)
(* and every method inserts or removes one item of one sequence.  From     *)
(* there Pool, EncoderService's lists and a user of the class, for any     *)
(* kInitialPoolSize: the rings stay rings through every loop, no item has  *)
(* two owners, and every step is one of ItemLists.                         *)
(***************************************************************************)
EXTENDS ItemPool, SequenceTheorems, FiniteSetTheorems,
        WellFoundedInduction, TLAPS

(* The k-th node of the ring: the sentinel is both before the first item   *)
(* and behind the last.                                                    *)
NodeAt(l, s, k) == IF k \in 1 .. Len(s) THEN s[k] ELSE l

NoRepeats(s) == \A i, j \in 1 .. Len(s) : s[i] = s[j] => i = j

Linked(h, l, s) ==
  \A k \in 0 .. Len(s) :
    /\ h.next[NodeAt(l, s, k)] = NodeAt(l, s, k + 1)
    /\ h.prev[NodeAt(l, s, k + 1)] = NodeAt(l, s, k)

Ring(h, l, s) == s \in Seq(Items) /\ NoRepeats(s) /\ Linked(h, l, s)

Without(s, k) ==
  [i \in 1 .. Len(s) - 1 |-> IF i < k THEN s[i] ELSE s[i + 1]]

With(s, k, x) ==
  [i \in 1 .. Len(s) + 1 |-> IF i < k THEN s[i]
                             ELSE IF i = k THEN x ELSE s[i - 1]]

-----------------------------------------------------------------------------
(* Rings.                                                                  *)

(* The nodes of a ring are distinct, but for the sentinel at both ends.    *)
LEMMA NodesAreDistinct ==
  ASSUME NEW l \in Lists, NEW s \in Seq(Items), NoRepeats(s)
  PROVE  /\ Len(s) \in Nat
         /\ NodeAt(l, s, 0) = l /\ NodeAt(l, s, Len(s) + 1) = l
         /\ \A k \in 1 .. Len(s) : NodeAt(l, s, k) = s[k] /\ s[k] \in Items
         /\ \A k \in 0 .. Len(s) + 1 : NodeAt(l, s, k) \in Nodes
         /\ \A i, j \in 0 .. Len(s) :
              NodeAt(l, s, i) = NodeAt(l, s, j) => i = j
         /\ \A i, j \in 1 .. Len(s) + 1 :
              NodeAt(l, s, i) = NodeAt(l, s, j) => i = j
<1>1. Len(s) \in Nat /\ \A k \in 1 .. Len(s) : s[k] \in Items /\ s[k] # l
  BY NodesAssumption
<1>2. NodeAt(l, s, 0) = l /\ NodeAt(l, s, Len(s) + 1) = l
  BY <1>1 DEF NodeAt
<1>3. \A k \in 1 .. Len(s) : NodeAt(l, s, k) = s[k] BY DEF NodeAt
<1>4. \A k \in 0 .. Len(s) + 1 : NodeAt(l, s, k) \in Nodes
  BY <1>1 DEF NodeAt, Nodes
<1>5. ASSUME NEW i \in 0 .. Len(s), NEW j \in 0 .. Len(s),
             NodeAt(l, s, i) = NodeAt(l, s, j)
      PROVE  i = j
  <2>1. CASE i = 0 \/ j = 0 BY <1>1, <1>2, <1>3, <1>5, <2>1
  <2>2. CASE i \in 1 .. Len(s) /\ j \in 1 .. Len(s)
    BY <1>3, <1>5, <2>2 DEF NoRepeats
  <2> QED BY <1>1, <2>1, <2>2
<1>6. ASSUME NEW i \in 1 .. Len(s) + 1, NEW j \in 1 .. Len(s) + 1,
             NodeAt(l, s, i) = NodeAt(l, s, j)
      PROVE  i = j
  <2>1. CASE i = Len(s) + 1 \/ j = Len(s) + 1
    BY <1>1, <1>2, <1>3, <1>6, <2>1
  <2>2. CASE i \in 1 .. Len(s) /\ j \in 1 .. Len(s)
    BY <1>3, <1>6, <2>2 DEF NoRepeats
  <2> QED BY <1>1, <2>1, <2>2
<1> QED BY <1>1, <1>2, <1>3, <1>4, <1>5, <1>6

(* A sequence without repetitions is shorter than the number of nodes.     *)
LEMMA RingIsShort ==
  ASSUME NEW l \in Lists, NEW s \in Seq(Items), NoRepeats(s)
  PROVE  Cardinality(Nodes) \in Nat /\ Len(s) < Cardinality(Nodes)
<1>1. IsFiniteSet(Items) /\ IsFiniteSet(Nodes)
  BY NodesAssumption, FS_Union DEF Nodes
<1>2. Cardinality(Items) \in Nat /\ Cardinality(Nodes) \in Nat
  BY <1>1, FS_CardinalityType
<1>3. Items \subseteq Nodes /\ Items # Nodes
  BY NodesAssumption DEF Nodes
<1>4. Cardinality(Items) < Cardinality(Nodes)
  BY <1>1, <1>2, <1>3, FS_Subset
<1>5. Len(s) \in Nat /\ s \in [1 .. Len(s) -> Items] OBVIOUS
<1>6. IsFiniteSet(1 .. Len(s)) /\ Cardinality(1 .. Len(s)) = Len(s)
  <2> DEFINE n == Len(s)
  <2>1. n \in Nat BY <1>5
  <2> HIDE DEF n
  <2>2. IsFiniteSet(1 .. n) /\ Cardinality(1 .. n) = n
    BY <2>1, FS_Interval
  <2> QED BY <2>2 DEF n
<1>7. s \in Injection(1 .. Len(s), Items)
  <2>1. DOMAIN s = 1 .. Len(s) BY <1>5
  <2>2. \A a, b \in DOMAIN s : s[a] = s[b] => a = b
    BY <2>1 DEF NoRepeats
  <2>3. IsInjective(s) BY <2>2 DEF IsInjective
  <2> QED BY <1>5, <2>3 DEF Injection
<1>8. Len(s) <= Cardinality(Items)
  BY <1>1, <1>6, <1>7, FS_Injection
<1> QED BY <1>2, <1>4, <1>5, <1>8

(* Every non-empty set of naturals has a least member, which Min returns.  *)
LEMMA MinIsLeast ==
  ASSUME NEW S, S \subseteq Nat, S # {}
  PROVE  Min(S) \in S /\ \A y \in S : Min(S) <= y
<1>1. PICK x \in S : \A y \in S : ~(<<y, x>> \in OpToRel(<, Nat))
  BY WFMin, NatLessThanWellFounded
<1>2. ASSUME NEW y \in S PROVE x <= y
  <2>1. ~(y < x) BY <1>1 DEF OpToRel
  <2> QED BY <2>1
<1> QED BY <1>2 DEF Min

-----------------------------------------------------------------------------
(* What a range-for sees.                                                  *)

(* operator++ from n, n times from the sentinel on.                        *)
After(h, n) == IF n = Null THEN Null ELSE h.next[n]

IsWalk(h, l, n, g) ==
  g = [k \in 1 .. n |-> IF k = 1 THEN h.next[l] ELSE After(h, g[k - 1])]

(* A walk of any length exists: the least length without one is none.      *)
LEMMA WalkExists ==
  ASSUME NEW h, NEW l
  PROVE  \A n \in Nat : \E g : IsWalk(h, l, n, g)
<1> DEFINE Bad == {n \in Nat : ~\E g : IsWalk(h, l, n, g)}
<1> SUFFICES ASSUME Bad # {} PROVE FALSE OBVIOUS
<1>1. Min(Bad) \in Bad /\ \A y \in Bad : Min(Bad) <= y BY MinIsLeast
<1> DEFINE n == Min(Bad)
<1>2. n \in Nat /\ (~\E g : IsWalk(h, l, n, g)) /\ \A y \in Bad : n <= y
  BY <1>1
<1> HIDE DEF n
<1>3. CASE n = 0
  <2>1. IsWalk(h, l, 0, [k \in 1 .. 0 |-> Null]) BY DEF IsWalk
  <2> QED BY <1>2, <1>3, <2>1
<1>4. CASE n # 0
  <2>1. n - 1 \in Nat /\ n - 1 \notin Bad BY <1>2, <1>4
  <2>2. PICK g : IsWalk(h, l, n - 1, g) BY <2>1
  <2> DEFINE e == [k \in 1 .. n |->
                     IF k = n
                     THEN IF n = 1 THEN h.next[l] ELSE After(h, g[n - 1])
                     ELSE g[k]]
  <2>3. ASSUME NEW k \in 1 .. n
        PROVE  e[k] = IF k = 1 THEN h.next[l] ELSE After(h, e[k - 1])
    <3>1. CASE k = n
      <4>1. n # 1 => e[n - 1] = g[n - 1] BY <1>2, <1>4
      <4> QED BY <1>2, <3>1, <4>1
    <3>2. CASE k # n
      <4>1. k \in 1 .. n - 1 /\ e[k] = g[k] BY <1>2, <3>2
      <4>2. k # 1 => e[k - 1] = g[k - 1] BY <1>2, <3>2
      <4>3. g[k] = IF k = 1 THEN h.next[l] ELSE After(h, g[k - 1])
        BY <2>2, <4>1 DEF IsWalk
      <4> QED BY <4>1, <4>2, <4>3
    <3> QED BY <3>1, <3>2
  <2>4. e = [k \in 1 .. n |-> e[k]] OBVIOUS
  <2> HIDE DEF e
  <2>5. IsWalk(h, l, n, e) BY <2>3, <2>4 DEF IsWalk
  <2> QED BY <1>2, <2>5
<1> QED BY <1>3, <1>4

(* So the recursive definition of Visits defines what it says.             *)
LEMMA VisitsIsWalk ==
  ASSUME NEW h, NEW l, Cardinality(Nodes) \in Nat
  PROVE  IsWalk(h, l, Cardinality(Nodes) + 1, Visits(h, l))
<1> DEFINE N == Cardinality(Nodes) + 1
<1>1. \E g : IsWalk(h, l, N, g)
  <2>1. N \in Nat OBVIOUS
  <2> HIDE DEF N
  <2> QED BY <2>1, WalkExists
<1>2. IsWalk(h, l, N, CHOOSE g : IsWalk(h, l, N, g)) BY <1>1
<1>3. Visits(h, l) = CHOOSE g : IsWalk(h, l, N, g)
  BY DEF Visits, IsWalk, After
<1> QED BY <1>2, <1>3

(* operator++ follows the ring, and Elements is the sequence.              *)
LEMMA ElementsOfRing ==
  ASSUME NEW h, NEW l \in Lists, NEW s, Ring(h, l, s)
  PROVE  Elements(h, l) = s /\ Visits(h, l)[Len(s) + 1] = l
<1> DEFINE N == Cardinality(Nodes)
           g == Visits(h, l)
<1>1. s \in Seq(Items) /\ NoRepeats(s) /\ Linked(h, l, s) BY DEF Ring
<1>2. N \in Nat /\ Len(s) < N BY <1>1, RingIsShort
<1>3. /\ Len(s) \in Nat
      /\ NodeAt(l, s, 0) = l /\ NodeAt(l, s, Len(s) + 1) = l
      /\ \A k \in 1 .. Len(s) : NodeAt(l, s, k) = s[k] /\ s[k] \in Items
  BY <1>1, NodesAreDistinct
<1>4. IsWalk(h, l, N + 1, g) BY <1>2, VisitsIsWalk
<1> HIDE DEF N, g
<1>5. ASSUME NEW k \in 1 .. Len(s) + 1 PROVE g[k] = NodeAt(l, s, k)
  <2> DEFINE Bad == {i \in 1 .. Len(s) + 1 : g[i] # NodeAt(l, s, i)}
  <2> SUFFICES ASSUME Bad # {} PROVE FALSE OBVIOUS
  <2>1. Bad \subseteq Nat OBVIOUS
  <2>2. Min(Bad) \in Bad /\ \A y \in Bad : Min(Bad) <= y
    BY <2>1, MinIsLeast
  <2> DEFINE n == Min(Bad)
  <2>3. /\ n \in 1 .. Len(s) + 1 /\ g[n] # NodeAt(l, s, n)
        /\ \A y \in 1 .. Len(s) + 1 : y < n => g[y] = NodeAt(l, s, y)
    <3>1. n \in 1 .. Len(s) + 1 /\ g[n] # NodeAt(l, s, n) BY <2>2
    <3>2. ASSUME NEW y \in 1 .. Len(s) + 1, y < n
          PROVE  g[y] = NodeAt(l, s, y)
      <4>1. y \notin Bad BY <2>2, <3>1, <3>2
      <4> QED BY <4>1
    <3> QED BY <3>1, <3>2
  <2> HIDE DEF n
  <2>4. n \in 1 .. N + 1 BY <1>2, <1>3, <2>3
  <2>5. g[n] = IF n = 1 THEN h.next[l] ELSE After(h, g[n - 1])
    BY <1>4, <2>4 DEF IsWalk
  <2>6. n - 1 \in 0 .. Len(s) BY <1>3, <2>3
  <2>7. h.next[NodeAt(l, s, n - 1)] = NodeAt(l, s, n)
    <3>1. (n - 1) + 1 = n BY <2>3
    <3>2. h.next[NodeAt(l, s, n - 1)] = NodeAt(l, s, (n - 1) + 1)
      BY <1>1, <2>6 DEF Linked
    <3> QED BY <3>1, <3>2
  <2>8. CASE n = 1 BY <1>3, <2>3, <2>5, <2>7, <2>8
  <2>9. CASE n # 1
    <3>1. n - 1 \in 1 .. Len(s) BY <1>3, <2>3, <2>9
    <3>2. g[n - 1] = NodeAt(l, s, n - 1) BY <1>3, <2>3, <3>1
    <3>3. NodeAt(l, s, n - 1) # Null BY <1>3, <3>1, NodesAssumption
    <3> QED BY <2>3, <2>5, <2>7, <2>9, <3>2, <3>3 DEF After
  <2> QED BY <2>8, <2>9
<1>6. g[Len(s) + 1] = l /\ \A k \in 1 .. Len(s) : g[k] = s[k]
  BY <1>3, <1>5
<1> DEFINE S == {k \in 0 .. N : g[k + 1] \in {l, Null}} \cup {N}
<1>7. Min(S) = Len(s)
  <2>1. S \subseteq Nat /\ Len(s) \in S BY <1>2, <1>3, <1>6
  <2>2. ASSUME NEW k \in S PROVE Len(s) <= k
    <3> SUFFICES ASSUME k < Len(s) PROVE FALSE BY <1>3, <2>1
    <3>1. k \in Nat /\ k + 1 \in 1 .. Len(s) BY <1>3, <2>1
    <3>2. g[k + 1] \in Items BY <1>3, <1>6, <3>1
    <3>3. k # N BY <1>2, <1>3
    <3>4. g[k + 1] \in {l, Null} BY <3>3
    <3> QED BY <3>2, <3>4, NodesAssumption
  <2> HIDE DEF S
  <2>3. Min(S) \in S /\ \A y \in S : Min(S) <= y BY <2>1, MinIsLeast
  <2>4. Min(S) <= Len(s) /\ Len(s) <= Min(S) /\ Min(S) \in Nat
    BY <2>1, <2>2, <2>3
  <2> QED BY <1>3, <2>4
<1>8. Elements(h, l) = SubSeq(g, 1, Min(S)) BY DEF Elements, g, N
<1> HIDE DEF S
<1>9. SubSeq(g, 1, Len(s)) = s
  <2>1. SubSeq(g, 1, Len(s)) = [i \in 1 .. Len(s) |-> g[i]]
    BY <1>3
  <2>2. s = [i \in 1 .. Len(s) |-> s[i]] BY <1>1
  <2> QED BY <1>6, <2>1, <2>2
<1> QED BY <1>6, <1>7, <1>8, <1>9 DEF g

-----------------------------------------------------------------------------
(* The stores.                                                             *)

(* One store.                                                              *)
LEMMA NextStored ==
  ASSUME NEW h \in Heaps, NEW n \in Nodes, NEW v \in Nodes
  PROVE  /\ SetNext(h, n, v) \in Heaps
         /\ SetNext(h, n, v).next = [h.next EXCEPT ![n] = v]
         /\ SetNext(h, n, v).prev = h.prev
BY DEF SetNext, Heaps

(* The other store.                                                        *)
LEMMA PrevStored ==
  ASSUME NEW h \in Heaps, NEW n \in Nodes, NEW v \in Nodes
  PROVE  /\ SetPrev(h, n, v) \in Heaps
         /\ SetPrev(h, n, v).next = h.next
         /\ SetPrev(h, n, v).prev = [h.prev EXCEPT ![n] = v]
BY DEF SetPrev, Heaps

(* A heap is its links.                                                    *)
LEMMA HeapIsLinks ==
  ASSUME NEW g \in Heaps, NEW h \in Heaps, g.next = h.next, g.prev = h.prev
  PROVE  g = h
BY DEF Heaps

(* p and n become neighbours.                                              *)
Joined(h, p, n) == SetNext(SetPrev(h, n, p), p, n)

(* Joined stores one link in each direction.                               *)
LEMMA JoinedLinks ==
  ASSUME NEW h \in Heaps, NEW p \in Nodes, NEW n \in Nodes
  PROVE  /\ Joined(h, p, n) \in Heaps
         /\ Joined(h, p, n).next = [h.next EXCEPT ![p] = n]
         /\ Joined(h, p, n).prev = [h.prev EXCEPT ![n] = p]
<1> DEFINE g == SetPrev(h, n, p)
<1>1. /\ g \in Heaps /\ g.next = h.next
      /\ g.prev = [h.prev EXCEPT ![n] = p]
  BY PrevStored
<1> HIDE DEF g
<1>2. /\ SetNext(g, p, n) \in Heaps
      /\ SetNext(g, p, n).next = [g.next EXCEPT ![p] = n]
      /\ SetNext(g, p, n).prev = g.prev
  BY <1>1, NextStored
<1> QED BY <1>1, <1>2 DEF Joined, g

(* erase joins the neighbours of pos.                                      *)
LEMMA EraseJoins ==
  ASSUME NEW h \in Heaps, NEW pos \in Nodes, NEW p \in Nodes, NEW n \in Nodes,
         h.prev[pos] = p, h.next[pos] = n, pos # n
  PROVE  erase(h, pos) = Joined(h, p, n)
BY DEF erase, Joined, SetNext, SetPrev, Heaps

(* insert joins before's predecessor to the item and the item to before.   *)
LEMMA InsertJoins ==
  ASSUME NEW h \in Heaps, NEW item \in Nodes, NEW n \in Nodes, NEW p \in Nodes,
         h.prev[n] = p, item # n, item # p
  PROVE  insert(h, item, n) = Joined(Joined(h, p, item), item, n)
BY DEF insert, Joined, SetNext, SetPrev, Heaps

(* push_back is insert at the end.                                         *)
LEMMA PushBackIsInsert ==
  ASSUME NEW h \in Heaps, NEW item \in Items, NEW l \in Lists,
         h.prev[l] \in Nodes, h.prev[l] # item
  PROVE  push_back(h, l, item) = insert(h, item, l)
BY NodesAssumption DEF push_back, insert, SetNext, SetPrev, Heaps, Nodes

(* push_front is insert before the first node.                             *)
LEMMA PushFrontIsInsert ==
  ASSUME NEW h \in Heaps, NEW item \in Items, NEW l \in Lists,
         NEW n \in Nodes, h.next[l] = n, n # item, h.prev[n] = l
  PROVE  push_front(h, l, item) = insert(h, item, n)
<1>0. item \in Nodes /\ l \in Nodes /\ item # l
  BY NodesAssumption DEF Nodes
<1> DEFINE a1 == SetPrev(h, n, item)
           a2 == SetPrev(a1, item, l)
           a3 == SetNext(a2, item, n)
           a4 == SetNext(a3, l, item)
<1>1. push_front(h, l, item) = a4
  <2>1. a2.next = h.next BY <1>0 DEF SetPrev, Heaps
  <2> QED BY <2>1 DEF push_front
<1>2. /\ a1 \in Heaps /\ a1.next = h.next
      /\ a1.prev = [h.prev EXCEPT ![n] = item]
  BY <1>0, PrevStored
<1> HIDE DEF a1
<1>3. /\ a2 \in Heaps /\ a2.next = h.next
      /\ a2.prev = [a1.prev EXCEPT ![item] = l]
  BY <1>0, <1>2, PrevStored
<1> HIDE DEF a2
<1>4. /\ a3 \in Heaps /\ a3.prev = a2.prev
      /\ a3.next = [h.next EXCEPT ![item] = n]
  BY <1>0, <1>3, NextStored
<1> HIDE DEF a3
<1>5. /\ a4 \in Heaps /\ a4.prev = a2.prev
      /\ a4.next = [a3.next EXCEPT ![l] = item]
  <2>1. /\ a4 \in Heaps /\ a4.prev = a3.prev
        /\ a4.next = [a3.next EXCEPT ![l] = item]
    <3>1. a3 \in Heaps BY <1>4
    <3> QED BY <1>0, <3>1, NextStored
  <2> QED BY <1>4, <2>1
<1> HIDE DEF a4
<1> DEFINE b == Joined(h, l, item)
           c == Joined(b, item, n)
<1>6. insert(h, item, n) = c BY <1>0, InsertJoins
<1>7. /\ b \in Heaps /\ b.next = [h.next EXCEPT ![l] = item]
      /\ b.prev = [h.prev EXCEPT ![item] = l]
  BY <1>0, JoinedLinks
<1> HIDE DEF b
<1>8. /\ c \in Heaps /\ c.next = [b.next EXCEPT ![item] = n]
      /\ c.prev = [b.prev EXCEPT ![n] = item]
  <2>1. b \in Heaps /\ item \in Nodes /\ n \in Nodes BY <1>0, <1>7
  <2> QED BY <2>1, JoinedLinks
<1> HIDE DEF c
<1>9. h.next \in [Nodes -> Nodes \cup {Null}]
      /\ h.prev \in [Nodes -> Nodes \cup {Null}]
  BY DEF Heaps
<1>10. a4.next = c.next BY <1>0, <1>4, <1>5, <1>7, <1>8, <1>9
<1>11. a4.prev = c.prev BY <1>0, <1>2, <1>3, <1>5, <1>7, <1>8, <1>9
<1>12. a4 = c BY <1>5, <1>8, <1>10, <1>11, HeapIsLinks
<1> QED BY <1>1, <1>6, <1>12

(* pop_back is erase of the last item.                                     *)
LEMMA PopBackIsErase ==
  ASSUME NEW h \in Heaps, NEW l \in Lists, h.prev[l] \in Nodes,
         h.prev[l] # l, h.next[h.prev[l]] = l,
         h.prev[h.prev[l]] \in Nodes
  PROVE  pop_back(h, l) = erase(h, h.prev[l])
BY DEF pop_back, erase, SetNext, SetPrev, Heaps, Nodes

(* pop_front is erase of the first item.                                   *)
LEMMA PopFrontIsErase ==
  ASSUME NEW h \in Heaps, NEW l \in Lists, h.next[l] \in Nodes,
         h.next[l] # l, h.prev[h.next[l]] = l,
         h.next[h.next[l]] \in Nodes, h.next[h.next[l]] # h.next[l]
  PROVE  pop_front(h, l) = erase(h, h.next[l])
BY DEF pop_front, erase, SetNext, SetPrev, Heaps, Nodes

-----------------------------------------------------------------------------
(* Removing an item.                                                       *)

MembersOf(s) == {s[i] : i \in 1 .. Len(s)}

(* The sequence without its k-th member.                                   *)
LEMMA WithoutOne ==
  ASSUME NEW l \in Lists, NEW s \in Seq(Items), NoRepeats(s),
         NEW k \in 1 .. Len(s)
  PROVE  /\ Without(s, k) \in Seq(Items)
         /\ Len(Without(s, k)) = Len(s) - 1
         /\ NoRepeats(Without(s, k))
         /\ MembersOf(Without(s, k)) = MembersOf(s) \ {s[k]}
         /\ \A j \in 0 .. Len(s) :
              NodeAt(l, Without(s, k), j) =
                IF j < k THEN NodeAt(l, s, j) ELSE NodeAt(l, s, j + 1)
<1> DEFINE t == Without(s, k)
<1>1. Len(s) \in Nat /\ \A i \in 1 .. Len(s) : s[i] \in Items OBVIOUS
<1>2. /\ t \in Seq(Items) /\ Len(t) = Len(s) - 1
      /\ \A i \in 1 .. Len(s) - 1 : t[i] = IF i < k THEN s[i] ELSE s[i + 1]
  <2>1. t \in [1 .. Len(s) - 1 -> Items] BY <1>1 DEF Without
  <2>2. Len(s) - 1 \in Nat BY <1>1
  <2>3. t \in Seq(Items) /\ Len(t) = Len(s) - 1 BY <2>1, <2>2
  <2> QED BY <2>3 DEF Without
<1> HIDE DEF t
<1>3. NoRepeats(t)
  <2> SUFFICES ASSUME NEW i \in 1 .. Len(t), NEW j \in 1 .. Len(t),
                      t[i] = t[j]
               PROVE  i = j
    BY DEF NoRepeats
  <2>1. ASSUME NEW a \in 1 .. Len(s), NEW b \in 1 .. Len(s), s[a] = s[b]
        PROVE  a = b
    BY <2>1 DEF NoRepeats
  <2>2. CASE i < k /\ j < k BY <1>1, <1>2, <2>1, <2>2
  <2>3. CASE i < k /\ ~(j < k) BY <1>1, <1>2, <2>1, <2>3
  <2>4. CASE ~(i < k) /\ j < k BY <1>1, <1>2, <2>1, <2>4
  <2>5. CASE ~(i < k) /\ ~(j < k) BY <1>1, <1>2, <2>1, <2>5
  <2> QED BY <2>2, <2>3, <2>4, <2>5
<1>4. MembersOf(t) = MembersOf(s) \ {s[k]}
  <2>1. ASSUME NEW i \in 1 .. Len(t)
        PROVE  \E j \in 1 .. Len(s) : j # k /\ t[i] = s[j]
    <3>1. CASE i < k BY <1>1, <1>2, <3>1
    <3>2. CASE ~(i < k)
      <4>1. i + 1 \in 1 .. Len(s) /\ i + 1 # k /\ t[i] = s[i + 1]
        BY <1>1, <1>2, <3>2
      <4> QED BY <4>1
    <3> QED BY <3>1, <3>2
  <2>2. ASSUME NEW j \in 1 .. Len(s), j # k
        PROVE  \E i \in 1 .. Len(t) : t[i] = s[j]
    <3>1. CASE j < k
      <4>1. j \in 1 .. Len(t) /\ t[j] = s[j] BY <1>1, <1>2, <3>1
      <4> QED BY <4>1
    <3>2. CASE j > k
      <4>1. j - 1 \in 1 .. Len(t) /\ t[j - 1] = s[j] BY <1>1, <1>2, <3>2
      <4> QED BY <4>1
    <3> QED BY <2>2, <3>1, <3>2
  <2>3. ASSUME NEW x \in MembersOf(t) PROVE x \in MembersOf(s) \ {s[k]}
    <3>1. PICK i \in 1 .. Len(t) : x = t[i] BY DEF MembersOf
    <3>2. PICK j \in 1 .. Len(s) : j # k /\ x = s[j] BY <2>1, <3>1
    <3>3. s[j] # s[k] BY <3>2 DEF NoRepeats
    <3> QED BY <3>2, <3>3 DEF MembersOf
  <2>4. ASSUME NEW x \in MembersOf(s), x # s[k] PROVE x \in MembersOf(t)
    <3>1. PICK j \in 1 .. Len(s) : x = s[j] BY DEF MembersOf
    <3>2. j # k BY <2>4, <3>1
    <3>3. PICK i \in 1 .. Len(t) : t[i] = s[j] BY <2>2, <3>2
    <3> QED BY <3>1, <3>3 DEF MembersOf
  <2> QED BY <2>3, <2>4
<1>5. ASSUME NEW j \in 0 .. Len(s)
      PROVE  NodeAt(l, t, j) =
               IF j < k THEN NodeAt(l, s, j) ELSE NodeAt(l, s, j + 1)
  BY <1>1, <1>2 DEF NodeAt
<1> QED BY <1>2, <1>3, <1>4, <1>5 DEF t

(* erase takes one item out of its ring.                                   *)
LEMMA EraseFromRing ==
  ASSUME NEW h \in Heaps, NEW l \in Lists, NEW s, Ring(h, l, s),
         NEW k \in 1 .. Len(s)
  PROVE  /\ erase(h, s[k]) = Joined(h, NodeAt(l, s, k - 1),
                                    NodeAt(l, s, k + 1))
         /\ NodeAt(l, s, k - 1) \in Nodes /\ NodeAt(l, s, k + 1) \in Nodes
         /\ Ring(erase(h, s[k]), l, Without(s, k))
<1> DEFINE t == Without(s, k)
           p == NodeAt(l, s, k - 1)
           n == NodeAt(l, s, k + 1)
           g == Joined(h, p, n)
<1>1. s \in Seq(Items) /\ NoRepeats(s) /\ Linked(h, l, s) BY DEF Ring
<1>2. /\ Len(s) \in Nat
      /\ NodeAt(l, s, 0) = l /\ NodeAt(l, s, Len(s) + 1) = l
      /\ \A i \in 1 .. Len(s) : NodeAt(l, s, i) = s[i] /\ s[i] \in Items
      /\ \A i \in 0 .. Len(s) + 1 : NodeAt(l, s, i) \in Nodes
      /\ \A i, j \in 0 .. Len(s) :
           NodeAt(l, s, i) = NodeAt(l, s, j) => i = j
      /\ \A i, j \in 1 .. Len(s) + 1 :
           NodeAt(l, s, i) = NodeAt(l, s, j) => i = j
  BY <1>1, NodesAreDistinct
<1>3. p \in Nodes /\ n \in Nodes /\ s[k] \in Nodes BY <1>2 DEF Nodes
<1>4. h.prev[s[k]] = p /\ h.next[s[k]] = n /\ s[k] # n
  <2>1. k - 1 \in 0 .. Len(s) /\ k \in 0 .. Len(s) /\ (k - 1) + 1 = k
        /\ k + 1 \in 1 .. Len(s) + 1 /\ k \in 1 .. Len(s) + 1
    BY <1>2
  <2>2. h.prev[NodeAt(l, s, (k - 1) + 1)] = p /\ h.next[NodeAt(l, s, k)] = n
    BY <1>1, <2>1 DEF Linked
  <2>3. NodeAt(l, s, k) = s[k] BY <1>2
  <2>4. k # k + 1 BY <1>2
  <2> QED BY <1>2, <2>1, <2>2, <2>3, <2>4
<1> HIDE DEF p, n
<1>5. erase(h, s[k]) = g BY <1>3, <1>4, EraseJoins
<1>6. /\ g \in Heaps /\ g.next = [h.next EXCEPT ![p] = n]
      /\ g.prev = [h.prev EXCEPT ![n] = p]
  BY <1>3, JoinedLinks
<1>7. /\ g.next[p] = n /\ \A x \in Nodes : x # p => g.next[x] = h.next[x]
      /\ g.prev[n] = p /\ \A x \in Nodes : x # n => g.prev[x] = h.prev[x]
  BY <1>3, <1>6 DEF Heaps
<1> HIDE DEF g
<1>8. /\ t \in Seq(Items) /\ Len(t) = Len(s) - 1 /\ NoRepeats(t)
      /\ \A j \in 0 .. Len(s) :
           NodeAt(l, t, j) =
             IF j < k THEN NodeAt(l, s, j) ELSE NodeAt(l, s, j + 1)
  BY <1>1, WithoutOne
<1> HIDE DEF t
<1>9. ASSUME NEW j \in 0 .. Len(t)
      PROVE  /\ g.next[NodeAt(l, t, j)] = NodeAt(l, t, j + 1)
             /\ g.prev[NodeAt(l, t, j + 1)] = NodeAt(l, t, j)
  <2>1. j \in Nat /\ j \in 0 .. Len(s) /\ j + 1 \in 0 .. Len(s)
    BY <1>2, <1>8
  <2>2. CASE j = k - 1
    <3>1. NodeAt(l, t, j) = p /\ NodeAt(l, t, j + 1) = n
      BY <1>2, <1>8, <2>1, <2>2 DEF p, n
    <3> QED BY <1>7, <3>1
  <2>3. CASE j < k - 1
    <3>1. /\ NodeAt(l, t, j) = NodeAt(l, s, j)
          /\ NodeAt(l, t, j + 1) = NodeAt(l, s, j + 1)
      BY <1>2, <1>8, <2>1, <2>3
    <3>2. j # k - 1 /\ k - 1 \in 0 .. Len(s) BY <1>2, <2>3
    <3>3. j + 1 # k + 1 /\ k + 1 \in 1 .. Len(s) + 1
          /\ j + 1 \in 1 .. Len(s) + 1
      BY <1>2, <2>1, <2>3
    <3>4. NodeAt(l, s, j) # p BY <1>2, <2>1, <3>2 DEF p
    <3>5. NodeAt(l, s, j + 1) # n BY <1>2, <3>3 DEF n
    <3>6. NodeAt(l, s, j) \in Nodes /\ NodeAt(l, s, j + 1) \in Nodes
      BY <1>2, <2>1
    <3>7. /\ h.next[NodeAt(l, s, j)] = NodeAt(l, s, j + 1)
          /\ h.prev[NodeAt(l, s, j + 1)] = NodeAt(l, s, j)
      BY <1>1, <2>1 DEF Linked
    <3> QED BY <1>7, <3>1, <3>4, <3>5, <3>6, <3>7
  <2>4. CASE j > k - 1
    <3> DEFINE i == j + 1
    <3>0. i \in 0 .. Len(s) /\ i \in Nat /\ i > k BY <1>2, <2>1, <2>4
    <3>1. /\ NodeAt(l, t, j) = NodeAt(l, s, i)
          /\ NodeAt(l, t, j + 1) = NodeAt(l, s, i + 1)
      BY <1>2, <1>8, <2>1, <2>4
    <3> HIDE DEF i
    <3>2. i # k - 1 /\ k - 1 \in 0 .. Len(s) BY <1>2, <3>0
    <3>3. i + 1 # k + 1 /\ k + 1 \in 1 .. Len(s) + 1
          /\ i + 1 \in 1 .. Len(s) + 1
      BY <1>2, <3>0
    <3>4. NodeAt(l, s, i) # p BY <1>2, <3>0, <3>2 DEF p
    <3>5. NodeAt(l, s, i + 1) # n BY <1>2, <3>3 DEF n
    <3>6. NodeAt(l, s, i) \in Nodes /\ NodeAt(l, s, i + 1) \in Nodes
      BY <1>2, <3>0
    <3>7. /\ h.next[NodeAt(l, s, i)] = NodeAt(l, s, i + 1)
          /\ h.prev[NodeAt(l, s, i + 1)] = NodeAt(l, s, i)
      BY <1>1, <3>0 DEF Linked
    <3> QED BY <1>7, <3>1, <3>4, <3>5, <3>6, <3>7
  <2> QED BY <2>1, <2>2, <2>3, <2>4
<1>10. Ring(g, l, t) BY <1>8, <1>9 DEF Ring, Linked
<1> QED BY <1>3, <1>5, <1>10 DEF g, p, n, t

-----------------------------------------------------------------------------
(* Adding an item.                                                         *)

(* The sequence with x as its k-th member.                                 *)
LEMMA WithOne ==
  ASSUME NEW l \in Lists, NEW s \in Seq(Items), NoRepeats(s),
         NEW k \in 1 .. Len(s) + 1, NEW x \in Items, x \notin MembersOf(s)
  PROVE  /\ With(s, k, x) \in Seq(Items)
         /\ Len(With(s, k, x)) = Len(s) + 1
         /\ NoRepeats(With(s, k, x))
         /\ MembersOf(With(s, k, x)) = MembersOf(s) \cup {x}
         /\ \A j \in 0 .. Len(s) + 2 :
              NodeAt(l, With(s, k, x), j) =
                IF j < k THEN NodeAt(l, s, j)
                ELSE IF j = k THEN x ELSE NodeAt(l, s, j - 1)
<1> DEFINE t == With(s, k, x)
<1>1. /\ Len(s) \in Nat
      /\ \A i \in 1 .. Len(s) : s[i] \in Items /\ s[i] # x
  BY DEF MembersOf
<1>2. /\ t \in Seq(Items) /\ Len(t) = Len(s) + 1
      /\ \A i \in 1 .. Len(s) + 1 :
           t[i] = IF i < k THEN s[i] ELSE IF i = k THEN x ELSE s[i - 1]
  <2>1. t \in [1 .. Len(s) + 1 -> Items] BY <1>1 DEF With
  <2>2. Len(s) + 1 \in Nat BY <1>1
  <2>3. t \in Seq(Items) /\ Len(t) = Len(s) + 1 BY <2>1, <2>2
  <2> QED BY <2>3 DEF With
<1> HIDE DEF t
<1>3. NoRepeats(t)
  <2> SUFFICES ASSUME NEW i \in 1 .. Len(t), NEW j \in 1 .. Len(t),
                      t[i] = t[j]
               PROVE  i = j
    BY DEF NoRepeats
  <2>1. ASSUME NEW a \in 1 .. Len(s), NEW b \in 1 .. Len(s), s[a] = s[b]
        PROVE  a = b
    BY <2>1 DEF NoRepeats
  <2>2. CASE i < k /\ j < k BY <1>1, <1>2, <2>1, <2>2
  <2>3. CASE i < k /\ j > k BY <1>1, <1>2, <2>1, <2>3
  <2>4. CASE i > k /\ j < k BY <1>1, <1>2, <2>1, <2>4
  <2>5. CASE i > k /\ j > k
    <3>1. i - 1 \in 1 .. Len(s) /\ j - 1 \in 1 .. Len(s)
      BY <1>1, <1>2, <2>5
    <3>2. s[i - 1] = s[j - 1] BY <1>1, <1>2, <2>5
    <3>3. i - 1 = j - 1 BY <2>1, <3>1, <3>2
    <3> QED BY <1>1, <3>3
  <2>6. ASSUME NEW h \in 1 .. Len(t), h # k PROVE t[h] # x
    <3>1. h \in 1 .. Len(s) + 1 BY <1>2
    <3>2. CASE h < k
      <4>1. h \in 1 .. Len(s) /\ t[h] = s[h] BY <1>1, <1>2, <3>1, <3>2
      <4> QED BY <1>1, <4>1
    <3>3. CASE ~(h < k)
      <4>1. h - 1 \in 1 .. Len(s) /\ t[h] = s[h - 1]
        BY <1>1, <1>2, <2>6, <3>1, <3>3
      <4> QED BY <1>1, <4>1
    <3> QED BY <3>2, <3>3
  <2>7. t[k] = x BY <1>1, <1>2
  <2>8. CASE i = k BY <2>6, <2>7, <2>8
  <2>9. CASE j = k BY <2>6, <2>7, <2>9
  <2> QED BY <1>1, <1>2, <2>2, <2>3, <2>4, <2>5, <2>8, <2>9
<1>4. MembersOf(t) = MembersOf(s) \cup {x}
  <2>1. ASSUME NEW y \in MembersOf(t) PROVE y \in MembersOf(s) \cup {x}
    <3>1. PICK i \in 1 .. Len(t) : y = t[i] BY DEF MembersOf
    <3>2. CASE i = k BY <1>1, <1>2, <3>1, <3>2
    <3>3. CASE i # k
      <4>1. \E m \in 1 .. Len(s) : t[i] = s[m] BY <1>1, <1>2, <3>3
      <4> QED BY <3>1, <4>1 DEF MembersOf
    <3> QED BY <3>2, <3>3
  <2>2. ASSUME NEW y \in MembersOf(s) PROVE y \in MembersOf(t)
    <3>1. PICK j \in 1 .. Len(s) : y = s[j] BY DEF MembersOf
    <3>2. CASE j < k
      <4>1. j \in 1 .. Len(t) /\ t[j] = s[j] BY <1>1, <1>2, <3>2
      <4> QED BY <3>1, <4>1 DEF MembersOf
    <3>3. CASE ~(j < k)
      <4>1. j + 1 \in 1 .. Len(t) /\ (j + 1) - 1 = j /\ j + 1 > k
        BY <1>1, <1>2, <3>3
      <4>2. t[j + 1] = s[j] BY <1>1, <1>2, <4>1
      <4> QED BY <3>1, <4>1, <4>2 DEF MembersOf
    <3> QED BY <3>2, <3>3
  <2>3. x \in MembersOf(t)
    <3>1. k \in 1 .. Len(t) /\ t[k] = x BY <1>1, <1>2
    <3> QED BY <3>1 DEF MembersOf
  <2> QED BY <2>1, <2>2, <2>3
<1>5. ASSUME NEW j \in 0 .. Len(s) + 2
      PROVE  NodeAt(l, t, j) =
               IF j < k THEN NodeAt(l, s, j)
               ELSE IF j = k THEN x ELSE NodeAt(l, s, j - 1)
  BY <1>1, <1>2 DEF NodeAt
<1> QED BY <1>2, <1>3, <1>4, <1>5 DEF t

(* insert puts one item into the ring, before the node it is given.        *)
LEMMA InsertIntoRing ==
  ASSUME NEW h \in Heaps, NEW l \in Lists, NEW s, Ring(h, l, s),
         NEW k \in 1 .. Len(s) + 1, NEW x \in Items, x \notin MembersOf(s)
  PROVE  /\ insert(h, x, NodeAt(l, s, k)) =
              Joined(Joined(h, NodeAt(l, s, k - 1), x), x, NodeAt(l, s, k))
         /\ NodeAt(l, s, k - 1) \in Nodes /\ NodeAt(l, s, k) \in Nodes
         /\ Ring(insert(h, x, NodeAt(l, s, k)), l, With(s, k, x))
<1> DEFINE t == With(s, k, x)
           p == NodeAt(l, s, k - 1)
           n == NodeAt(l, s, k)
           f == Joined(h, p, x)
           g == Joined(f, x, n)
<1>1. s \in Seq(Items) /\ NoRepeats(s) /\ Linked(h, l, s) BY DEF Ring
<1>2. /\ Len(s) \in Nat
      /\ NodeAt(l, s, 0) = l /\ NodeAt(l, s, Len(s) + 1) = l
      /\ \A i \in 1 .. Len(s) : NodeAt(l, s, i) = s[i] /\ s[i] \in Items
      /\ \A i \in 0 .. Len(s) + 1 : NodeAt(l, s, i) \in Nodes
      /\ \A i, j \in 0 .. Len(s) :
           NodeAt(l, s, i) = NodeAt(l, s, j) => i = j
      /\ \A i, j \in 1 .. Len(s) + 1 :
           NodeAt(l, s, i) = NodeAt(l, s, j) => i = j
  BY <1>1, NodesAreDistinct
<1>3. p \in Nodes /\ n \in Nodes /\ x \in Nodes BY <1>2 DEF Nodes
<1>4. \A i \in 0 .. Len(s) + 1 : NodeAt(l, s, i) # x
  <2>1. x # l /\ \A i \in 1 .. Len(s) : s[i] # x
    BY NodesAssumption DEF MembersOf
  <2> QED BY <2>1 DEF NodeAt
<1>5. p # x /\ n # x BY <1>2, <1>4
<1>6. h.prev[n] = p
  <2>1. k - 1 \in 0 .. Len(s) /\ (k - 1) + 1 = k BY <1>2
  <2>2. h.prev[NodeAt(l, s, (k - 1) + 1)] = p BY <1>1, <2>1 DEF Linked
  <2> QED BY <2>1, <2>2
<1> HIDE DEF p, n
<1>7. insert(h, x, n) = g BY <1>3, <1>5, <1>6, InsertJoins
<1>8. /\ f \in Heaps /\ f.next = [h.next EXCEPT ![p] = x]
      /\ f.prev = [h.prev EXCEPT ![x] = p]
  BY <1>3, JoinedLinks
<1> HIDE DEF f
<1>9. /\ g \in Heaps /\ g.next = [f.next EXCEPT ![x] = n]
      /\ g.prev = [f.prev EXCEPT ![n] = x]
  BY <1>3, <1>8, JoinedLinks
<1> HIDE DEF g
<1>10. /\ h.next \in [Nodes -> Nodes \cup {Null}]
       /\ h.prev \in [Nodes -> Nodes \cup {Null}]
  BY DEF Heaps
<1>11. /\ g.next[p] = x /\ g.next[x] = n
       /\ \A y \in Nodes : y # p /\ y # x => g.next[y] = h.next[y]
  BY <1>3, <1>5, <1>8, <1>9, <1>10
<1>12. /\ g.prev[n] = x /\ g.prev[x] = p
       /\ \A y \in Nodes : y # n /\ y # x => g.prev[y] = h.prev[y]
  BY <1>3, <1>5, <1>8, <1>9, <1>10
<1>13. /\ t \in Seq(Items) /\ Len(t) = Len(s) + 1 /\ NoRepeats(t)
       /\ \A j \in 0 .. Len(s) + 2 :
            NodeAt(l, t, j) = IF j < k THEN NodeAt(l, s, j)
                              ELSE IF j = k THEN x ELSE NodeAt(l, s, j - 1)
  BY <1>1, WithOne
<1> HIDE DEF t
<1>14. ASSUME NEW j \in 0 .. Len(t)
       PROVE  /\ g.next[NodeAt(l, t, j)] = NodeAt(l, t, j + 1)
              /\ g.prev[NodeAt(l, t, j + 1)] = NodeAt(l, t, j)
  <2>1. j \in Nat /\ j \in 0 .. Len(s) + 2 /\ j + 1 \in 0 .. Len(s) + 2
    BY <1>2, <1>13
  <2>2. ASSUME NEW i \in 0 .. Len(s), i # k - 1
        PROVE  /\ g.next[NodeAt(l, s, i)] = NodeAt(l, s, i + 1)
               /\ g.prev[NodeAt(l, s, i + 1)] = NodeAt(l, s, i)
    <3>1. /\ h.next[NodeAt(l, s, i)] = NodeAt(l, s, i + 1)
          /\ h.prev[NodeAt(l, s, i + 1)] = NodeAt(l, s, i)
      BY <1>1 DEF Linked
    <3>2. k - 1 \in 0 .. Len(s) /\ i + 1 \in 1 .. Len(s) + 1
          /\ i \in 0 .. Len(s) + 1 /\ i + 1 \in 0 .. Len(s) + 1
          /\ i + 1 # k
      BY <1>2, <2>2
    <3>3. NodeAt(l, s, i) # p BY <1>2, <2>2, <3>2 DEF p
    <3>4. NodeAt(l, s, i + 1) # n BY <1>2, <3>2 DEF n
    <3>5. /\ NodeAt(l, s, i) \in Nodes /\ NodeAt(l, s, i + 1) \in Nodes
          /\ NodeAt(l, s, i) # x /\ NodeAt(l, s, i + 1) # x
      BY <1>2, <1>4, <3>2
    <3> QED BY <1>11, <1>12, <3>1, <3>3, <3>4, <3>5
  <2>3. CASE j < k - 1
    <3>1. /\ NodeAt(l, t, j) = NodeAt(l, s, j)
          /\ NodeAt(l, t, j + 1) = NodeAt(l, s, j + 1)
      BY <1>2, <1>13, <2>1, <2>3
    <3>2. j \in 0 .. Len(s) /\ j # k - 1 BY <1>2, <2>1, <2>3
    <3> QED BY <2>2, <3>1, <3>2
  <2>4. CASE j = k - 1
    <3>1. NodeAt(l, t, j) = p /\ NodeAt(l, t, j + 1) = x
      BY <1>2, <1>13, <2>1, <2>4 DEF p
    <3> QED BY <1>11, <1>12, <3>1
  <2>5. CASE j = k
    <3>1. /\ NodeAt(l, t, j) = x
          /\ NodeAt(l, t, j + 1) = NodeAt(l, s, (j + 1) - 1)
      BY <1>2, <1>13, <2>1, <2>5
    <3>2. (j + 1) - 1 = k BY <2>5
    <3> QED BY <1>11, <1>12, <3>1, <3>2 DEF n
  <2>6. CASE j > k
    <3> DEFINE i == j - 1
    <3>1. i \in 0 .. Len(s) /\ i # k - 1 /\ i + 1 = j /\ (j + 1) - 1 = j
      BY <1>2, <1>13, <2>1, <2>6
    <3>2. /\ NodeAt(l, t, j) = NodeAt(l, s, i)
          /\ NodeAt(l, t, j + 1) = NodeAt(l, s, (j + 1) - 1)
      BY <1>2, <1>13, <2>1, <2>6
    <3> HIDE DEF i
    <3> QED BY <2>2, <3>1, <3>2
  <2> QED BY <2>1, <2>3, <2>4, <2>5, <2>6
<1>15. Ring(g, l, t) BY <1>13, <1>14 DEF Ring, Linked
<1> QED BY <1>3, <1>7, <1>15 DEF f, g, p, n, t

-----------------------------------------------------------------------------
(* The other lists.                                                        *)

(* A heap with the same links on the nodes of a ring has the ring.         *)
LEMMA RingIsFramed ==
  ASSUME NEW h, NEW l \in Lists, NEW s, Ring(h, l, s), NEW g,
         \A x \in MembersOf(s) \cup {l} :
           g.next[x] = h.next[x] /\ g.prev[x] = h.prev[x]
  PROVE  Ring(g, l, s)
<1>1. s \in Seq(Items) /\ NoRepeats(s) /\ Linked(h, l, s) BY DEF Ring
<1>2. \A k \in 0 .. Len(s) + 1 : NodeAt(l, s, k) \in MembersOf(s) \cup {l}
  BY DEF NodeAt, MembersOf
<1>3. ASSUME NEW k \in 0 .. Len(s)
      PROVE  /\ g.next[NodeAt(l, s, k)] = NodeAt(l, s, k + 1)
             /\ g.prev[NodeAt(l, s, k + 1)] = NodeAt(l, s, k)
  <2>1. k \in 0 .. Len(s) + 1 /\ k + 1 \in 0 .. Len(s) + 1
    BY <1>1
  <2> QED BY <1>1, <1>2, <2>1 DEF Linked
<1> QED BY <1>1, <1>3 DEF Ring, Linked

-----------------------------------------------------------------------------
(* All lists at once: the heap holds the lists c.                          *)

Holds(h, c) ==
  /\ h \in Heaps /\ c \in [Lists -> Seq(Items)]
  /\ \A l \in Lists : Ring(h, l, c[l])
  /\ \A l, m \in Lists : l # m => MembersOf(c[l]) \cap MembersOf(c[m]) = {}

Everywhere(c) == UNION {MembersOf(c[l]) : l \in Lists}

(* The constructors leave empty lists.                                     *)
THEOREM EmptyHeapHolds == Holds(EmptyHeap, [l \in Lists |-> <<>>])
<1> DEFINE c == [l \in Lists |-> <<>>]
<1>1. EmptyHeap \in Heaps BY DEF EmptyHeap, Heaps, Nodes
<1>2. ASSUME NEW l \in Lists
      PROVE  Ring(EmptyHeap, l, <<>>) /\ MembersOf(<<>>) = {}
  <2>1. l \in Nodes BY DEF Nodes
  <2>2. EmptyHeap.next[l] = l /\ EmptyHeap.prev[l] = l
    BY <2>1 DEF EmptyHeap
  <2> QED BY <2>2 DEF Ring, NoRepeats, Linked, NodeAt, MembersOf
<1> QED BY <1>1, <1>2 DEF Holds

(* A range-for over a list sees what the heap holds, and ends.             *)
THEOREM RangeForSeesTheList ==
  ASSUME NEW h, NEW c, Holds(h, c), NEW l \in Lists
  PROVE  Elements(h, l) = c[l] /\ Visits(h, l)[Len(c[l]) + 1] = l
BY ElementsOfRing DEF Holds

(* The nodes of different lists are different.                             *)
LEMMA ListsAreApart ==
  ASSUME NEW h, NEW c, Holds(h, c), NEW l \in Lists, NEW m \in Lists, l # m
  PROVE  /\ c[l] \in Seq(Items) /\ c[m] \in Seq(Items)
         /\ Len(c[l]) \in Nat
         /\ MembersOf(c[l]) \subseteq Items /\ MembersOf(c[m]) \subseteq Items
         /\ \A k \in 0 .. Len(c[l]) + 1 :
              NodeAt(l, c[l], k) \notin MembersOf(c[m]) \cup {m}
<1>1. /\ c[l] \in Seq(Items) /\ c[m] \in Seq(Items)
      /\ MembersOf(c[l]) \cap MembersOf(c[m]) = {}
  BY DEF Holds
<1>2. \A k \in 1 .. Len(c[m]) : c[m][k] \in Items BY <1>1
<1>3. \A k \in 1 .. Len(c[l]) : c[l][k] \in Items BY <1>1
<1>4. MembersOf(c[m]) \subseteq Items /\ MembersOf(c[l]) \subseteq Items
  BY <1>2, <1>3 DEF MembersOf
<1>5. \A k \in 1 .. Len(c[l]) : c[l][k] \in MembersOf(c[l])
  BY DEF MembersOf
<1>6. l \notin Items /\ m \notin Items BY NodesAssumption
<1>7. ASSUME NEW k \in 0 .. Len(c[l]) + 1
      PROVE  NodeAt(l, c[l], k) \notin MembersOf(c[m]) \cup {m}
  BY <1>1, <1>3, <1>4, <1>5, <1>6 DEF NodeAt
<1> QED BY <1>1, <1>4, <1>7

(* Joining two nodes changes the links of no other node.                   *)
LEMMA JoinedFrame ==
  ASSUME NEW h \in Heaps, NEW p \in Nodes, NEW n \in Nodes, NEW S,
         S \subseteq Nodes, p \notin S, n \notin S
  PROVE  /\ Joined(h, p, n) \in Heaps
         /\ \A x \in S : /\ Joined(h, p, n).next[x] = h.next[x]
                         /\ Joined(h, p, n).prev[x] = h.prev[x]
<1> DEFINE g == Joined(h, p, n)
<1>1. /\ g \in Heaps /\ g.next = [h.next EXCEPT ![p] = n]
      /\ g.prev = [h.prev EXCEPT ![n] = p]
  BY JoinedLinks
<1> HIDE DEF g
<1>2. h.next \in [Nodes -> Nodes \cup {Null}]
      /\ h.prev \in [Nodes -> Nodes \cup {Null}]
  BY DEF Heaps
<1>3. \A x \in S : g.next[x] = h.next[x] /\ g.prev[x] = h.prev[x]
  BY <1>1, <1>2
<1> QED BY <1>1, <1>3 DEF g

(* One list changes and its items stay apart from those of the others,     *)
(* whose nodes keep their links.                                           *)
LEMMA OneListChanges ==
  ASSUME NEW h, NEW c, Holds(h, c), NEW l \in Lists, NEW g \in Heaps,
         NEW t, Ring(g, l, t),
         \A m \in Lists : m # l => MembersOf(t) \cap MembersOf(c[m]) = {},
         \A m \in Lists : m # l =>
           \A x \in MembersOf(c[m]) \cup {m} :
             g.next[x] = h.next[x] /\ g.prev[x] = h.prev[x]
  PROVE  Holds(g, [c EXCEPT ![l] = t])
<1> DEFINE d == [c EXCEPT ![l] = t]
<1>1. c \in [Lists -> Seq(Items)] /\ t \in Seq(Items) BY DEF Holds, Ring
<1>2. /\ d \in [Lists -> Seq(Items)] /\ d[l] = t
      /\ \A m \in Lists : m # l => d[m] = c[m]
  BY <1>1
<1> HIDE DEF d
<1>3. ASSUME NEW m \in Lists PROVE Ring(g, m, d[m])
  <2>1. CASE m = l BY <1>2, <2>1
  <2>2. CASE m # l
    <3>1. Ring(h, m, c[m]) BY DEF Holds
    <3>2. Ring(g, m, c[m]) BY <2>2, <3>1, RingIsFramed
    <3> QED BY <1>2, <2>2, <3>2
  <2> QED BY <2>1, <2>2
<1>4. ASSUME NEW a \in Lists, NEW b \in Lists, a # b
      PROVE  MembersOf(d[a]) \cap MembersOf(d[b]) = {}
  <2>1. CASE a = l BY <1>2, <1>4, <2>1
  <2>2. CASE b = l BY <1>2, <1>4, <2>2
  <2>3. CASE a # l /\ b # l
    <3>1. MembersOf(c[a]) \cap MembersOf(c[b]) = {} BY <1>4 DEF Holds
    <3> QED BY <1>2, <2>3, <3>1
  <2> QED BY <2>1, <2>2, <2>3
<1>5. Holds(g, d) BY <1>2, <1>3, <1>4 DEF Holds
<1> QED BY <1>5 DEF d

(* erase removes the item it points to from its list and touches no other. *)
THEOREM EraseRemovesOne ==
  ASSUME NEW h, NEW c, Holds(h, c), NEW l \in Lists,
         NEW k \in 1 .. Len(c[l])
  PROVE  Holds(erase(h, c[l][k]), [c EXCEPT ![l] = Without(c[l], k)])
<1> DEFINE s == c[l]
           t == Without(s, k)
           p == NodeAt(l, s, k - 1)
           n == NodeAt(l, s, k + 1)
           g == erase(h, s[k])
<1>1. h \in Heaps /\ Ring(h, l, s) /\ s \in Seq(Items) /\ NoRepeats(s)
      /\ Len(s) \in Nat
  BY DEF Holds, Ring
<1>2. g = Joined(h, p, n) /\ p \in Nodes /\ n \in Nodes /\ Ring(g, l, t)
  BY <1>1, EraseFromRing
<1>3. MembersOf(t) \subseteq MembersOf(s)
  <2>1. MembersOf(t) = MembersOf(s) \ {s[k]} BY <1>1, WithoutOne
  <2> QED BY <2>1
<1> HIDE DEF g, t, p, n
<1>4. g \in Heaps BY <1>1, <1>2, JoinedLinks
<1>5. ASSUME NEW m \in Lists, m # l
      PROVE  /\ MembersOf(t) \cap MembersOf(c[m]) = {}
             /\ \A x \in MembersOf(c[m]) \cup {m} :
                  g.next[x] = h.next[x] /\ g.prev[x] = h.prev[x]
  <2> DEFINE S == MembersOf(c[m]) \cup {m}
  <2>1. MembersOf(s) \cap MembersOf(c[m]) = {} BY <1>5 DEF Holds
  <2>2. /\ S \subseteq Nodes
        /\ \A i \in 0 .. Len(s) + 1 : NodeAt(l, s, i) \notin S
    BY <1>5, ListsAreApart DEF Nodes
  <2>3. k - 1 \in 0 .. Len(s) + 1 /\ k + 1 \in 0 .. Len(s) + 1 BY <1>1
  <2>4. p \notin S /\ n \notin S BY <2>2, <2>3 DEF p, n
  <2> HIDE DEF S
  <2>5. \A x \in S : g.next[x] = h.next[x] /\ g.prev[x] = h.prev[x]
    BY <1>1, <1>2, <2>2, <2>4, JoinedFrame
  <2>6. MembersOf(t) \cap MembersOf(c[m]) = {} BY <1>3, <2>1
  <2> QED BY <2>5, <2>6 DEF S
<1>6. \A m \in Lists : m # l => MembersOf(t) \cap MembersOf(c[m]) = {}
  BY <1>5
<1>7. \A m \in Lists : m # l =>
        \A x \in MembersOf(c[m]) \cup {m} :
          g.next[x] = h.next[x] /\ g.prev[x] = h.prev[x]
  BY <1>5
<1>8. Holds(g, [c EXCEPT ![l] = t])
  BY <1>2, <1>4, <1>6, <1>7, OneListChanges
<1> QED BY <1>8 DEF g, t

(* insert adds an item of no list before the node it is given, and touches *)
(* no other list.                                                          *)
THEOREM InsertAddsOne ==
  ASSUME NEW h, NEW c, Holds(h, c), NEW l \in Lists,
         NEW k \in 1 .. Len(c[l]) + 1,
         NEW x \in Items, x \notin Everywhere(c)
  PROVE  Holds(insert(h, x, NodeAt(l, c[l], k)),
               [c EXCEPT ![l] = With(c[l], k, x)])
<1> DEFINE s == c[l]
           t == With(s, k, x)
           p == NodeAt(l, s, k - 1)
           n == NodeAt(l, s, k)
           f == Joined(h, p, x)
           g == insert(h, x, n)
<1>0. \A m \in Lists : x \notin MembersOf(c[m]) BY DEF Everywhere
<1>1. h \in Heaps /\ Ring(h, l, s) /\ s \in Seq(Items) /\ NoRepeats(s)
      /\ Len(s) \in Nat
  BY DEF Holds, Ring
<1>2. g = Joined(f, x, n) /\ p \in Nodes /\ n \in Nodes /\ Ring(g, l, t)
  BY <1>0, <1>1, InsertIntoRing
<1>3. MembersOf(t) = MembersOf(s) \cup {x} BY <1>0, <1>1, WithOne
<1> HIDE DEF g, t, p, n
<1>4. x \in Nodes BY DEF Nodes
<1>5. f \in Heaps BY <1>1, <1>2, <1>4, JoinedLinks
<1> HIDE DEF f
<1>6. g \in Heaps BY <1>2, <1>4, <1>5, JoinedLinks
<1>7. ASSUME NEW m \in Lists, m # l
      PROVE  /\ MembersOf(t) \cap MembersOf(c[m]) = {}
             /\ \A y \in MembersOf(c[m]) \cup {m} :
                  g.next[y] = h.next[y] /\ g.prev[y] = h.prev[y]
  <2> DEFINE S == MembersOf(c[m]) \cup {m}
  <2>1. MembersOf(s) \cap MembersOf(c[m]) = {} BY <1>7 DEF Holds
  <2>2. /\ S \subseteq Nodes
        /\ \A i \in 0 .. Len(s) + 1 : NodeAt(l, s, i) \notin S
    BY <1>7, ListsAreApart DEF Nodes
  <2>3. k - 1 \in 0 .. Len(s) + 1 /\ k \in 0 .. Len(s) + 1 BY <1>1
  <2>4. p \notin S /\ n \notin S BY <2>2, <2>3 DEF p, n
  <2>5. x \notin S BY <1>0, NodesAssumption
  <2> HIDE DEF S
  <2>6. \A y \in S : f.next[y] = h.next[y] /\ f.prev[y] = h.prev[y]
    BY <1>1, <1>2, <1>4, <2>2, <2>4, <2>5, JoinedFrame DEF f
  <2>7. \A y \in S : g.next[y] = f.next[y] /\ g.prev[y] = f.prev[y]
    BY <1>2, <1>4, <1>5, <2>2, <2>4, <2>5, JoinedFrame
  <2>8. MembersOf(t) \cap MembersOf(c[m]) = {} BY <1>0, <1>3, <2>1
  <2> QED BY <2>6, <2>7, <2>8 DEF S
<1>8. \A m \in Lists : m # l => MembersOf(t) \cap MembersOf(c[m]) = {}
  BY <1>7
<1>9. \A m \in Lists : m # l =>
        \A y \in MembersOf(c[m]) \cup {m} :
          g.next[y] = h.next[y] /\ g.prev[y] = h.prev[y]
  BY <1>7
<1>10. Holds(g, [c EXCEPT ![l] = t])
  BY <1>2, <1>6, <1>8, <1>9, OneListChanges
<1> QED BY <1>10 DEF g, t, n

(* push_back appends to the list.                                          *)
THEOREM PushBackAppends ==
  ASSUME NEW h, NEW c, Holds(h, c), NEW l \in Lists,
         NEW x \in Items, x \notin Everywhere(c)
  PROVE  Holds(push_back(h, l, x),
               [c EXCEPT ![l] = With(c[l], Len(c[l]) + 1, x)])
<1> DEFINE s == c[l]
<1>1. h \in Heaps /\ Ring(h, l, s) /\ s \in Seq(Items) /\ NoRepeats(s)
      /\ Len(s) \in Nat /\ Linked(h, l, s)
  BY DEF Holds, Ring
<1>2. /\ NodeAt(l, s, Len(s) + 1) = l
      /\ \A i \in 0 .. Len(s) + 1 : NodeAt(l, s, i) \in Nodes
  BY <1>1, NodesAreDistinct
<1>3. Len(s) \in 0 .. Len(s) /\ Len(s) \in 0 .. Len(s) + 1
      /\ Len(s) + 1 \in 1 .. Len(s) + 1
  BY <1>1
<1>4. h.prev[l] = NodeAt(l, s, Len(s)) BY <1>1, <1>2, <1>3 DEF Linked
<1>5. NodeAt(l, s, Len(s)) # x
  <2>1. x # l /\ x \notin MembersOf(s)
    BY NodesAssumption DEF Everywhere
  <2> QED BY <2>1 DEF NodeAt, MembersOf
<1>6. push_back(h, l, x) = insert(h, x, l)
  BY <1>1, <1>2, <1>3, <1>4, <1>5, PushBackIsInsert
<1> QED BY <1>2, <1>3, <1>6, InsertAddsOne

(* push_front puts the item before all others.                             *)
THEOREM PushFrontPrepends ==
  ASSUME NEW h, NEW c, Holds(h, c), NEW l \in Lists,
         NEW x \in Items, x \notin Everywhere(c)
  PROVE  Holds(push_front(h, l, x), [c EXCEPT ![l] = With(c[l], 1, x)])
<1> DEFINE s == c[l]
           n == NodeAt(l, s, 1)
<1>1. h \in Heaps /\ Ring(h, l, s) /\ s \in Seq(Items) /\ NoRepeats(s)
      /\ Len(s) \in Nat /\ Linked(h, l, s)
  BY DEF Holds, Ring
<1>2. /\ NodeAt(l, s, 0) = l
      /\ \A i \in 0 .. Len(s) + 1 : NodeAt(l, s, i) \in Nodes
  BY <1>1, NodesAreDistinct
<1>3. 0 \in 0 .. Len(s) /\ 1 \in 0 .. Len(s) + 1 /\ 0 + 1 = 1
      /\ 1 \in 1 .. Len(s) + 1
  BY <1>1
<1>4. h.next[NodeAt(l, s, 0)] = NodeAt(l, s, 0 + 1)
      /\ h.prev[NodeAt(l, s, 0 + 1)] = NodeAt(l, s, 0)
  BY <1>1, <1>3 DEF Linked
<1>5. n # x
  <2>1. x # l /\ x \notin MembersOf(s)
    BY NodesAssumption DEF Everywhere
  <2> QED BY <2>1 DEF NodeAt, MembersOf
<1>6. n \in Nodes /\ h.next[l] = n /\ h.prev[n] = l
  BY <1>2, <1>3, <1>4
<1> HIDE DEF n
<1>7. push_front(h, l, x) = insert(h, x, n)
  BY <1>1, <1>5, <1>6, PushFrontIsInsert
<1>8. Holds(insert(h, x, NodeAt(l, c[l], 1)),
            [c EXCEPT ![l] = With(c[l], 1, x)])
  BY <1>3, InsertAddsOne
<1> QED BY <1>7, <1>8 DEF n

(* pop_back removes the last item of a list that has one.                  *)
THEOREM PopBackRemovesLast ==
  ASSUME NEW h, NEW c, Holds(h, c), NEW l \in Lists, ~empty(h, l)
  PROVE  /\ Len(c[l]) \in 1 .. Len(c[l])
         /\ h.prev[l] = c[l][Len(c[l])]
         /\ pop_back(h, l) = erase(h, h.prev[l])
<1> DEFINE s == c[l]
           N == Len(s)
<1>1. h \in Heaps /\ Ring(h, l, s) /\ s \in Seq(Items) /\ NoRepeats(s)
      /\ N \in Nat /\ Linked(h, l, s)
  BY DEF Holds, Ring
<1>2. /\ NodeAt(l, s, 0) = l /\ NodeAt(l, s, N + 1) = l
      /\ \A i \in 0 .. N + 1 : NodeAt(l, s, i) \in Nodes
      /\ \A i \in 1 .. N : NodeAt(l, s, i) = s[i] /\ s[i] \in Items
  BY <1>1, NodesAreDistinct
<1>3. ASSUME NEW i \in 0 .. N
      PROVE  /\ h.next[NodeAt(l, s, i)] = NodeAt(l, s, i + 1)
             /\ h.prev[NodeAt(l, s, i + 1)] = NodeAt(l, s, i)
  BY <1>1 DEF Linked
<1> HIDE DEF N
<1>4. N # 0
  <2> SUFFICES ASSUME N = 0 PROVE FALSE OBVIOUS
  <2>1. 0 \in 0 .. N BY <1>1
  <2>2. h.next[NodeAt(l, s, 0)] = NodeAt(l, s, 0 + 1) BY <1>3, <2>1
  <2>3. h.next[l] = l BY <1>2, <2>2
  <2> QED BY <2>3 DEF empty
<1>5. N \in 1 .. N /\ N \in 0 .. N /\ N - 1 \in 0 .. N
      /\ N - 1 \in 0 .. N + 1 /\ (N - 1) + 1 = N
  BY <1>1, <1>4
<1>6. h.prev[l] = s[N] /\ h.next[s[N]] = l BY <1>2, <1>3, <1>5
<1>7. s[N] \in Nodes /\ s[N] # l
  BY <1>2, <1>5, NodesAssumption DEF Nodes
<1>8. h.prev[s[N]] \in Nodes
  <2>1. h.prev[NodeAt(l, s, (N - 1) + 1)] = NodeAt(l, s, N - 1)
    BY <1>3, <1>5
  <2> QED BY <1>2, <1>5, <2>1
<1>9. pop_back(h, l) = erase(h, h.prev[l])
  BY <1>1, <1>6, <1>7, <1>8, PopBackIsErase
<1> QED BY <1>5, <1>6, <1>9 DEF N

(* pop_front removes the first item of a list that has one.                *)
THEOREM PopFrontRemovesFirst ==
  ASSUME NEW h, NEW c, Holds(h, c), NEW l \in Lists, ~empty(h, l)
  PROVE  /\ 1 \in 1 .. Len(c[l])
         /\ h.next[l] = c[l][1]
         /\ pop_front(h, l) = erase(h, h.next[l])
<1> DEFINE s == c[l]
           N == Len(s)
<1>1. h \in Heaps /\ Ring(h, l, s) /\ s \in Seq(Items) /\ NoRepeats(s)
      /\ N \in Nat /\ Linked(h, l, s)
  BY DEF Holds, Ring
<1>2. /\ NodeAt(l, s, 0) = l /\ NodeAt(l, s, N + 1) = l
      /\ \A i \in 0 .. N + 1 : NodeAt(l, s, i) \in Nodes
      /\ \A i \in 1 .. N : NodeAt(l, s, i) = s[i] /\ s[i] \in Items
      /\ \A i, j \in 1 .. N + 1 :
           NodeAt(l, s, i) = NodeAt(l, s, j) => i = j
  BY <1>1, NodesAreDistinct
<1>3. ASSUME NEW i \in 0 .. N
      PROVE  /\ h.next[NodeAt(l, s, i)] = NodeAt(l, s, i + 1)
             /\ h.prev[NodeAt(l, s, i + 1)] = NodeAt(l, s, i)
  BY <1>1 DEF Linked
<1> HIDE DEF N
<1>4. 0 \in 0 .. N /\ 0 + 1 = 1 BY <1>1
<1>5. h.next[l] = NodeAt(l, s, 1) /\ h.prev[NodeAt(l, s, 1)] = l
  BY <1>2, <1>3, <1>4
<1>6. N # 0
  <2> SUFFICES ASSUME N = 0 PROVE FALSE OBVIOUS
  <2> QED BY <1>2, <1>4, <1>5 DEF empty
<1>7. 1 \in 1 .. N /\ 1 \in 0 .. N /\ 1 + 1 = 2 /\ 2 \in 1 .. N + 1
      /\ 1 \in 1 .. N + 1 /\ 2 \in 0 .. N + 1 /\ 1 # 2
  BY <1>1, <1>6
<1>8. h.next[l] = s[1] /\ h.prev[s[1]] = l BY <1>2, <1>5, <1>7
<1>9. s[1] \in Nodes /\ s[1] # l
  BY <1>2, <1>7, NodesAssumption DEF Nodes
<1>10. h.next[s[1]] \in Nodes /\ h.next[s[1]] # s[1]
  <2>1. h.next[NodeAt(l, s, 1)] = NodeAt(l, s, 1 + 1) BY <1>3, <1>7
  <2> QED BY <1>2, <1>7, <2>1
<1>11. pop_front(h, l) = erase(h, h.next[l])
  BY <1>1, <1>8, <1>9, <1>10, PopFrontIsErase
<1> QED BY <1>7, <1>8, <1>11 DEF N

(* A new item's links are no list's.                                       *)
THEOREM UnlinkedTouchesNoList ==
  ASSUME NEW h, NEW c, Holds(h, c), NEW x \in Items, x \notin Everywhere(c)
  PROVE  Holds(Unlinked(h, x), c)
<1> DEFINE g == Unlinked(h, x)
<1>1. h \in Heaps /\ x \in Nodes BY DEF Holds, Nodes
<1>2. /\ g \in Heaps
      /\ \A y \in Nodes : y # x =>
           g.next[y] = h.next[y] /\ g.prev[y] = h.prev[y]
  BY <1>1 DEF Unlinked, SetNext, SetPrev, Heaps
<1> HIDE DEF g
<1>3. ASSUME NEW l \in Lists PROVE Ring(g, l, c[l])
  <2>1. Ring(h, l, c[l]) /\ c[l] \in Seq(Items) BY DEF Holds
  <2>2. \A k \in 1 .. Len(c[l]) : c[l][k] \in Items BY <2>1
  <2>3. MembersOf(c[l]) \cup {l} \subseteq Nodes
    BY <2>2 DEF MembersOf, Nodes
  <2>4. x \notin MembersOf(c[l]) \cup {l}
    BY NodesAssumption DEF Everywhere
  <2> QED BY <1>2, <2>1, <2>3, <2>4, RingIsFramed
<1>4. Holds(g, c) BY <1>2, <1>3 DEF Holds
<1> QED BY <1>4 DEF g


-----------------------------------------------------------------------------
(* What a splice is to leave, place by place.                              *)

Merged(dst, p, src, lo, hi) ==
  [i \in 1 .. Len(dst) + (hi - lo) |->
     IF i < p THEN dst[i]
     ELSE IF i < p + (hi - lo) THEN src[lo + (i - p)]
     ELSE dst[i - (hi - lo)]]

Rest(src, lo, hi) ==
  [i \in 1 .. Len(src) - (hi - lo) |->
     IF i < lo THEN src[i] ELSE src[i + (hi - lo)]]

(* A concatenation, place by place.                                        *)
LEMMA ConcatIs ==
  ASSUME NEW a \in Seq(Items), NEW b \in Seq(Items)
  PROVE  /\ a \o b \in Seq(Items) /\ Len(a \o b) = Len(a) + Len(b)
         /\ a \o b = [i \in 1 .. Len(a) + Len(b) |-> (a \o b)[i]]
         /\ \A i \in 1 .. Len(a) + Len(b) :
              /\ i <= Len(a) => (a \o b)[i] = a[i]
              /\ i > Len(a) => (a \o b)[i] = b[i - Len(a)]
<1>1. Len(a) \in Nat /\ Len(b) \in Nat OBVIOUS
<1>2. a \o b \in Seq(Items) /\ Len(a \o b) = Len(a) + Len(b) OBVIOUS
<1>3. a \o b = [i \in 1 .. Len(a) + Len(b) |-> (a \o b)[i]]
  <2> DEFINE t == a \o b
  <2>1. t \in Seq(Items) /\ Len(t) = Len(a) + Len(b) BY <1>2
  <2> HIDE DEF t
  <2>2. t = [i \in 1 .. Len(t) |-> t[i]] BY <2>1
  <2>3. t = [i \in 1 .. Len(a) + Len(b) |-> t[i]] BY <2>1, <2>2
  <2> QED BY <2>3 DEF t
<1>4. ASSUME NEW i \in 1 .. Len(a) + Len(b), i <= Len(a)
      PROVE  (a \o b)[i] = a[i]
  BY <1>1, <1>4
<1>5. ASSUME NEW i \in 1 .. Len(a) + Len(b), i > Len(a)
      PROVE  (a \o b)[i] = b[i - Len(a)]
  BY <1>1, <1>5
<1> QED BY <1>2, <1>3, <1>4, <1>5

(* The two are the concatenations that StartSplice writes down.            *)
LEMMA GoalIsMerged ==
  ASSUME NEW dst \in Seq(Items), NEW src \in Seq(Items),
         NEW p \in 1 .. Len(dst) + 1, NEW lo \in 1 .. Len(src) + 1,
         NEW hi \in 1 .. Len(src) + 1, lo <= hi
  PROVE  /\ SubSeq(dst, 1, p - 1) \o SubSeq(src, lo, hi - 1)
              \o SubSeq(dst, p, Len(dst)) = Merged(dst, p, src, lo, hi)
         /\ SubSeq(src, 1, lo - 1) \o SubSeq(src, hi, Len(src))
              = Rest(src, lo, hi)
<1> DEFINE a == SubSeq(dst, 1, p - 1)
           b == SubSeq(src, lo, hi - 1)
           d == SubSeq(dst, p, Len(dst))
           e == SubSeq(src, 1, lo - 1)
           f == SubSeq(src, hi, Len(src))
<1>1. Len(dst) \in Nat /\ Len(src) \in Nat OBVIOUS
<1>2. /\ a \in Seq(Items) /\ Len(a) = p - 1
      /\ \A i \in 1 .. p - 1 : a[i] = dst[i]
  BY <1>1
<1>3. /\ b \in Seq(Items) /\ Len(b) = hi - lo
      /\ \A i \in 1 .. hi - lo : b[i] = src[lo + i - 1]
  BY <1>1
<1>4. /\ d \in Seq(Items) /\ Len(d) = Len(dst) + 1 - p
      /\ \A i \in 1 .. Len(dst) + 1 - p : d[i] = dst[p + i - 1]
  BY <1>1
<1>5. /\ e \in Seq(Items) /\ Len(e) = lo - 1
      /\ \A i \in 1 .. lo - 1 : e[i] = src[i]
  BY <1>1
<1>6. /\ f \in Seq(Items) /\ Len(f) = Len(src) + 1 - hi
      /\ \A i \in 1 .. Len(src) + 1 - hi : f[i] = src[hi + i - 1]
  BY <1>1
<1> HIDE DEF a, b, d, e, f
<1>7. e \o f = Rest(src, lo, hi)
  <2> DEFINE ef == e \o f
             m == Len(src) - (hi - lo)
  <2>0. Len(e) + Len(f) = m BY <1>1, <1>5, <1>6
  <2>1. /\ ef = [i \in 1 .. m |-> ef[i]]
        /\ \A i \in 1 .. m : /\ i <= Len(e) => ef[i] = e[i]
                             /\ i > Len(e) => ef[i] = f[i - Len(e)]
    <3>1. e \in Seq(Items) /\ f \in Seq(Items) BY <1>5, <1>6
    <3> HIDE DEF m
    <3> QED BY <2>0, <3>1, ConcatIs
  <2> HIDE DEF ef, m
  <2>2. ASSUME NEW i \in 1 .. m
        PROVE  ef[i] = IF i < lo THEN src[i] ELSE src[i + (hi - lo)]
    <3>1. CASE i < lo
      <4>1. i <= Len(e) /\ i \in 1 .. lo - 1 BY <1>1, <1>5, <3>1
      <4> QED BY <1>5, <2>1, <3>1, <4>1
    <3>2. CASE ~(i < lo)
      <4>1. i > Len(e) /\ i - Len(e) \in 1 .. Len(src) + 1 - hi
            /\ hi + (i - Len(e)) - 1 = i + (hi - lo)
        BY <1>1, <1>5, <3>2 DEF m
      <4> QED BY <1>6, <2>1, <3>2, <4>1
    <3> QED BY <3>1, <3>2
  <2> QED BY <2>1, <2>2 DEF Rest, ef, m
<1> DEFINE ab == a \o b
           n == Len(dst) + (hi - lo)
<1>8. /\ ab \in Seq(Items) /\ Len(ab) = (p - 1) + (hi - lo)
      /\ \A i \in 1 .. (p - 1) + (hi - lo) :
           ab[i] = IF i < p THEN dst[i] ELSE src[lo + (i - p)]
  <2>1. /\ ab \in Seq(Items) /\ Len(ab) = (p - 1) + (hi - lo)
        /\ \A i \in 1 .. Len(a) + Len(b) :
             /\ i <= Len(a) => ab[i] = a[i]
             /\ i > Len(a) => ab[i] = b[i - Len(a)]
    <3>1. a \in Seq(Items) /\ b \in Seq(Items) BY <1>2, <1>3
    <3>2. /\ ab \in Seq(Items) /\ Len(ab) = Len(a) + Len(b)
          /\ \A i \in 1 .. Len(a) + Len(b) :
               /\ i <= Len(a) => ab[i] = a[i]
               /\ i > Len(a) => ab[i] = b[i - Len(a)]
      BY <3>1, ConcatIs
    <3> QED BY <1>2, <1>3, <3>2
  <2> HIDE DEF ab
  <2>2. ASSUME NEW i \in 1 .. (p - 1) + (hi - lo)
        PROVE  ab[i] = IF i < p THEN dst[i] ELSE src[lo + (i - p)]
    <3>1. CASE i < p
      <4>1. i <= Len(a) /\ i \in 1 .. p - 1 /\ i \in 1 .. Len(a) + Len(b)
        BY <1>1, <1>2, <1>3, <3>1
      <4> QED BY <1>2, <2>1, <3>1, <4>1
    <3>2. CASE ~(i < p)
      <4>1. ab[i] = b[i - Len(a)] BY <1>1, <1>2, <1>3, <2>1, <3>2
      <4>2. i - Len(a) \in 1 .. hi - lo
            /\ lo + (i - Len(a)) - 1 = lo + (i - p)
        BY <1>1, <1>2, <3>2
      <4> QED BY <1>3, <3>2, <4>1, <4>2
    <3> QED BY <3>1, <3>2
  <2> QED BY <2>1, <2>2
<1> HIDE DEF ab
<1>9. ab \o d = Merged(dst, p, src, lo, hi)
  <2> DEFINE abd == ab \o d
  <2>0. Len(ab) + Len(d) = n BY <1>1, <1>4, <1>8
  <2>1. /\ abd = [i \in 1 .. n |-> abd[i]]
        /\ \A i \in 1 .. n : /\ i <= Len(ab) => abd[i] = ab[i]
                             /\ i > Len(ab) => abd[i] = d[i - Len(ab)]
    <3>1. ab \in Seq(Items) /\ d \in Seq(Items) BY <1>4, <1>8
    <3> HIDE DEF n
    <3> QED BY <2>0, <3>1, ConcatIs
  <2> HIDE DEF abd
  <2>2. ASSUME NEW i \in 1 .. n
        PROVE  abd[i] = IF i < p THEN dst[i]
                        ELSE IF i < p + (hi - lo) THEN src[lo + (i - p)]
                        ELSE dst[i - (hi - lo)]
    <3>1. CASE i < p + (hi - lo)
      <4>1. i <= Len(ab) /\ i \in 1 .. (p - 1) + (hi - lo)
        BY <1>1, <1>8, <3>1
      <4> QED BY <1>8, <2>1, <3>1, <4>1
    <3>2. CASE ~(i < p + (hi - lo))
      <4>1. i > Len(ab) /\ i - Len(ab) \in 1 .. Len(dst) + 1 - p
            /\ ~(i < p) /\ p + (i - Len(ab)) - 1 = i - (hi - lo)
        BY <1>1, <1>8, <3>2
      <4> QED BY <1>4, <2>1, <3>2, <4>1
    <3> QED BY <3>1, <3>2
  <2> QED BY <2>1, <2>2 DEF Merged, abd
<1> QED BY <1>7, <1>9 DEF a, b, d, e, f, ab

(* Moving the first item of the range does not change what is to come.     *)
LEMMA MovingKeepsGoal ==
  ASSUME NEW dst \in Seq(Items), NEW src \in Seq(Items),
         NEW p \in 1 .. Len(dst) + 1, NEW lo \in 1 .. Len(src),
         NEW hi \in 1 .. Len(src) + 1, lo < hi
  PROVE  /\ Merged(With(dst, p, src[lo]), p + 1, Without(src, lo), lo, hi - 1)
              = Merged(dst, p, src, lo, hi)
         /\ Rest(Without(src, lo), lo, hi - 1) = Rest(src, lo, hi)
<1> DEFINE t == With(dst, p, src[lo])
           r == Without(src, lo)
           n == Len(dst) + (hi - lo)
           m == Len(src) - (hi - lo)
<1>1. Len(dst) \in Nat /\ Len(src) \in Nat OBVIOUS
<1>2. /\ Len(t) = Len(dst) + 1
      /\ \A i \in 1 .. Len(dst) + 1 :
           t[i] = IF i < p THEN dst[i]
                  ELSE IF i = p THEN src[lo] ELSE dst[i - 1]
  BY <1>1 DEF With
<1>3. /\ Len(r) = Len(src) - 1
      /\ \A i \in 1 .. Len(src) - 1 :
           r[i] = IF i < lo THEN src[i] ELSE src[i + 1]
  BY <1>1 DEF Without
<1> HIDE DEF t, r
<1>4. Len(t) + ((hi - 1) - lo) = n /\ Len(r) - ((hi - 1) - lo) = m
  BY <1>1, <1>2, <1>3
<1>5. ASSUME NEW i \in 1 .. n
      PROVE  (IF i < p + 1 THEN t[i]
              ELSE IF i < (p + 1) + ((hi - 1) - lo)
              THEN r[lo + (i - (p + 1))]
              ELSE t[i - ((hi - 1) - lo)])
             = (IF i < p THEN dst[i]
                ELSE IF i < p + (hi - lo) THEN src[lo + (i - p)]
                ELSE dst[i - (hi - lo)])
  <2>1. CASE i < p BY <1>1, <1>2, <2>1
  <2>2. CASE i = p
    <3>1. i < p + 1 /\ i < p + (hi - lo) /\ lo + (i - p) = lo
          /\ i \in 1 .. Len(dst) + 1
      BY <1>1, <2>2
    <3> QED BY <1>1, <1>2, <2>2, <3>1
  <2>3. CASE i > p /\ i < p + (hi - lo)
    <3>1. lo + (i - (p + 1)) \in 1 .. Len(src) - 1
          /\ ~(lo + (i - (p + 1)) < lo)
          /\ (lo + (i - (p + 1))) + 1 = lo + (i - p)
          /\ i < (p + 1) + ((hi - 1) - lo) /\ ~(i < p + 1) /\ ~(i < p)
      BY <1>1, <2>3
    <3> QED BY <1>3, <2>3, <3>1
  <2>4. CASE ~(i < p + (hi - lo))
    <3>1. i - ((hi - 1) - lo) \in 1 .. Len(dst) + 1
          /\ ~(i - ((hi - 1) - lo) < p) /\ i - ((hi - 1) - lo) # p
          /\ (i - ((hi - 1) - lo)) - 1 = i - (hi - lo)
          /\ ~(i < (p + 1) + ((hi - 1) - lo)) /\ ~(i < p + 1) /\ ~(i < p)
      BY <1>1, <2>4
    <3> QED BY <1>2, <2>4, <3>1
  <2> QED BY <1>1, <2>1, <2>2, <2>3, <2>4
<1>6. ASSUME NEW i \in 1 .. m
      PROVE  (IF i < lo THEN r[i] ELSE r[i + ((hi - 1) - lo)])
             = (IF i < lo THEN src[i] ELSE src[i + (hi - lo)])
  <2>1. CASE i < lo
    <3>1. i \in 1 .. Len(src) - 1 BY <1>1, <2>1
    <3> QED BY <1>3, <2>1, <3>1
  <2>2. CASE ~(i < lo)
    <3>1. i + ((hi - 1) - lo) \in 1 .. Len(src) - 1
          /\ ~(i + ((hi - 1) - lo) < lo)
          /\ (i + ((hi - 1) - lo)) + 1 = i + (hi - lo)
      BY <1>1, <2>2
    <3> QED BY <1>3, <2>2, <3>1
  <2> QED BY <2>1, <2>2
<1>7. Merged(t, p + 1, r, lo, hi - 1) = Merged(dst, p, src, lo, hi)
  BY <1>4, <1>5 DEF Merged
<1>8. Rest(r, lo, hi - 1) = Rest(src, lo, hi) BY <1>4, <1>6 DEF Rest
<1> QED BY <1>7, <1>8 DEF t, r

(* Nothing is left to move when the iterators meet.                        *)
LEMMA NothingToMove ==
  ASSUME NEW dst \in Seq(Items), NEW src \in Seq(Items),
         NEW p \in 1 .. Len(dst) + 1, NEW lo \in 1 .. Len(src) + 1
  PROVE  Merged(dst, p, src, lo, lo) = dst /\ Rest(src, lo, lo) = src
<1>1. Len(dst) \in Nat /\ Len(src) \in Nat /\ lo - lo = 0 OBVIOUS
<1>2. dst = [i \in 1 .. Len(dst) |-> dst[i]]
      /\ src = [i \in 1 .. Len(src) |-> src[i]]
  OBVIOUS
<1>3. Len(dst) + (lo - lo) = Len(dst) /\ Len(src) - (lo - lo) = Len(src)
  BY <1>1
<1>4. \A i \in 1 .. Len(dst) :
        dst[i] = IF i < p THEN dst[i]
                 ELSE IF i < p + (lo - lo) THEN src[lo + (i - p)]
                 ELSE dst[i - (lo - lo)]
  BY <1>1
<1>5. \A i \in 1 .. Len(src) :
        src[i] = IF i < lo THEN src[i] ELSE src[i + (lo - lo)]
  BY <1>1
<1> QED BY <1>2, <1>3, <1>4, <1>5 DEF Merged, Rest

-----------------------------------------------------------------------------
(* The inductive invariant.                                                *)

(* Every item has one owner: a list, a writer or the guard's ItemPtr.      *)
OneOwner ==
  /\ held \cap Everywhere(Contents) = {}
  /\ mine \notin held \cup Everywhere(Contents)
  /\ alive = held \cup Everywhere(Contents) \cup ({mine} \ {Null})

(* The guard owns an item between erase and put, and only then.            *)
MineWhilePut == IF at = "put" THEN mine \in Items ELSE mine = Null

(* The loops that empty a list are always at its first item.               *)
AtTheFront ==
  /\ at \in {"return", "put"} => it = NodeAt("tmp", Contents["tmp"], 1)
  /\ at = "clear" =>
       it = NodeAt("pool_list_", Contents["pool_list_"], 1)

(* A splice has moved some items of its range; lo, hi and p are where its  *)
(* three iterators are, and what is left to move makes up the goal.        *)
Splicing(to, from, lo, hi, p) ==
  LET dst == Contents[to]
      src == Contents[from]
  IN /\ lo \in 1 .. Len(src) + 1 /\ hi \in 1 .. Len(src) + 1 /\ lo <= hi
     /\ p \in 1 .. Len(dst) + 1
     /\ it = NodeAt(from, src, lo)
     /\ last = NodeAt(from, src, hi)
     /\ before = NodeAt(to, dst, p)
     /\ goal.target = Merged(dst, p, src, lo, hi)
     /\ goal.source = Rest(src, lo, hi)

SpliceOnItsWay ==
  at = "splice" =>
    /\ goal.to \in UserLists /\ goal.from \in UserLists
    /\ goal.to # goal.from
    /\ \E lo, hi \in 1 .. Len(Contents[goal.from]) + 1,
          p \in 1 .. Len(Contents[goal.to]) + 1 :
            Splicing(goal.to, goal.from, lo, hi, p)

Inv ==
  /\ TypeOK
  /\ Holds(heap, Contents)
  /\ OneOwner
  /\ MineWhilePut
  /\ AtTheFront
  /\ SpliceOnItsWay

-----------------------------------------------------------------------------
(* One item more or less, and the steps of ItemLists.                      *)

Less(c, l, k) == [c EXCEPT ![l] = Without(c[l], k)]

More(c, l, k, x) == [c EXCEPT ![l] = With(c[l], k, x)]

(* What the heap holds is what the lists contain.                          *)
LEMMA HoldsContents ==
  ASSUME NEW h, NEW c, Holds(h, c)
  PROVE  c = [l \in Lists |-> Elements(h, l)]
<1>1. c = [l \in Lists |-> c[l]] BY DEF Holds
<1>2. \A l \in Lists : Elements(h, l) = c[l] BY RangeForSeesTheList
<1> QED BY <1>1, <1>2

(* RemoveAt takes one item out.                                            *)
LEMMA RemoveAtIs ==
  ASSUME NEW s \in Seq(Items), NEW k \in 1 .. Len(s)
  PROVE  Abstract!RemoveAt(s, k) = Without(s, k)
<1>1. Len(s) \in Nat /\ k \in 1 .. Len(s) + 1 /\ k + 1 \in 1 .. Len(s) + 1
      /\ k <= k + 1 /\ (k + 1) - k = 1
  OBVIOUS
<1>2. SubSeq(s, 1, k - 1) \o SubSeq(s, k + 1, Len(s)) = Rest(s, k, k + 1)
  BY <1>1, GoalIsMerged
<1>3. Rest(s, k, k + 1) = Without(s, k) BY <1>1 DEF Rest, Without
<1> QED BY <1>2, <1>3 DEF Abstract!RemoveAt

(* InsertAt puts one item in.                                              *)
LEMMA InsertAtIs ==
  ASSUME NEW s \in Seq(Items), NEW k \in 1 .. Len(s) + 1, NEW x \in Items
  PROVE  Abstract!InsertAt(s, k, x) = With(s, k, x)
<1> DEFINE y == <<x>>
<1>1. y \in Seq(Items) /\ Len(y) = 1 /\ y[1] = x OBVIOUS
<1> HIDE DEF y
<1>2. Len(s) \in Nat /\ 1 \in 1 .. Len(y) + 1 /\ 2 \in 1 .. Len(y) + 1
      /\ 1 <= 2 /\ 2 - 1 = 1
  BY <1>1
<1>3. SubSeq(y, 1, 1) = y
  <2>1. SubSeq(y, 1, 1) = [i \in 1 .. 1 |-> y[i]] BY <1>1
  <2>2. y = [i \in 1 .. Len(y) |-> y[i]] BY <1>1
  <2> QED BY <1>1, <2>1, <2>2
<1>4. SubSeq(s, 1, k - 1) \o SubSeq(y, 1, 2 - 1) \o SubSeq(s, k, Len(s))
        = Merged(s, k, y, 1, 2)
  BY <1>1, <1>2, GoalIsMerged
<1>5. Merged(s, k, y, 1, 2) = With(s, k, x)
  <2>1. Len(s) + (2 - 1) = Len(s) + 1 BY <1>2
  <2>2. ASSUME NEW i \in 1 .. Len(s) + 1
        PROVE  (IF i < k THEN s[i]
                ELSE IF i < k + (2 - 1) THEN y[1 + (i - k)]
                ELSE s[i - (2 - 1)])
               = (IF i < k THEN s[i] ELSE IF i = k THEN x ELSE s[i - 1])
    <3>1. CASE i < k BY <3>1
    <3>2. CASE i = k
      <4>1. 1 + (i - k) = 1 /\ i < k + (2 - 1) /\ ~(i < k) BY <3>2
      <4> QED BY <1>1, <3>2, <4>1
    <3>3. CASE i > k BY <3>3
    <3> QED BY <3>1, <3>2, <3>3
  <2> QED BY <2>1, <2>2 DEF Merged, With
<1> QED BY <1>2, <1>3, <1>4, <1>5 DEF Abstract!InsertAt, y

(* Everything that is somewhere is an item.                                *)
LEMMA EverywhereItems ==
  ASSUME NEW h, NEW c, Holds(h, c)
  PROVE  Everywhere(c) \subseteq Items /\ Abstract!Used(c) = Everywhere(c)
<1>1. ASSUME NEW l \in Lists
      PROVE  MembersOf(c[l]) \subseteq Items
             /\ Abstract!ToSet(c[l]) = MembersOf(c[l])
  <2>1. c[l] \in Seq(Items) /\ DOMAIN c[l] = 1 .. Len(c[l]) BY DEF Holds
  <2>2. \A k \in 1 .. Len(c[l]) : c[l][k] \in Items BY <2>1
  <2> QED BY <2>1, <2>2 DEF MembersOf, Abstract!ToSet
<1>2. Everywhere(c) \subseteq Items BY <1>1 DEF Everywhere
<1>3. Abstract!Used(c) = Everywhere(c)
  BY <1>1 DEF Everywhere, Abstract!Used
<1> QED BY <1>2, <1>3

(* One item less.                                                          *)
LEMMA OneLess ==
  ASSUME NEW h, NEW c, Holds(h, c), NEW l \in Lists, NEW k \in 1 .. Len(c[l])
  PROVE  /\ Less(c, l, k)[l] = Without(c[l], k)
         /\ \A m \in Lists : m # l => Less(c, l, k)[m] = c[m]
         /\ c[l][k] \in Items /\ c[l][k] \in Everywhere(c)
         /\ Everywhere(Less(c, l, k)) = Everywhere(c) \ {c[l][k]}
         /\ Abstract!Removed(c, Less(c, l, k), l)
<1> DEFINE d == [c EXCEPT ![l] = Without(c[l], k)]
<1>1. /\ c \in [Lists -> Seq(Items)] /\ c[l] \in Seq(Items)
      /\ NoRepeats(c[l])
  BY DEF Holds, Ring
<1>2. d[l] = Without(c[l], k) /\ \A m \in Lists : m # l => d[m] = c[m]
  BY <1>1
<1>3. c[l][k] \in Items /\ c[l][k] \in MembersOf(c[l])
  BY <1>1 DEF MembersOf
<1>4. \A m \in Lists : m # l => c[l][k] \notin MembersOf(c[m])
  BY <1>3 DEF Holds
<1>5. MembersOf(d[l]) = MembersOf(c[l]) \ {c[l][k]}
  BY <1>1, <1>2, WithoutOne
<1>6. \A m \in Lists : MembersOf(d[m]) = MembersOf(c[m]) \ {c[l][k]}
  BY <1>2, <1>4, <1>5
<1>7. Everywhere(d) = Everywhere(c) \ {c[l][k]}
  <2>1. \A y : y \in Everywhere(d)
                 <=> \E m \in Lists : y \in MembersOf(d[m])
    BY DEF Everywhere
  <2>2. \A y : y \in Everywhere(c)
                 <=> \E m \in Lists : y \in MembersOf(c[m])
    BY DEF Everywhere
  <2>3. ASSUME NEW y \in Everywhere(d)
        PROVE  y \in Everywhere(c) \ {c[l][k]}
    <3>1. PICK m \in Lists : y \in MembersOf(d[m]) BY <2>1
    <3>2. y \in MembersOf(c[m]) /\ y # c[l][k] BY <1>6, <3>1
    <3> QED BY <2>2, <3>2
  <2>4. ASSUME NEW y \in Everywhere(c) \ {c[l][k]}
        PROVE  y \in Everywhere(d)
    <3>1. PICK m \in Lists : y \in MembersOf(c[m]) BY <2>2
    <3>2. y \in MembersOf(d[m]) BY <1>6, <3>1
    <3> QED BY <2>1, <3>2
  <2> QED BY <2>3, <2>4
<1>8. Abstract!Removed(c, d, l) BY <1>1, RemoveAtIs DEF Abstract!Removed
<1>9. c[l][k] \in Everywhere(c) BY <1>3 DEF Everywhere
<1> QED BY <1>2, <1>3, <1>7, <1>8, <1>9 DEF Less

(* One item more.                                                          *)
LEMMA OneMore ==
  ASSUME NEW h, NEW c, Holds(h, c), NEW l \in Lists,
         NEW k \in 1 .. Len(c[l]) + 1,
         NEW x \in Items, x \notin Everywhere(c)
  PROVE  /\ More(c, l, k, x)[l] = With(c[l], k, x)
         /\ \A m \in Lists : m # l => More(c, l, k, x)[m] = c[m]
         /\ Everywhere(More(c, l, k, x)) = Everywhere(c) \cup {x}
         /\ Abstract!Added(c, More(c, l, k, x), l)
<1> DEFINE d == [c EXCEPT ![l] = With(c[l], k, x)]
<1>1. /\ c \in [Lists -> Seq(Items)] /\ c[l] \in Seq(Items)
      /\ NoRepeats(c[l]) /\ x \notin MembersOf(c[l])
  BY DEF Holds, Ring, Everywhere
<1>2. d[l] = With(c[l], k, x) /\ \A m \in Lists : m # l => d[m] = c[m]
  BY <1>1
<1>3. MembersOf(d[l]) = MembersOf(c[l]) \cup {x}
  BY <1>1, <1>2, WithOne
<1>4. Everywhere(d) = Everywhere(c) \cup {x}
  <2>1. \A y : y \in Everywhere(d)
                 <=> \E m \in Lists : y \in MembersOf(d[m])
    BY DEF Everywhere
  <2>2. \A y : y \in Everywhere(c)
                 <=> \E m \in Lists : y \in MembersOf(c[m])
    BY DEF Everywhere
  <2> QED BY <1>2, <1>3, <2>1, <2>2
<1>5. x \in Items \ Abstract!Used(c) BY EverywhereItems
<1>6. Abstract!Added(c, d, l)
  BY <1>1, <1>5, InsertAtIs DEF Abstract!Added
<1> QED BY <1>2, <1>4, <1>6 DEF More

-----------------------------------------------------------------------------
(* The steps that change the lists.                                        *)

(* begin is the first node of the ring.                                    *)
LEMMA BeginIs ==
  ASSUME NEW h, NEW c, Holds(h, c), NEW l \in Lists
  PROVE  /\ begin(h, l) = NodeAt(l, c[l], 1)
         /\ begin(h, l) # l => 1 \in 1 .. Len(c[l]) /\ begin(h, l) = c[l][1]
<1>1. Linked(h, l, c[l]) /\ c[l] \in Seq(Items) BY DEF Holds, Ring
<1>2. Len(c[l]) \in Nat /\ 0 \in 0 .. Len(c[l]) /\ 0 + 1 = 1 BY <1>1
<1>3. h.next[NodeAt(l, c[l], 0)] = NodeAt(l, c[l], 0 + 1)
  BY <1>1, <1>2 DEF Linked
<1>4. NodeAt(l, c[l], 0) = l BY DEF NodeAt
<1>5. begin(h, l) = NodeAt(l, c[l], 1) BY <1>2, <1>3, <1>4 DEF begin
<1> QED BY <1>5 DEF NodeAt

(* erase returns the node that takes the item's place.                     *)
LEMMA EraseReturnsNext ==
  ASSUME NEW h, NEW c, Holds(h, c), NEW l \in Lists,
         NEW k \in 1 .. Len(c[l])
  PROVE  EraseReturns(h, c[l][k]) = NodeAt(l, Without(c[l], k), k)
<1>1. /\ Linked(h, l, c[l]) /\ c[l] \in Seq(Items) /\ NoRepeats(c[l])
      /\ Len(c[l]) \in Nat
  BY DEF Holds, Ring
<1>2. k \in 0 .. Len(c[l]) /\ ~(k < k) BY <1>1
<1>3. h.next[NodeAt(l, c[l], k)] = NodeAt(l, c[l], k + 1)
  BY <1>1, <1>2 DEF Linked
<1>4. NodeAt(l, c[l], k) = c[l][k] BY DEF NodeAt
<1>5. NodeAt(l, Without(c[l], k), k) = NodeAt(l, c[l], k + 1)
  BY <1>1, <1>2, WithoutOne
<1> QED BY <1>3, <1>4, <1>5 DEF EraseReturns

(* A step that erases one item.                                            *)
LEMMA ItemTaken ==
  ASSUME Holds(heap, Contents), NEW l \in Lists,
         NEW k \in 1 .. Len(Contents[l]),
         heap' = erase(heap, Contents[l][k])
  PROVE  /\ Holds(heap', Contents')
         /\ Contents'[l] = Without(Contents[l], k)
         /\ \A m \in Lists : m # l => Contents'[m] = Contents[m]
         /\ Contents[l][k] \in Items /\ Contents[l][k] \in Everywhere(Contents)
         /\ Everywhere(Contents') = Everywhere(Contents) \ {Contents[l][k]}
         /\ Abstract!Next
<1> DEFINE d == Less(Contents, l, k)
<1>1. Holds(heap', d) BY EraseRemovesOne DEF Less
<1> HIDE DEF d
<1>2. d = Contents' BY <1>1, HoldsContents DEF Contents
<1>3. /\ d[l] = Without(Contents[l], k)
      /\ \A m \in Lists : m # l => d[m] = Contents[m]
      /\ Contents[l][k] \in Items /\ Contents[l][k] \in Everywhere(Contents)
      /\ Everywhere(d) = Everywhere(Contents) \ {Contents[l][k]}
      /\ Abstract!Removed(Contents, d, l)
  BY OneLess DEF d
<1>4. Abstract!Step(Contents, Contents')
  BY <1>2, <1>3 DEF Abstract!Step
<1>5. Abstract!Next BY <1>4 DEF Abstract!Next
<1> QED BY <1>1, <1>2, <1>3, <1>5

(* A step that adds one item.                                              *)
LEMMA ItemGiven ==
  ASSUME Holds(heap, Contents), NEW l \in Lists,
         NEW k \in 1 .. Len(Contents[l]) + 1,
         NEW x \in Items, x \notin Everywhere(Contents),
         Holds(heap', [Contents EXCEPT ![l] = With(Contents[l], k, x)])
  PROVE  /\ Holds(heap', Contents')
         /\ Contents'[l] = With(Contents[l], k, x)
         /\ \A m \in Lists : m # l => Contents'[m] = Contents[m]
         /\ Everywhere(Contents') = Everywhere(Contents) \cup {x}
         /\ Abstract!Next
<1> DEFINE d == More(Contents, l, k, x)
<1>1. Holds(heap', d) BY DEF More
<1> HIDE DEF d
<1>2. d = Contents' BY <1>1, HoldsContents DEF Contents
<1>3. /\ d[l] = With(Contents[l], k, x)
      /\ \A m \in Lists : m # l => d[m] = Contents[m]
      /\ Everywhere(d) = Everywhere(Contents) \cup {x}
      /\ Abstract!Added(Contents, d, l)
  BY OneMore DEF d
<1>4. Abstract!Step(Contents, Contents')
  BY <1>2, <1>3 DEF Abstract!Step
<1>5. Abstract!Next BY <1>4 DEF Abstract!Next
<1> QED BY <1>1, <1>2, <1>3, <1>5

(* push_back of an item of no list.                                        *)
LEMMA ItemPushed ==
  ASSUME Holds(heap, Contents), NEW l \in Lists,
         NEW x \in Items, x \notin Everywhere(Contents),
         heap' = push_back(heap, l, x)
  PROVE  /\ Holds(heap', Contents')
         /\ Contents'[l] = With(Contents[l], Len(Contents[l]) + 1, x)
         /\ \A m \in Lists : m # l => Contents'[m] = Contents[m]
         /\ Everywhere(Contents') = Everywhere(Contents) \cup {x}
         /\ Abstract!Next
<1>1. Contents[l] \in Seq(Items) BY DEF Holds
<1>2. Len(Contents[l]) + 1 \in 1 .. Len(Contents[l]) + 1 BY <1>1
<1>3. Holds(heap', [Contents EXCEPT
                      ![l] = With(Contents[l], Len(Contents[l]) + 1, x)])
  BY PushBackAppends
<1> QED BY <1>2, <1>3, ItemGiven

(* A step that moves one item.                                             *)
LEMMA ItemMoved ==
  ASSUME Holds(heap, Contents), NEW from \in Lists, NEW to \in Lists,
         from # to, NEW k \in 1 .. Len(Contents[from]),
         NEW p \in 1 .. Len(Contents[to]) + 1,
         heap' = insert(erase(heap, Contents[from][k]), Contents[from][k],
                        NodeAt(to, Contents[to], p))
  PROVE  /\ Holds(heap', Contents')
         /\ Contents'[from] = Without(Contents[from], k)
         /\ Contents'[to] = With(Contents[to], p, Contents[from][k])
         /\ \A m \in Lists : m # from /\ m # to =>
              Contents'[m] = Contents[m]
         /\ Everywhere(Contents') = Everywhere(Contents)
         /\ Abstract!Next
<1> DEFINE x == Contents[from][k]
           g == erase(heap, x)
           c == Less(Contents, from, k)
           d == More(c, to, p, x)
<1>1. Holds(g, c) BY EraseRemovesOne DEF Less
<1> HIDE DEF g
<1>2. /\ c[from] = Without(Contents[from], k)
      /\ \A m \in Lists : m # from => c[m] = Contents[m]
      /\ x \in Items /\ x \in Everywhere(Contents)
      /\ Everywhere(c) = Everywhere(Contents) \ {x}
  BY OneLess
<1> HIDE DEF c, x
<1>3. c[to] = Contents[to] /\ x \notin Everywhere(c) BY <1>2
<1>4. Holds(insert(g, x, NodeAt(to, c[to], p)), d)
  BY <1>1, <1>2, <1>3, InsertAddsOne DEF More
<1>5. heap' = insert(g, x, NodeAt(to, c[to], p)) BY <1>3 DEF g, x
<1>6. Holds(heap', d) BY <1>4, <1>5
<1>7. /\ d[to] = With(c[to], p, x)
      /\ \A m \in Lists : m # to => d[m] = c[m]
      /\ Everywhere(d) = Everywhere(c) \cup {x}
  <2>1. p \in 1 .. Len(c[to]) + 1 BY <1>3
  <2> QED BY <1>1, <1>2, <1>3, <2>1, OneMore
<1>8. Abstract!Moved(Contents, d, from, to)
  <2>1. /\ Contents \in [Lists -> Seq(Items)]
        /\ Contents[from] \in Seq(Items) /\ Contents[to] \in Seq(Items)
    BY DEF Holds
  <2>2. /\ Abstract!RemoveAt(Contents[from], k) = Without(Contents[from], k)
        /\ Abstract!InsertAt(Contents[to], p, x)
             = With(Contents[to], p, x)
    BY <1>2, <2>1, InsertAtIs, RemoveAtIs
  <2>3. d = [Contents EXCEPT
               ![from] = Abstract!RemoveAt(Contents[from], k),
               ![to] = Abstract!InsertAt(Contents[to], p, x)]
    BY <1>3, <2>1, <2>2 DEF c, Less, More
  <2> HIDE DEF d
  <2> QED BY <2>1, <2>3 DEF Abstract!Moved, x
<1> HIDE DEF d
<1>9. d = Contents' BY <1>6, HoldsContents DEF Contents
<1>10. Abstract!Step(Contents, Contents')
  BY <1>8, <1>9 DEF Abstract!Step
<1>11. Abstract!Next BY <1>10 DEF Abstract!Next
<1>12. Everywhere(d) = Everywhere(Contents) BY <1>2, <1>7
<1> QED BY <1>2, <1>3, <1>6, <1>7, <1>9, <1>11, <1>12 DEF x

-----------------------------------------------------------------------------
(* What a step leaves alone.                                               *)

(* A step that leaves the list a loop walks leaves the loop where it is.   *)
LEMMA FrontIsKept ==
  ASSUME AtTheFront, at' = at, it' = it,
         at \in {"return", "put"} => Contents'["tmp"] = Contents["tmp"],
         at = "clear" => Contents'["pool_list_"] = Contents["pool_list_"]
  PROVE  AtTheFront'
BY DEF AtTheFront

(* A step that leaves both lists of a splice leaves it where it is.        *)
LEMMA SpliceIsKept ==
  ASSUME SpliceOnItsWay, at' = at, UNCHANGED iterVars,
         at = "splice" => \A l \in UserLists : Contents'[l] = Contents[l]
  PROVE  SpliceOnItsWay'
<1> SUFFICES ASSUME at' = "splice" PROVE SpliceOnItsWay'
  BY DEF SpliceOnItsWay
<1>1. /\ goal.to \in UserLists /\ goal.from \in UserLists
      /\ goal.to # goal.from /\ goal' = goal
      /\ it' = it /\ last' = last /\ before' = before
  BY DEF SpliceOnItsWay, iterVars
<1>2. PICK lo \in 1 .. Len(Contents[goal.from]) + 1,
           hi \in 1 .. Len(Contents[goal.from]) + 1,
           p \in 1 .. Len(Contents[goal.to]) + 1 :
             Splicing(goal.to, goal.from, lo, hi, p)
  BY DEF SpliceOnItsWay
<1>3. /\ Contents'[goal.to] = Contents[goal.to]
      /\ Contents'[goal.from] = Contents[goal.from]
  BY <1>1
<1>4. Splicing(goal.to, goal.from, lo, hi, p)'
  BY <1>1, <1>2, <1>3 DEF Splicing
<1> QED BY <1>1, <1>3, <1>4 DEF SpliceOnItsWay

(* A step that leaves the heap leaves the lists.                           *)
LEMMA SameHeap ==
  ASSUME heap' = heap
  PROVE  Contents' = Contents
BY DEF Contents

(* The lists' names.                                                       *)
LEMMA Names ==
  /\ "pool_list_" \in Lists /\ "pending_" \in Lists /\ "tmp" \in Lists
  /\ UserLists = {"pending_", "tmp"} /\ UserLists \subseteq Lists
  /\ "pool_list_" \notin UserLists
  /\ \A l \in Lists : l \notin Items /\ l # Null
  /\ Null \notin Items
BY PoolAssumption, NodesAssumption DEF UserLists

(* What the invariant says about owners.                                   *)
LEMMA Owners ==
  ASSUME Inv
  PROVE  /\ Everywhere(Contents) \subseteq Items
         /\ held \subseteq Items /\ alive \subseteq Items
         /\ Everywhere(Contents) \subseteq alive
<1>1. Everywhere(Contents) \subseteq Items
  BY EverywhereItems DEF Inv
<1> QED BY <1>1 DEF Inv, OneOwner, TypeOK

-----------------------------------------------------------------------------
(* Init and the steps, one by one.                                         *)

(* The invariant holds initially, and the lists are ItemLists's.           *)
LEMMA InitInv ==
  ASSUME Init
  PROVE  Inv /\ Abstract!Init
<1> DEFINE c == [l \in Lists |-> <<>>]
<1>1. Holds(heap, c) BY EmptyHeapHolds DEF Init
<1> HIDE DEF c
<1>2. c = Contents BY <1>1, HoldsContents DEF Contents
<1>3. Everywhere(Contents) = {}
  <2>1. \A l \in Lists : MembersOf(Contents[l]) = {}
    BY <1>2 DEF c, MembersOf
  <2> QED BY <2>1 DEF Everywhere
<1>4. heap \in Heaps BY <1>1 DEF Holds
<1>5. TypeOK BY <1>4, PoolAssumption DEF Init, TypeOK, Nodes
<1>6. OneOwner
  <2>1. Null \notin held BY Names DEF Init
  <2> QED BY <1>3, <2>1 DEF Init, OneOwner
<1>7. MineWhilePut /\ AtTheFront /\ SpliceOnItsWay
  BY DEF Init, MineWhilePut, AtTheFront, SpliceOnItsWay
<1>8. Inv BY <1>1, <1>2, <1>5, <1>6, <1>7 DEF Inv
<1>9. Abstract!Init BY <1>2 DEF Abstract!Init, c
<1> QED BY <1>8, <1>9

Refines == Abstract!Next \/ UNCHANGED Contents

(* get() from a pool with items.                                           *)
LEMMA GetInv ==
  ASSUME Inv, Get
  PROVE  Inv' /\ Refines
<1> DEFINE l == "pool_list_"
           x == begin(heap, l)
<1>0. Holds(heap, Contents) /\ l \in Lists BY Names DEF Inv
<1>1. x # l BY DEF Get, empty, begin
<1>2. 1 \in 1 .. Len(Contents[l]) /\ x = Contents[l][1]
  BY <1>0, <1>1, BeginIs
<1>3. heap' = erase(heap, x) /\ held' = held \cup {x}
  BY DEF Get
<1>4. /\ Holds(heap', Contents')
      /\ \A m \in Lists : m # l => Contents'[m] = Contents[m]
      /\ x \in Items /\ x \in Everywhere(Contents)
      /\ Everywhere(Contents') = Everywhere(Contents) \ {x}
      /\ Abstract!Next
  BY <1>0, <1>2, <1>3, ItemTaken
<1> HIDE DEF x
<1>5. /\ UNCHANGED <<client, alive, at, filled, iterVars>>
      /\ UNCHANGED <<it, last, before, mine, goal>> /\ at # "clear"
  BY DEF Get, iterVars, PoolLocked
<1>6. TypeOK'
  BY <1>3, <1>4, <1>5, Owners DEF TypeOK, Inv, Holds
<1>7. OneOwner'
  BY <1>3, <1>4, <1>5, Names DEF Inv, OneOwner
<1>8. MineWhilePut' BY <1>5 DEF Inv, MineWhilePut
<1>9. AtTheFront' BY <1>4, <1>5, Names, FrontIsKept DEF Inv
<1>10. SpliceOnItsWay' BY <1>4, <1>5, Names, SpliceIsKept DEF Inv
<1> QED BY <1>4, <1>6, <1>7, <1>8, <1>9, <1>10 DEF Inv, Refines

(* get() from an empty pool.                                               *)
LEMMA GetNewInv ==
  ASSUME Inv, NEW i \in Items, GetNew(i)
  PROVE  Inv' /\ Refines
<1>0. Holds(heap, Contents) BY DEF Inv
<1>1. /\ i \notin alive /\ alive' = alive \cup {i} /\ held' = held \cup {i}
      /\ heap' = Unlinked(heap, i) /\ at # "clear"
      /\ UNCHANGED <<client, at, filled, iterVars>>
      /\ UNCHANGED <<it, last, before, mine, goal>>
  BY DEF GetNew, allocate_item, iterVars, PoolLocked
<1>2. i \notin Everywhere(Contents) BY <1>1, Owners
<1>3. Holds(heap', Contents)
  BY <1>0, <1>1, <1>2, UnlinkedTouchesNoList
<1>4. Contents' = Contents BY <1>3, HoldsContents DEF Contents
<1>5. TypeOK' BY <1>1, <1>3, Owners DEF TypeOK, Inv, Holds
<1>6. OneOwner' BY <1>1, <1>2, <1>4, Names DEF Inv, OneOwner
<1>7. MineWhilePut' BY <1>1 DEF Inv, MineWhilePut
<1>8. AtTheFront' BY <1>1, <1>4, FrontIsKept DEF Inv
<1>9. SpliceOnItsWay' BY <1>1, <1>4, SpliceIsKept DEF Inv
<1> QED BY <1>3, <1>4, <1>5, <1>6, <1>7, <1>8, <1>9 DEF Inv, Refines

(* A writer's item goes to the pool or to pending_.                        *)
LEMMA HeldPushed ==
  ASSUME Inv, NEW i \in Items, i \in held, NEW l \in Lists,
         heap' = push_back(heap, l, i), held' = held \ {i},
         UNCHANGED <<client, alive, at, filled, iterVars>>,
         at \in {"return", "put"} => l # "tmp",
         at = "clear" => l # "pool_list_",
         at = "splice" => l \notin UserLists
  PROVE  Inv' /\ Refines
<1>0. Holds(heap, Contents) BY DEF Inv
<1>1. i \notin Everywhere(Contents) BY DEF Inv, OneOwner
<1>2. /\ Holds(heap', Contents')
      /\ \A m \in Lists : m # l => Contents'[m] = Contents[m]
      /\ Everywhere(Contents') = Everywhere(Contents) \cup {i}
      /\ Abstract!Next
  BY <1>0, <1>1, ItemPushed
<1>3. UNCHANGED <<it, last, before, mine, goal>> BY DEF iterVars
<1>4. TypeOK' BY <1>2, <1>3, Owners DEF TypeOK, Inv, Holds
<1>5. OneOwner' BY <1>2, <1>3, Names DEF Inv, OneOwner
<1>6. MineWhilePut' BY <1>3 DEF Inv, MineWhilePut
<1>7. AtTheFront' BY <1>2, <1>3, Names, FrontIsKept DEF Inv
<1>8. SpliceOnItsWay' BY <1>2, Names, SpliceIsKept DEF Inv
<1> QED BY <1>2, <1>4, <1>5, <1>6, <1>7, <1>8 DEF Inv, Refines

(* PoolItemDeleter.                                                        *)
LEMMA PutInv ==
  ASSUME Inv, NEW i \in Items, Put(i)
  PROVE  Inv' /\ Refines
BY HeldPushed, Names DEF Put, PoolLocked

(* write_frame.                                                            *)
LEMMA WriteFrameInv ==
  ASSUME Inv, NEW i \in Items, WriteFrame(i)
  PROVE  Inv' /\ Refines
BY HeldPushed, Names DEF WriteFrame, DataLocked

(* One turn of fill.                                                       *)
LEMMA FillInv ==
  ASSUME Inv, NEW i \in Items, Fill(i)
  PROVE  Inv' /\ Refines
<1> DEFINE l == "pool_list_"
           g == Unlinked(heap, i)
           s == Contents[l]
<1>0. Holds(heap, Contents) /\ l \in Lists BY Names DEF Inv
<1>1. /\ i \notin alive /\ alive' = alive \cup {i} /\ held' = held
      /\ heap' = push_back(g, l, i) /\ at = "fill" /\ at' = at
      /\ filled < PoolSize /\ filled' = filled + 1
      /\ UNCHANGED <<client, iterVars>>
      /\ UNCHANGED <<it, last, before, mine, goal>>
  BY DEF Fill, allocate_item, iterVars
<1>2. i \notin Everywhere(Contents) BY <1>1, Owners
<1>3. Holds(g, Contents) BY <1>0, <1>2, UnlinkedTouchesNoList
<1> HIDE DEF g
<1>4. Len(s) + 1 \in 1 .. Len(s) + 1
  <2>1. s \in Seq(Items) BY <1>0 DEF Holds
  <2> QED BY <2>1
<1>5. Holds(heap', [Contents EXCEPT ![l] = With(s, Len(s) + 1, i)])
  BY <1>0, <1>1, <1>2, <1>3, PushBackAppends
<1>6. /\ Holds(heap', Contents')
      /\ \A m \in Lists : m # l => Contents'[m] = Contents[m]
      /\ Everywhere(Contents') = Everywhere(Contents) \cup {i}
      /\ Abstract!Next
  BY <1>0, <1>2, <1>4, <1>5, ItemGiven
<1>7. TypeOK'
  BY <1>1, <1>6, Owners, PoolAssumption DEF TypeOK, Inv, Holds
<1>8. OneOwner' BY <1>1, <1>2, <1>6, Names DEF Inv, OneOwner
<1>9. MineWhilePut' BY <1>1 DEF Inv, MineWhilePut
<1>10. AtTheFront' BY <1>1, FrontIsKept DEF Inv
<1>11. SpliceOnItsWay' BY <1>1, SpliceIsKept DEF Inv
<1> QED BY <1>6, <1>7, <1>8, <1>9, <1>10, <1>11 DEF Inv, Refines

(* The steps that only change where the media thread is.                   *)
LEMMA ControlInv ==
  ASSUME Inv, FillDone \/ ClearStart \/ ClearDone \/ ReturnDone
  PROVE  Inv' /\ Refines
<1>0. Holds(heap, Contents) BY DEF Inv
<1>1. /\ heap' = heap /\ at \in {"fill", "idle", "clear", "return"}
      /\ at' \in {"idle", "clear"}
      /\ at' = "clear" => it' = begin(heap, "pool_list_")
      /\ it' \in {it, Null, begin(heap, "pool_list_")}
      /\ UNCHANGED <<client, alive, held, filled, last, before, mine, goal>>
  BY DEF FillDone, ClearStart, ClearDone, ReturnDone, iterVars
<1>2. Contents' = Contents BY <1>1, SameHeap
<1>3. begin(heap, "pool_list_") =
        NodeAt("pool_list_", Contents["pool_list_"], 1)
  BY <1>0, Names, BeginIs
<1>4. begin(heap, "pool_list_") \in Nodes \cup {Null}
  BY Names DEF begin, Inv, TypeOK, Heaps, Nodes
<1>5. TypeOK'
  <2>1. it' \in Nodes \cup {Null} BY <1>1, <1>4 DEF Inv, TypeOK
  <2> QED BY <1>1, <2>1 DEF TypeOK, Inv
<1>6. OneOwner' BY <1>1, <1>2 DEF Inv, OneOwner
<1>7. MineWhilePut' BY <1>1 DEF Inv, MineWhilePut
<1>8. AtTheFront' BY <1>1, <1>2, <1>3 DEF AtTheFront
<1>9. SpliceOnItsWay' BY <1>1 DEF SpliceOnItsWay
<1>10. Holds(heap', Contents') BY <1>0, <1>1, <1>2
<1> QED BY <1>2, <1>5, <1>6, <1>7, <1>8, <1>9, <1>10 DEF Inv, Refines

(* The first item of a list a loop empties.                                *)
LEMMA EmptyingStep ==
  ASSUME Holds(heap, Contents), NEW l \in Lists,
         it = NodeAt(l, Contents[l], 1), it # l, heap' = erase(heap, it)
  PROVE  /\ Holds(heap', Contents')
         /\ EraseReturns(heap, it) = NodeAt(l, Contents'[l], 1)
         /\ EraseReturns(heap, it) \in Nodes
         /\ it \in Items /\ it \in Everywhere(Contents)
         /\ Everywhere(Contents') = Everywhere(Contents) \ {it}
         /\ Abstract!Next
<1>1. 1 \in 1 .. Len(Contents[l]) /\ it = Contents[l][1] BY DEF NodeAt
<1>2. /\ Holds(heap', Contents')
      /\ Contents'[l] = Without(Contents[l], 1)
      /\ it \in Items /\ it \in Everywhere(Contents)
      /\ Everywhere(Contents') = Everywhere(Contents) \ {it}
      /\ Abstract!Next
  BY <1>1, ItemTaken
<1>3. EraseReturns(heap, it) = NodeAt(l, Contents'[l], 1)
  BY <1>1, <1>2, EraseReturnsNext
<1>4. NodeAt(l, Contents'[l], 1) \in Nodes
  <2>1. Contents'[l] \in Seq(Items) BY <1>2 DEF Holds
  <2> QED BY <2>1 DEF NodeAt, Nodes
<1> QED BY <1>2, <1>3, <1>4

(* One turn of clear().                                                    *)
LEMMA ClearStepInv ==
  ASSUME Inv, ClearStep
  PROVE  Inv' /\ Refines
<1> DEFINE l == "pool_list_"
<1>0. Holds(heap, Contents) /\ l \in Lists BY Names DEF Inv
<1>1. /\ at = "clear" /\ it # l /\ heap' = erase(heap, it)
      /\ it' = EraseReturns(heap, it) /\ alive' = alive \ {it}
      /\ UNCHANGED <<client, held, at, filled, last, before, mine, goal>>
  BY DEF ClearStep, end
<1>2. it = NodeAt(l, Contents[l], 1) BY <1>1 DEF Inv, AtTheFront
<1>3. /\ Holds(heap', Contents') /\ it' = NodeAt(l, Contents'[l], 1)
      /\ it' \in Nodes
      /\ it \in Items /\ it \in Everywhere(Contents)
      /\ Everywhere(Contents') = Everywhere(Contents) \ {it}
      /\ Abstract!Next
  BY <1>0, <1>1, <1>2, EmptyingStep
<1>4. it \notin held /\ mine = Null
  BY <1>1, <1>3 DEF Inv, OneOwner, MineWhilePut
<1>5. TypeOK' BY <1>1, <1>3, <1>4 DEF TypeOK, Inv, Holds
<1>6. OneOwner' BY <1>1, <1>3, <1>4, Names DEF Inv, OneOwner
<1>7. MineWhilePut' BY <1>1 DEF Inv, MineWhilePut
<1>8. AtTheFront' BY <1>1, <1>3 DEF AtTheFront
<1>9. SpliceOnItsWay' BY <1>1 DEF SpliceOnItsWay
<1> QED BY <1>3, <1>5, <1>6, <1>7, <1>8, <1>9 DEF Inv, Refines

(* One turn of ~ReturnToPoolGuard: erase.                                  *)
LEMMA ReturnEraseInv ==
  ASSUME Inv, ReturnErase
  PROVE  Inv' /\ Refines
<1> DEFINE l == "tmp"
<1>0. Holds(heap, Contents) /\ l \in Lists BY Names DEF Inv
<1>1. /\ at = "return" /\ it # l /\ heap' = erase(heap, it)
      /\ at' = "put" /\ mine' = it /\ it' = EraseReturns(heap, it)
      /\ UNCHANGED <<client, alive, held, filled, last, before, goal>>
  BY DEF ReturnErase, end
<1>2. it = NodeAt(l, Contents[l], 1) BY <1>1 DEF Inv, AtTheFront
<1>3. /\ Holds(heap', Contents') /\ it' = NodeAt(l, Contents'[l], 1)
      /\ it' \in Nodes
      /\ it \in Items /\ it \in Everywhere(Contents)
      /\ Everywhere(Contents') = Everywhere(Contents) \ {it}
      /\ Abstract!Next
  BY <1>0, <1>1, <1>2, EmptyingStep
<1>4. it \notin held /\ mine = Null
  BY <1>1, <1>3 DEF Inv, OneOwner, MineWhilePut
<1>5. TypeOK' BY <1>1, <1>3, <1>4 DEF TypeOK, Inv, Holds
<1>6. OneOwner' BY <1>1, <1>3, <1>4, Names DEF Inv, OneOwner
<1>7. MineWhilePut' BY <1>1, <1>3 DEF MineWhilePut
<1>8. AtTheFront' BY <1>1, <1>3 DEF AtTheFront
<1>9. SpliceOnItsWay' BY <1>1 DEF SpliceOnItsWay
<1> QED BY <1>3, <1>5, <1>6, <1>7, <1>8, <1>9 DEF Inv, Refines

(* One turn of ~ReturnToPoolGuard: put.                                    *)
LEMMA ReturnPutInv ==
  ASSUME Inv, ReturnPut
  PROVE  Inv' /\ Refines
<1> DEFINE l == "pool_list_"
<1>0. Holds(heap, Contents) /\ l \in Lists BY Names DEF Inv
<1>1. /\ at = "put" /\ at' = "return" /\ heap' = push_back(heap, l, mine)
      /\ mine' = Null
      /\ UNCHANGED <<client, alive, held, filled, it, last, before, goal>>
  BY DEF ReturnPut
<1>2. mine \in Items /\ mine \notin held /\ mine \notin Everywhere(Contents)
  BY <1>1 DEF Inv, OneOwner, MineWhilePut
<1>3. /\ Holds(heap', Contents')
      /\ \A m \in Lists : m # l => Contents'[m] = Contents[m]
      /\ Everywhere(Contents') = Everywhere(Contents) \cup {mine}
      /\ Abstract!Next
  BY <1>0, <1>1, <1>2, ItemPushed
<1>4. TypeOK' BY <1>1, <1>3 DEF TypeOK, Inv, Holds
<1>5. OneOwner' BY <1>1, <1>2, <1>3, Owners, Names DEF Inv, OneOwner
<1>6. MineWhilePut' BY <1>1 DEF MineWhilePut
<1>7. AtTheFront'
  <2>1. Contents'["tmp"] = Contents["tmp"] BY <1>3, Names
  <2> QED BY <1>1, <2>1 DEF Inv, AtTheFront
<1>8. SpliceOnItsWay' BY <1>1 DEF SpliceOnItsWay
<1> QED BY <1>3, <1>4, <1>5, <1>6, <1>7, <1>8 DEF Inv, Refines

-----------------------------------------------------------------------------
(* splice.                                                                 *)

(* Every iterator of a list is at a place of its ring.                     *)
LEMMA PlaceIs ==
  ASSUME NEW l \in Lists, NEW s \in Seq(Items),
         NEW n \in MembersOf(s) \cup {l}
  PROVE  PlaceOf(s, n) \in 1 .. Len(s) + 1 /\ NodeAt(l, s, PlaceOf(s, n)) = n
<1>1. Len(s) \in Nat /\ l \notin Items BY Names
<1>2. CASE n = l BY <1>1, <1>2 DEF PlaceOf, NodeAt
<1>3. CASE n \in MembersOf(s)
  <2>1. \E k \in 1 .. Len(s) : s[k] = n BY <1>3 DEF MembersOf
  <2>2. n \in Items BY <2>1
  <2>3. PlaceOf(s, n) \in 1 .. Len(s) /\ s[PlaceOf(s, n)] = n
    BY <2>1, <2>2 DEF PlaceOf
  <2> QED BY <1>1, <2>3 DEF NodeAt
<1> QED BY <1>2, <1>3

(* What a range-for sees, as a set.                                        *)
LEMMA ElementSetIs ==
  ASSUME NEW l \in Lists
  PROVE  ElementSet(heap, l) = MembersOf(Contents[l])
BY DEF ElementSet, MembersOf, Contents

(* splice is called with iterators of its two lists.                       *)
LEMMA StartSpliceInv ==
  ASSUME Inv, at = "idle",
         NEW to \in UserLists, NEW from \in UserLists, to # from,
         NEW b \in ElementSet(heap, to) \cup {to},
         NEW first \in ElementSet(heap, from) \cup {from},
         NEW stop \in ElementSet(heap, from) \cup {from},
         StartSplice(to, b, from, first, stop)
  PROVE  Inv' /\ Refines
<1> DEFINE src == Contents[from]
           dst == Contents[to]
<1>0. /\ Holds(heap, Contents) /\ to \in Lists /\ from \in Lists
      /\ src \in Seq(Items) /\ dst \in Seq(Items)
  BY Names DEF Inv, Holds
<1>1. /\ src = Elements(heap, from) /\ dst = Elements(heap, to)
  BY <1>0 DEF Contents
<1>2. PICK lo \in 1 .. Len(src) + 1, hi \in 1 .. Len(src) + 1,
           p \in 1 .. Len(dst) + 1 :
             /\ lo = PlaceOf(src, first) /\ NodeAt(from, src, lo) = first
             /\ hi = PlaceOf(src, stop) /\ NodeAt(from, src, hi) = stop
             /\ p = PlaceOf(dst, b) /\ NodeAt(to, dst, p) = b
  <2>1. /\ first \in MembersOf(src) \cup {from}
        /\ stop \in MembersOf(src) \cup {from}
        /\ b \in MembersOf(dst) \cup {to}
    BY <1>0, ElementSetIs
  <2> HIDE DEF src, dst
  <2>2. /\ PlaceOf(src, first) \in 1 .. Len(src) + 1
        /\ NodeAt(from, src, PlaceOf(src, first)) = first
    BY <1>0, <2>1, PlaceIs
  <2>3. /\ PlaceOf(src, stop) \in 1 .. Len(src) + 1
        /\ NodeAt(from, src, PlaceOf(src, stop)) = stop
    BY <1>0, <2>1, PlaceIs
  <2>4. /\ PlaceOf(dst, b) \in 1 .. Len(dst) + 1
        /\ NodeAt(to, dst, PlaceOf(dst, b)) = b
    BY <1>0, <2>1, PlaceIs
  <2> QED BY <2>2, <2>3, <2>4
<1>3. /\ lo <= hi /\ at' = "splice"
      /\ it' = first /\ last' = stop /\ before' = b
      /\ goal' = [to |-> to, from |-> from,
                  target |-> SubSeq(dst, 1, p - 1) \o SubSeq(src, lo, hi - 1)
                             \o SubSeq(dst, p, Len(dst)),
                  source |-> SubSeq(src, 1, lo - 1)
                             \o SubSeq(src, hi, Len(src))]
      /\ UNCHANGED <<client, heap, alive, held, filled, mine>>
  <2>1. /\ PlaceOf(src, first) <= PlaceOf(src, stop) /\ at' = "splice"
        /\ it' = first /\ last' = stop /\ before' = b
        /\ UNCHANGED <<client, heap, alive, held, filled, mine>>
    BY <1>1 DEF StartSplice
  <2>2. goal' = [to |-> to, from |-> from,
                 target |-> SubSeq(dst, 1, PlaceOf(dst, b) - 1)
                            \o SubSeq(src, PlaceOf(src, first),
                                      PlaceOf(src, stop) - 1)
                            \o SubSeq(dst, PlaceOf(dst, b), Len(dst)),
                 source |-> SubSeq(src, 1, PlaceOf(src, first) - 1)
                            \o SubSeq(src, PlaceOf(src, stop), Len(src))]
    BY <1>1 DEF StartSplice
  <2> HIDE DEF src, dst
  <2> QED BY <1>2, <2>1, <2>2
<1>4. goal' = [to |-> to, from |-> from,
               target |-> Merged(dst, p, src, lo, hi),
               source |-> Rest(src, lo, hi)]
  <2> HIDE DEF src, dst
  <2>1. /\ SubSeq(dst, 1, p - 1) \o SubSeq(src, lo, hi - 1)
             \o SubSeq(dst, p, Len(dst)) = Merged(dst, p, src, lo, hi)
        /\ SubSeq(src, 1, lo - 1) \o SubSeq(src, hi, Len(src))
             = Rest(src, lo, hi)
    <3>1. lo <= hi BY <1>3
    <3>2. dst \in Seq(Items) /\ src \in Seq(Items) BY <1>0
    <3> QED BY <3>1, <3>2, GoalIsMerged
  <2> QED BY <1>3, <2>1
<1>5. Contents' = Contents BY <1>3, SameHeap
<1>6. Splicing(to, from, lo, hi, p)'
  <2>1. Contents'[to] = dst /\ Contents'[from] = src BY <1>5
  <2>2. goal'.target = Merged(dst, p, src, lo, hi)
        /\ goal'.source = Rest(src, lo, hi)
    BY <1>4
  <2> HIDE DEF src, dst
  <2> QED BY <1>2, <1>3, <2>1, <2>2 DEF Splicing
<1>7. SpliceOnItsWay'
  BY <1>2, <1>4, <1>5, <1>6 DEF SpliceOnItsWay
<1>8. {first, stop, b} \subseteq Nodes
  <2>1. MembersOf(src) \subseteq Items /\ MembersOf(dst) \subseteq Items
    BY <1>0 DEF MembersOf
  <2> QED BY <1>0, <2>1, ElementSetIs DEF Nodes
<1>9. TypeOK' BY <1>3, <1>8 DEF TypeOK, Inv
<1>10. OneOwner' BY <1>3, <1>5 DEF Inv, OneOwner
<1>11. MineWhilePut' BY <1>3 DEF Inv, MineWhilePut
<1>12. AtTheFront' BY <1>3 DEF AtTheFront
<1>13. Holds(heap', Contents') BY <1>0, <1>3, <1>5
<1> QED BY <1>5, <1>7, <1>9, <1>10, <1>11, <1>12, <1>13 DEF Inv, Refines

(* dispatch's splice.                                                      *)
LEMMA DispatchInv ==
  ASSUME Inv, Dispatch
  PROVE  Inv' /\ Refines
<1>0. /\ Holds(heap, Contents) /\ at = "idle"
      /\ "tmp" \in UserLists /\ "pending_" \in UserLists
      /\ "tmp" \in Lists /\ "pending_" \in Lists
      /\ StartSplice("tmp", begin(heap, "tmp"), "pending_",
                     begin(heap, "pending_"), "pending_")
  BY Names DEF Inv, Dispatch, end
<1>1. ASSUME NEW l \in Lists
      PROVE  begin(heap, l) \in ElementSet(heap, l) \cup {l}
  <2>1. begin(heap, l) # l =>
          1 \in 1 .. Len(Contents[l]) /\ begin(heap, l) = Contents[l][1]
    BY <1>0, BeginIs
  <2> QED BY <2>1, ElementSetIs DEF MembersOf
<1> QED BY <1>0, <1>1, StartSpliceInv

(* One turn of splice.                                                     *)
LEMMA SpliceStepInv ==
  ASSUME Inv, SpliceStep
  PROVE  Inv' /\ Refines
<1> DEFINE to == goal.to
           from == goal.from
           dst == Contents[to]
           src == Contents[from]
<1>0. /\ to \in UserLists /\ from \in UserLists /\ to # from
      /\ to \in Lists /\ from \in Lists /\ Holds(heap, Contents)
      /\ dst \in Seq(Items) /\ src \in Seq(Items)
      /\ NoRepeats(dst) /\ NoRepeats(src)
      /\ Len(dst) \in Nat /\ Len(src) \in Nat
  <2>1. to \in UserLists /\ from \in UserLists /\ to # from
    BY DEF Inv, SpliceOnItsWay, SpliceStep
  <2> QED BY <2>1, Names DEF Inv, Holds, Ring
<1>1. PICK lo \in 1 .. Len(src) + 1, hi \in 1 .. Len(src) + 1,
           p \in 1 .. Len(dst) + 1 : Splicing(to, from, lo, hi, p)
  BY DEF Inv, SpliceOnItsWay, SpliceStep
<1>2. /\ lo <= hi /\ it = NodeAt(from, src, lo)
      /\ last = NodeAt(from, src, hi) /\ before = NodeAt(to, dst, p)
      /\ goal.target = Merged(dst, p, src, lo, hi)
      /\ goal.source = Rest(src, lo, hi)
  BY <1>1 DEF Splicing
<1>3. /\ at = "splice" /\ at' = at /\ it # last
      /\ it' = EraseReturns(heap, it)
      /\ heap' = insert(erase(heap, it), it, before)
      /\ before' = before
      /\ UNCHANGED <<client, alive, held, filled, last, mine, goal>>
  BY DEF SpliceStep, InsertReturns
<1>4. lo # hi BY <1>2, <1>3
<1>5. lo < hi /\ lo \in 1 .. Len(src) BY <1>0, <1>2, <1>4
<1>6. it = src[lo] BY <1>2, <1>5 DEF NodeAt
<1>7. /\ Holds(heap', Contents')
      /\ Contents'[from] = Without(src, lo)
      /\ Contents'[to] = With(dst, p, it)
      /\ Everywhere(Contents') = Everywhere(Contents)
      /\ Abstract!Next
  <2>1. heap' = insert(erase(heap, Contents[from][lo]), Contents[from][lo],
                       NodeAt(to, Contents[to], p))
    BY <1>2, <1>3, <1>6
  <2> HIDE DEF from, to
  <2>2. /\ Holds(heap', Contents')
        /\ Contents'[from] = Without(Contents[from], lo)
        /\ Contents'[to] = With(Contents[to], p, Contents[from][lo])
        /\ Everywhere(Contents') = Everywhere(Contents)
        /\ Abstract!Next
    BY <1>0, <1>5, <2>1, ItemMoved
  <2> QED BY <1>6, <2>2
<1>8. it' = NodeAt(from, Without(src, lo), lo)
  BY <1>0, <1>3, <1>5, <1>6, EraseReturnsNext
<1>9. /\ Len(Without(src, lo)) = Len(src) - 1
      /\ \A j \in 0 .. Len(src) :
           NodeAt(from, Without(src, lo), j) =
             IF j < lo THEN NodeAt(from, src, j)
             ELSE NodeAt(from, src, j + 1)
  <2> HIDE DEF src, from
  <2> QED BY <1>0, <1>5, WithoutOne
<1>10. it \in Items /\ it \notin MembersOf(dst)
  <2>1. it \in Items /\ it \in MembersOf(src)
    BY <1>0, <1>5, <1>6 DEF MembersOf
  <2> QED BY <1>0, <2>1 DEF Holds
<1>11. /\ Len(With(dst, p, it)) = Len(dst) + 1
       /\ \A j \in 0 .. Len(dst) + 2 :
            NodeAt(to, With(dst, p, it), j) =
              IF j < p THEN NodeAt(to, dst, j)
              ELSE IF j = p THEN it ELSE NodeAt(to, dst, j - 1)
  <2> HIDE DEF dst, to
  <2> QED BY <1>0, <1>10, WithOne
<1>12. last' = NodeAt(from, Without(src, lo), hi - 1)
  <2>1. hi - 1 \in 0 .. Len(src) /\ ~(hi - 1 < lo) /\ (hi - 1) + 1 = hi
    BY <1>0, <1>5
  <2> QED BY <1>2, <1>3, <1>9, <2>1
<1>13. before' = NodeAt(to, With(dst, p, it), p + 1)
  <2>1. p + 1 \in 0 .. Len(dst) + 2 /\ ~(p + 1 < p) /\ p + 1 # p
        /\ (p + 1) - 1 = p
    BY <1>0
  <2> QED BY <1>2, <1>3, <1>11, <2>1
<1>14. /\ goal.target = Merged(With(dst, p, it), p + 1, Without(src, lo),
                               lo, hi - 1)
       /\ goal.source = Rest(Without(src, lo), lo, hi - 1)
  <2> HIDE DEF dst, src
  <2>1. /\ Merged(With(dst, p, src[lo]), p + 1, Without(src, lo), lo, hi - 1)
             = Merged(dst, p, src, lo, hi)
        /\ Rest(Without(src, lo), lo, hi - 1) = Rest(src, lo, hi)
    BY <1>0, <1>5, MovingKeepsGoal
  <2> QED BY <1>2, <1>6, <2>1
<1>15. /\ lo \in 1 .. Len(Contents'[from]) + 1
       /\ hi - 1 \in 1 .. Len(Contents'[from]) + 1
       /\ lo <= hi - 1
       /\ p + 1 \in 1 .. Len(Contents'[to]) + 1
  BY <1>0, <1>5, <1>7, <1>9, <1>11
<1>16. goal' = goal /\ goal'.to = to /\ goal'.from = from BY <1>3
<1> HIDE DEF to, from
<1>17. Splicing(to, from, lo, hi - 1, p + 1)'
  <2>1. to' = to /\ from' = from BY <1>3 DEF to, from
  <2> QED BY <1>7, <1>8, <1>12, <1>13, <1>14, <1>15, <1>16, <2>1
          DEF Splicing
<1>18. SpliceOnItsWay'
  <2>1. to' = to /\ from' = from BY <1>3 DEF to, from
  <2>2. \E a, z \in 1 .. Len(Contents'[from]) + 1,
           q \in 1 .. Len(Contents'[to]) + 1 : Splicing(to, from, a, z, q)'
    BY <1>15, <1>17
  <2> QED BY <1>0, <1>16, <2>1, <2>2 DEF SpliceOnItsWay, to, from
<1>19. {it', last', before'} \subseteq Nodes \cup {Null}
  <2>1. it' \in Nodes \cup {Null}
    BY <1>3, <1>10 DEF EraseReturns, Inv, TypeOK, Heaps, Nodes
  <2> QED BY <1>3, <2>1 DEF Inv, TypeOK
<1>20. TypeOK' BY <1>3, <1>7, <1>19 DEF TypeOK, Inv, Holds
<1>21. OneOwner' BY <1>3, <1>7 DEF Inv, OneOwner
<1>22. MineWhilePut' BY <1>3 DEF Inv, MineWhilePut
<1>23. AtTheFront' BY <1>3 DEF AtTheFront
<1> QED BY <1>7, <1>18, <1>20, <1>21, <1>22, <1>23 DEF Inv, Refines

(* The end of splice.                                                      *)
LEMMA SpliceDoneInv ==
  ASSUME Inv, SpliceDone
  PROVE  Inv' /\ Refines
<1>0. Holds(heap, Contents) BY DEF Inv
<1>1. /\ at = "splice" /\ at' \in {"return", "idle"}
      /\ at' = "return" => it' = begin(heap, "tmp")
      /\ it' \in {Null, begin(heap, "tmp")}
      /\ last' = Null /\ before' = Null
      /\ UNCHANGED <<client, heap, alive, held, filled, mine>>
  BY DEF SpliceDone
<1>2. Contents' = Contents BY <1>1, SameHeap
<1>3. begin(heap, "tmp") = NodeAt("tmp", Contents["tmp"], 1)
  BY <1>0, Names, BeginIs
<1>4. begin(heap, "tmp") \in Nodes \cup {Null}
  BY Names DEF begin, Inv, TypeOK, Heaps, Nodes
<1>5. TypeOK'
  <2>1. {it', last', before'} \subseteq Nodes \cup {Null} BY <1>1, <1>4
  <2> QED BY <1>1, <2>1 DEF TypeOK, Inv
<1>6. OneOwner' BY <1>1, <1>2 DEF Inv, OneOwner
<1>7. MineWhilePut' BY <1>1 DEF Inv, MineWhilePut
<1>8. AtTheFront' BY <1>1, <1>2, <1>3 DEF AtTheFront
<1>9. SpliceOnItsWay' BY <1>1 DEF SpliceOnItsWay
<1>10. Holds(heap', Contents') BY <1>0, <1>1, <1>2
<1> QED BY <1>2, <1>5, <1>6, <1>7, <1>8, <1>9, <1>10 DEF Inv, Refines

-----------------------------------------------------------------------------
(* The public methods.                                                     *)

(* push_front, push_back and insert.                                       *)
LEMMA UserAddsInv ==
  ASSUME Inv, NEW l \in UserLists, NEW i \in Items, UserAdds(l, i)
  PROVE  Inv' /\ Refines
<1>0. Holds(heap, Contents) /\ l \in Lists /\ Contents[l] \in Seq(Items)
      /\ Len(Contents[l]) \in Nat
  BY Names DEF Inv, Holds
<1>1. /\ at = "idle" /\ i \in held /\ held' = held \ {i}
      /\ UNCHANGED <<client, alive, at, filled, iterVars>>
      /\ UNCHANGED <<it, last, before, mine, goal>>
  BY DEF UserAdds, UserIdle, iterVars
<1>2. i \notin Everywhere(Contents) BY <1>1 DEF Inv, OneOwner
<1>3. \E k \in 1 .. Len(Contents[l]) + 1 :
        Holds(heap', [Contents EXCEPT ![l] = With(Contents[l], k, i)])
  <2>1. CASE heap' = push_front(heap, l, i)
    <3>1. 1 \in 1 .. Len(Contents[l]) + 1 BY <1>0
    <3>2. Holds(heap', [Contents EXCEPT ![l] = With(Contents[l], 1, i)])
      BY <1>0, <1>2, <2>1, PushFrontPrepends
    <3> QED BY <3>1, <3>2
  <2>2. CASE heap' = push_back(heap, l, i)
    <3> DEFINE n == Len(Contents[l]) + 1
    <3>1. n \in 1 .. Len(Contents[l]) + 1 BY <1>0
    <3>2. Holds(heap', [Contents EXCEPT ![l] = With(Contents[l], n, i)])
      BY <1>0, <1>2, <2>2, PushBackAppends
    <3> QED BY <3>1, <3>2
  <2>3. CASE \E b \in ElementSet(heap, l) \cup {end(l)} :
               heap' = insert(heap, i, b)
    <3>1. PICK b \in MembersOf(Contents[l]) \cup {l} :
                 heap' = insert(heap, i, b)
      BY <1>0, <2>3, ElementSetIs DEF end
    <3> DEFINE k == PlaceOf(Contents[l], b)
    <3>2. k \in 1 .. Len(Contents[l]) + 1 /\ NodeAt(l, Contents[l], k) = b
      BY <1>0, PlaceIs
    <3> HIDE DEF k
    <3>3. Holds(insert(heap, i, NodeAt(l, Contents[l], k)),
                [Contents EXCEPT ![l] = With(Contents[l], k, i)])
      BY <1>0, <1>2, <3>2, InsertAddsOne
    <3> QED BY <3>1, <3>2, <3>3
  <2> QED BY <2>1, <2>2, <2>3 DEF UserAdds
<1>4. PICK k \in 1 .. Len(Contents[l]) + 1 :
        Holds(heap', [Contents EXCEPT ![l] = With(Contents[l], k, i)])
  BY <1>3
<1>5. /\ Holds(heap', Contents')
      /\ Everywhere(Contents') = Everywhere(Contents) \cup {i}
      /\ Abstract!Next
  BY <1>0, <1>2, <1>4, ItemGiven
<1>6. TypeOK' BY <1>1, <1>5, Owners DEF TypeOK, Inv, Holds
<1>7. OneOwner' BY <1>1, <1>5, Names DEF Inv, OneOwner
<1>8. MineWhilePut' BY <1>1 DEF Inv, MineWhilePut
<1>9. AtTheFront' BY <1>1 DEF AtTheFront
<1>10. SpliceOnItsWay' BY <1>1 DEF SpliceOnItsWay
<1> QED BY <1>5, <1>6, <1>7, <1>8, <1>9, <1>10 DEF Inv, Refines

(* pop_front, pop_back and erase.                                          *)
LEMMA UserRemovesInv ==
  ASSUME Inv, NEW l \in UserLists, UserRemoves(l)
  PROVE  Inv' /\ Refines
<1>0. Holds(heap, Contents) /\ l \in Lists BY Names DEF Inv
<1>1. /\ at = "idle" /\ ~empty(heap, l)
      /\ UNCHANGED <<client, alive, at, filled, iterVars>>
      /\ UNCHANGED <<it, last, before, mine, goal>>
  BY DEF UserRemoves, UserIdle, iterVars
<1>2. \E k \in 1 .. Len(Contents[l]) :
        /\ heap' = erase(heap, Contents[l][k])
        /\ held' = held \cup {Contents[l][k]}
  <2>1. CASE heap' = pop_front(heap, l) /\ held' = held \cup {heap.next[l]}
    <3>1. /\ 1 \in 1 .. Len(Contents[l]) /\ heap.next[l] = Contents[l][1]
          /\ pop_front(heap, l) = erase(heap, heap.next[l])
      BY <1>0, <1>1, PopFrontRemovesFirst
    <3> QED BY <2>1, <3>1
  <2>2. CASE heap' = pop_back(heap, l) /\ held' = held \cup {heap.prev[l]}
    <3> DEFINE n == Len(Contents[l])
    <3>1. /\ n \in 1 .. Len(Contents[l]) /\ heap.prev[l] = Contents[l][n]
          /\ pop_back(heap, l) = erase(heap, heap.prev[l])
      BY <1>0, <1>1, PopBackRemovesLast
    <3> QED BY <2>2, <3>1
  <2>3. CASE \E pos \in ElementSet(heap, l) :
               heap' = erase(heap, pos) /\ held' = held \cup {pos}
    BY <1>0, <2>3, ElementSetIs DEF MembersOf
  <2> QED BY <2>1, <2>2, <2>3 DEF UserRemoves
<1>3. PICK k \in 1 .. Len(Contents[l]) :
        /\ heap' = erase(heap, Contents[l][k])
        /\ held' = held \cup {Contents[l][k]}
  BY <1>2
<1> DEFINE x == Contents[l][k]
<1>4. /\ Holds(heap', Contents')
      /\ x \in Items /\ x \in Everywhere(Contents)
      /\ Everywhere(Contents') = Everywhere(Contents) \ {x}
      /\ Abstract!Next
  BY <1>0, <1>3, ItemTaken
<1>5. held' = held \cup {x} BY <1>3
<1> HIDE DEF x
<1>6. TypeOK' BY <1>1, <1>4, <1>5, Owners DEF TypeOK, Inv, Holds
<1>7. OneOwner' BY <1>1, <1>4, <1>5, Names DEF Inv, OneOwner
<1>8. MineWhilePut' BY <1>1 DEF Inv, MineWhilePut
<1>9. AtTheFront' BY <1>1 DEF AtTheFront
<1>10. SpliceOnItsWay' BY <1>1 DEF SpliceOnItsWay
<1> QED BY <1>4, <1>6, <1>7, <1>8, <1>9, <1>10 DEF Inv, Refines

(* The user's splice.                                                      *)
LEMMA UserSplicesInv ==
  ASSUME Inv, NEW to \in UserLists, NEW from \in UserLists,
         UserSplices(to, from)
  PROVE  Inv' /\ Refines
<1>1. at = "idle" /\ to # from BY DEF UserSplices, UserIdle
<1>2. PICK b \in ElementSet(heap, to) \cup {to},
           first \in ElementSet(heap, from) \cup {from},
           stop \in ElementSet(heap, from) \cup {from} :
             StartSplice(to, b, from, first, stop)
  BY DEF UserSplices, end
<1> QED BY <1>1, <1>2, StartSpliceInv

-----------------------------------------------------------------------------
(* The theorems.                                                           *)

(* Every step keeps the invariant and is a step of ItemLists, or changes   *)
(* no list.                                                                *)
LEMMA NextInv ==
  ASSUME Inv, [Next]_vars
  PROVE  Inv' /\ Refines
<1>1. CASE Service
  BY <1>1, GetInv, GetNewInv, PutInv, FillInv, ControlInv, ClearStepInv,
     WriteFrameInv, DispatchInv, ReturnEraseInv, ReturnPutInv DEF Service
<1>2. CASE User
  BY <1>2, UserAddsInv, UserRemovesInv, UserSplicesInv DEF User
<1>3. CASE SpliceStep BY <1>3, SpliceStepInv
<1>4. CASE SpliceDone BY <1>4, SpliceDoneInv
<1>5. CASE UNCHANGED vars
  <2>1. UNCHANGED <<client, heap, alive, held, at, filled, it, last, before,
                    mine, goal>> /\ UNCHANGED iterVars
    BY <1>5 DEF vars, iterVars
  <2>2. Contents' = Contents BY <2>1, SameHeap
  <2>3. TypeOK' BY <2>1 DEF Inv, TypeOK
  <2>4. Holds(heap', Contents') BY <2>1, <2>2 DEF Inv
  <2>5. OneOwner' BY <2>1, <2>2 DEF Inv, OneOwner
  <2>6. MineWhilePut' BY <2>1 DEF Inv, MineWhilePut
  <2>7. AtTheFront' BY <2>1, <2>2, FrontIsKept DEF Inv
  <2>8. SpliceOnItsWay' BY <2>1, <2>2, SpliceIsKept DEF Inv
  <2> QED BY <2>2, <2>3, <2>4, <2>5, <2>6, <2>7, <2>8 DEF Inv, Refines
<1> QED BY <1>1, <1>2, <1>3, <1>4, <1>5 DEF Next

(* The lists are rings of items with one owner each, at every point of     *)
(* every loop, for any items and any kInitialPoolSize.                     *)
THEOREM InvHolds == Spec => []Inv
<1>1. Init => Inv BY InitInv
<1>2. Inv /\ [Next]_vars => Inv' BY NextInv
<1> QED BY <1>1, <1>2, PTL DEF Spec

(* Every step of Pool, EncoderService or a user adds, removes or moves one *)
(* item, for someone who sees only what the lists contain.                 *)
THEOREM ListsAreRefined == Spec => ImplementsItemLists
<1>1. Init => Abstract!Init BY InitInv
<1>2. Inv /\ [Next]_vars => [Abstract!Next]_Contents
  BY NextInv DEF Refines
<1> QED
  BY <1>1, <1>2, InvHolds, PTL DEF Spec, ImplementsItemLists, Abstract!Spec

(* No item leaks, has two owners or is used after clear() freed it.        *)
THEOREM ItemsAreOwnedOnce == Spec => []OwnedOnce
<1>1. Inv => OwnedOnce
  <2> SUFFICES ASSUME Inv PROVE OwnedOnce OBVIOUS
  <2> DEFINE Places == Lists \cup {"held", "mine"}
             places == [p \in Places |->
                          CASE p \in Lists -> ElementSet(heap, p)
                            [] p = "held"  -> held
                            [] p = "mine"  -> {mine} \ {Null}]
  <2>1. "held" \notin Lists /\ "mine" \notin Lists /\ "held" # "mine"
    BY PoolAssumption
  <2>2. /\ \A l \in Lists : places[l] = MembersOf(Contents[l])
        /\ places["held"] = held /\ places["mine"] = {mine} \ {Null}
        /\ DOMAIN places = Places
    BY <2>1, ElementSetIs
  <2>3. /\ held \cap Everywhere(Contents) = {}
        /\ mine \notin held \cup Everywhere(Contents)
        /\ alive = held \cup Everywhere(Contents) \cup ({mine} \ {Null})
    BY DEF Inv, OneOwner
  <2>4. \A l \in Lists : MembersOf(Contents[l]) \subseteq Everywhere(Contents)
    BY DEF Everywhere
  <2>5. \A l, m \in Lists :
          l # m => MembersOf(Contents[l]) \cap MembersOf(Contents[m]) = {}
    BY DEF Inv, Holds
  <2> HIDE DEF places
  <2>6. \A p, q \in Places : p # q => places[p] \cap places[q] = {}
    BY <2>2, <2>3, <2>4, <2>5
  <2>7. UNION {places[p] : p \in Places} = alive
    <3>1. \A y : y \in Everywhere(Contents)
                   <=> \E m \in Lists : y \in MembersOf(Contents[m])
      BY DEF Everywhere
    <3>2. ASSUME NEW p \in Places PROVE places[p] \subseteq alive
      BY <2>2, <2>3, <2>4
    <3>3. ASSUME NEW y \in alive PROVE \E p \in Places : y \in places[p]
      BY <2>2, <2>3, <3>1
    <3> QED BY <3>2, <3>3
  <2> QED BY <2>2, <2>6, <2>7 DEF OwnedOnce, places
<1> QED BY <1>1, InvHolds, PTL

(* Every list is a ring in both directions whose iterators stay valid, and *)
(* a splice ends with both lists as they should be.                        *)
THEOREM RingsStayIntact == Spec => []ListsAreIntact
<1>1. Inv => ListsAreIntact
  <2> SUFFICES ASSUME Inv PROVE ListsAreIntact OBVIOUS
  <2>0. Holds(heap, Contents) BY DEF Inv
  <2>1. ASSUME NEW l \in Lists
        PROVE  LET path == Elements(heap, l)
                   end_ == Visits(heap, l)[Len(path) + 1]
                   ring == <<l>> \o path \o <<l>>
               IN /\ end_ = l
                  /\ \A k \in 1 .. Len(path) + 1 :
                       heap.prev[ring[k + 1]] = ring[k]
    <3> DEFINE s == Contents[l]
               ring == <<l>> \o s \o <<l>>
    <3>1. Elements(heap, l) = s /\ Visits(heap, l)[Len(s) + 1] = l
      BY <2>0, RangeForSeesTheList
    <3>2. /\ s \in Seq(Items) /\ Len(s) \in Nat
          /\ Linked(heap, l, s)
      BY <2>0 DEF Holds, Ring
    <3> HIDE DEF s
    <3>3. \A k \in 1 .. Len(s) + 2 : ring[k] = NodeAt(l, s, k - 1)
      BY <3>2 DEF NodeAt
    <3> HIDE DEF ring
    <3>4. ASSUME NEW k \in 1 .. Len(s) + 1
          PROVE  heap.prev[ring[k + 1]] = ring[k]
      <4>1. /\ ring[k + 1] = NodeAt(l, s, (k + 1) - 1)
            /\ ring[k] = NodeAt(l, s, k - 1)
            /\ k - 1 \in 0 .. Len(s) /\ (k - 1) + 1 = (k + 1) - 1
        BY <3>2, <3>3
      <4>2. heap.prev[NodeAt(l, s, (k - 1) + 1)] = NodeAt(l, s, k - 1)
        BY <3>2, <4>1 DEF Linked
      <4> QED BY <4>1, <4>2
    <3> QED BY <3>1, <3>4 DEF ring
  <2>2. RingsAreClosed BY <2>1 DEF RingsAreClosed
  <2>3. ASSUME NEW l \in Lists, NEW k
        PROVE  NodeAt(l, Contents[l], k) \in ElementSet(heap, l) \cup {l}
    BY ElementSetIs DEF NodeAt, MembersOf
  <2>4. at = "splice" =>
          /\ {it, last} \subseteq ElementSet(heap, goal.from)
                                  \cup {goal.from}
          /\ before \in ElementSet(heap, goal.to) \cup {goal.to}
    <3> SUFFICES ASSUME at = "splice"
                 PROVE  /\ {it, last} \subseteq ElementSet(heap, goal.from)
                                                \cup {goal.from}
                        /\ before \in ElementSet(heap, goal.to)
                                      \cup {goal.to}
      OBVIOUS
    <3>1. goal.to \in Lists /\ goal.from \in Lists
      BY Names DEF Inv, SpliceOnItsWay
    <3>2. PICK lo, hi, p : Splicing(goal.to, goal.from, lo, hi, p)
      BY DEF Inv, SpliceOnItsWay
    <3> QED BY <2>3, <3>1, <3>2 DEF Splicing
  <2>5. IteratorsAreValid
    BY <2>3, <2>4, Names DEF IteratorsAreValid, Inv, AtTheFront
  <2>6. SpliceKeepsOrder
    <3> SUFFICES ASSUME at = "splice", it = last
                 PROVE  /\ Elements(heap, goal.to) = goal.target
                        /\ Elements(heap, goal.from) = goal.source
      BY DEF SpliceKeepsOrder
    <3> DEFINE to == goal.to
               from == goal.from
               dst == Contents[to]
               src == Contents[from]
    <3>1. /\ to \in Lists /\ from \in Lists
          /\ dst \in Seq(Items) /\ src \in Seq(Items) /\ NoRepeats(src)
      <4>1. to \in Lists /\ from \in Lists
        BY Names DEF Inv, SpliceOnItsWay
      <4> QED BY <2>0, <4>1 DEF Holds, Ring
    <3>2. PICK lo \in 1 .. Len(src) + 1, hi \in 1 .. Len(src) + 1,
               p \in 1 .. Len(dst) + 1 : Splicing(to, from, lo, hi, p)
      BY DEF Inv, SpliceOnItsWay
    <3>3. /\ it = NodeAt(from, src, lo) /\ last = NodeAt(from, src, hi)
          /\ goal.target = Merged(dst, p, src, lo, hi)
          /\ goal.source = Rest(src, lo, hi)
      BY <3>2 DEF Splicing
    <3>4. \A i, j \in 1 .. Len(src) + 1 :
            NodeAt(from, src, i) = NodeAt(from, src, j) => i = j
      BY <3>1, NodesAreDistinct
    <3>5. lo = hi BY <3>2, <3>3, <3>4
    <3>6. Merged(dst, p, src, lo, lo) = dst /\ Rest(src, lo, lo) = src
      <4> HIDE DEF dst, src
      <4> QED BY <3>1, <3>2, NothingToMove
    <3>7. Elements(heap, to) = dst /\ Elements(heap, from) = src
      BY <3>1 DEF Contents
    <3> QED BY <3>3, <3>5, <3>6, <3>7
  <2> QED BY <2>2, <2>5, <2>6 DEF ListsAreIntact, Inv
<1> QED BY <1>1, InvHolds, PTL
=============================================================================
