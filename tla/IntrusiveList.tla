---------------------------- MODULE IntrusiveList ----------------------------
(***************************************************************************)
(* The class IntrusiveList (utils/intrusive_list.hpp), pointer by pointer. *)
(* A heap h gives the next and prev pointer of every node; a list is its   *)
(* sentinel_; an iterator is the node it points to.  Every method is the   *)
(* chain of its stores, each of which reads what the ones before it left.  *)
(***************************************************************************)
EXTENDS Integers, Sequences, FiniteSets, FiniteSetsExt

CONSTANTS
  Items,  \* objects derived from ListItemBase
  Lists,  \* sentinels
  Null

ASSUME NodesAssumption ==
  /\ Items \cap Lists = {}
  /\ Null \notin Items \cup Lists
  /\ IsFiniteSet(Items) /\ IsFiniteSet(Lists)

Nodes == Items \cup Lists

Heaps == [next : [Nodes -> Nodes \cup {Null}],
          prev : [Nodes -> Nodes \cup {Null}]]

SetNext(h, n, v) == [h EXCEPT !.next[n] = v]
SetPrev(h, n, v) == [h EXCEPT !.prev[n] = v]

(* ListItemBase's initial links; IntrusiveList's constructor.              *)
Unlinked(h, i) == SetNext(SetPrev(h, i, Null), i, Null)

EmptyHeap == [next |-> [n \in Nodes |-> IF n \in Lists THEN n ELSE Null],
              prev |-> [n \in Nodes |-> IF n \in Lists THEN n ELSE Null]]

empty(h, l) == h.next[l] = l

begin(h, l) == h.next[l]

end(l) == l

(* The returned iterator is EraseReturns, read before the stores.          *)
erase(h, pos) ==
  LET h1 == SetPrev(h, h.next[pos], h.prev[pos])
  IN SetNext(h1, h1.prev[pos], h1.next[pos])

EraseReturns(h, pos) == h.next[pos]

push_front(h, l, item) ==
  LET h1 == SetPrev(h, h.next[l], item)
      h2 == SetPrev(h1, item, l)
      h3 == SetNext(h2, item, h2.next[l])
  IN SetNext(h3, l, item)

push_back(h, l, item) ==
  LET h1 == SetNext(h, h.prev[l], item)
      h2 == SetNext(h1, item, l)
      h3 == SetPrev(h2, item, h2.prev[l])
  IN SetPrev(h3, l, item)

pop_back(h, l) ==
  LET h1 == SetPrev(h, l, h.prev[h.prev[l]])
  IN SetNext(h1, h1.prev[l], l)

pop_front(h, l) ==
  LET h1 == SetNext(h, l, h.next[h.next[l]])
  IN SetPrev(h1, h1.next[l], l)

(* Fault: before's old predecessor is read after it was overwritten.       *)
InsertSwapped(h, item, before) ==
  LET h1 == SetPrev(h, before, item)
      h2 == SetNext(h1, h1.prev[before], item)
      h3 == SetPrev(h2, item, h2.prev[before])
  IN SetNext(h3, item, before)

insert(h, item, before) ==
  LET h1 == SetNext(h, h.prev[before], item)
      h2 == SetPrev(h1, item, h1.prev[before])
      h3 == SetNext(h2, item, before)
  IN SetPrev(h3, before, item)

(* Fault: like the standard containers, the inserted item.                 *)
ReturnsInserted(item, before) == item

(* insert returns the iterator it was given, not the inserted item.        *)
InsertReturns(item, before) == before

-----------------------------------------------------------------------------

(* The nodes that operator++ visits from a sentinel on, Null once the way  *)
(* is lost.                                                                *)
Visits(h, l) ==
  LET at[k \in 1 .. Cardinality(Nodes) + 1] ==
        IF k = 1 THEN h.next[l]
        ELSE LET n == at[k - 1] IN IF n = Null THEN Null ELSE h.next[n]
  IN at

(* What a range-for over the list sees.                                    *)
Elements(h, l) ==
  LET at == Visits(h, l)
      len == Min({k \in 0 .. Cardinality(Nodes) : at[k + 1] \in {l, Null}}
                 \cup {Cardinality(Nodes)})
  IN SubSeq(at, 1, len)

ElementSet(h, l) == LET s == Elements(h, l) IN {s[k] : k \in 1 .. Len(s)}
=============================================================================
