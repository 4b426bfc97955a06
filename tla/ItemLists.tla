------------------------------ MODULE ItemLists ------------------------------
(***************************************************************************)
(* What IntrusiveList (utils/intrusive_list.hpp) promises its users: every *)
(* list is a sequence of items, no item is in two places, and one step     *)
(* adds one item, removes one, or moves one between lists, and leaves the  *)
(* order of all the others alone.                                          *)
(***************************************************************************)
EXTENDS Naturals, Sequences, SequencesExt

CONSTANTS Items, Lists

VARIABLE lists

Init == lists = [l \in Lists |-> <<>>]

Used(old) == UNION {ToSet(old[l]) : l \in Lists}

(* new is old with one item more, or one less, in l, or one moved.         *)
Added(old, new, l) ==
  \E i \in Items \ Used(old), pos \in 1 .. Len(old[l]) + 1 :
    new = [old EXCEPT ![l] = InsertAt(@, pos, i)]

Removed(old, new, l) ==
  \E pos \in 1 .. Len(old[l]) : new = [old EXCEPT ![l] = RemoveAt(@, pos)]

Moved(old, new, from, to) ==
  \E pos \in 1 .. Len(old[from]), at \in 1 .. Len(old[to]) + 1 :
    new = [old EXCEPT ![from] = RemoveAt(@, pos),
                      ![to] = InsertAt(@, at, old[from][pos])]

Step(old, new) ==
  \E l \in Lists :
    \/ Added(old, new, l)
    \/ Removed(old, new, l)
    \/ \E to \in Lists \ {l} : Moved(old, new, l, to)

Next == \E old \in {lists}, new \in {lists'} : Step(old, new)

Spec == Init /\ [][Next]_lists
=============================================================================
