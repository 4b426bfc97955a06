------------------------------ MODULE ItemPool ------------------------------
(***************************************************************************)
(* IntrusiveList under its two kinds of user.                              *)
(*                                                                         *)
(* "service": Pool (utils/pool.hpp) and the lists of EncoderService        *)
(* (services/encoder_service.cpp).  Writers take items from the pool, put  *)
(* them back or push them to pending_; the media thread fills the pool,    *)
(* splices pending_ to its own list, returns that to the pool item by item *)
(* and clears the pool.  pool_list_ is guarded by the pool's mutex,        *)
(* pending_ by data_mutex_ and tmp by nothing; each loop below that runs   *)
(* under a mutex keeps it from its first step to its last.                 *)
(*                                                                         *)
(* "user": one thread that calls the public methods of two lists in any    *)
(* order, as the class's tests do; its lists are called pending_ and tmp   *)
(* here too, and its items are all allocated before it starts.             *)
(***************************************************************************)
EXTENDS IntrusiveList

CONSTANT PoolSize  \* kInitialPoolSize

ASSUME PoolAssumption ==
  /\ PoolSize \in Nat
  /\ Lists = {"pool_list_", "pending_", "tmp"}

VARIABLES
  client,  \* "service" or "user"
  heap,    \* the links of all nodes
  alive,   \* items that are allocated
  held,    \* items owned by a writer's ItemPtr, or by the user
  at,      \* where the media thread, or the user, is
  filled,  \* items fill() has put
  it,      \* the loops' iterator
  last,    \* splice's last
  before,  \* splice's before
  mine,    \* the ItemPtr in ~ReturnToPoolGuard
  goal     \* history: what the current splice is to leave in both lists

iterVars == <<it, last, before, mine, goal>>
vars == <<client, heap, alive, held, at, filled, iterVars>>

NoGoal == [to |-> Null, from |-> Null, target |-> <<>>, source |-> <<>>]
UserLists == {"pending_", "tmp"}

(* Items, links and iterators are nodes, and fill() makes kInitialPoolSize *)
(* items and no more.                                                      *)
TypeOK ==
  /\ client \in {"service", "user"}
  /\ heap \in Heaps
  /\ alive \subseteq Items /\ held \subseteq alive
  /\ at \in {"fill", "idle", "splice", "return", "put", "clear"}
  /\ filled \in 0 .. PoolSize
  /\ {it, last, before, mine} \subseteq Nodes \cup {Null}

Init ==
  /\ client \in {"service", "user"}
  /\ heap = EmptyHeap
  /\ alive = IF client = "user" THEN Items ELSE {}
  /\ held = alive
  /\ at = IF client = "user" THEN "idle" ELSE "fill"
  /\ filled = 0
  /\ it = Null /\ last = Null /\ before = Null /\ mine = Null
  /\ goal = NoGoal

-----------------------------------------------------------------------------
(* Pool.                                                                   *)

PoolLocked == at = "clear"
DataLocked == at = "splice"

allocate_item(i) == i \in Items \ alive /\ alive' = alive \cup {i}

(* get() from a pool with items: the first one.                            *)
Get ==
  /\ client = "service" /\ ~PoolLocked
  /\ ~empty(heap, "pool_list_")
  /\ LET item == begin(heap, "pool_list_") IN
       /\ heap' = erase(heap, item)
       /\ held' = held \cup {item}
  /\ UNCHANGED <<client, alive, at, filled, iterVars>>

(* get() from an empty pool: a new item, constructed outside the mutex.    *)
(* Bound: there are enough Items for what fill() has yet to construct.     *)
GetNew(i) ==
  /\ client = "service" /\ ~PoolLocked
  /\ at = "fill" => Cardinality(Items \ alive) > PoolSize - filled
  /\ empty(heap, "pool_list_")
  /\ allocate_item(i)
  /\ heap' = Unlinked(heap, i)
  /\ held' = held \cup {i}
  /\ UNCHANGED <<client, at, filled, iterVars>>

(* PoolItemDeleter: an ItemPtr that was not released.                      *)
Put(i) ==
  /\ client = "service" /\ ~PoolLocked
  /\ i \in held
  /\ heap' = push_back(heap, "pool_list_", i)
  /\ held' = held \ {i}
  /\ UNCHANGED <<client, alive, at, filled, iterVars>>

(* One turn of fill(kInitialPoolSize) in on_init.                          *)
Fill(i) ==
  /\ client = "service" /\ at = "fill"
  /\ filled < PoolSize
  /\ allocate_item(i)
  /\ heap' = push_back(Unlinked(heap, i), "pool_list_", i)
  /\ filled' = filled + 1
  /\ UNCHANGED <<client, held, at, iterVars>>

FillDone ==
  /\ client = "service" /\ at = "fill"
  /\ filled = PoolSize
  /\ at' = "idle"
  /\ UNCHANGED <<client, heap, alive, held, filled, iterVars>>

ClearStart ==
  /\ client = "service" /\ at = "idle"
  /\ at' = "clear"
  /\ it' = begin(heap, "pool_list_")
  /\ UNCHANGED <<client, heap, alive, held, filled, last, before, mine, goal>>

(* Fault: the item is destroyed first and its link followed afterwards, to *)
(* wherever; the list is left as it is.                                    *)
ClearWithoutErase ==
  /\ at = "clear" /\ it # end("pool_list_")
  /\ alive' = alive \ {it}
  /\ it' = EraseReturns(heap, it)
  /\ UNCHANGED <<client, heap, held, at, filled, last, before, mine, goal>>

ClearStep ==
  /\ at = "clear" /\ it # end("pool_list_")
  /\ heap' = erase(heap, it)
  /\ it' = EraseReturns(heap, it)
  /\ alive' = alive \ {it}
  /\ UNCHANGED <<client, held, at, filled, last, before, mine, goal>>

ClearDone ==
  /\ at = "clear" /\ it = end("pool_list_")
  /\ at' = "idle"
  /\ it' = Null
  /\ UNCHANGED <<client, heap, alive, held, filled, last, before, mine, goal>>

-----------------------------------------------------------------------------
(* EncoderService's lists.                                                 *)

(* write_frame: the ItemPtr is released to pending_ under data_mutex_.     *)
WriteFrame(i) ==
  /\ client = "service" /\ ~DataLocked
  /\ i \in held
  /\ heap' = push_back(heap, "pending_", i)
  /\ held' = held \ {i}
  /\ UNCHANGED <<client, alive, at, filled, iterVars>>

(* Where an iterator of a list with elements s is; end() is behind all.    *)
PlaceOf(s, n) ==
  IF n \in Items THEN CHOOSE k \in 1 .. Len(s) : s[k] = n ELSE Len(s) + 1

(* splice's arguments: items first up to last of from go before `b` in to. *)
StartSplice(to, b, from, first, stop) ==
  LET src == Elements(heap, from)
      dst == Elements(heap, to)
      lo == PlaceOf(src, first)
      hi == PlaceOf(src, stop)
      p == PlaceOf(dst, b)
  IN /\ lo <= hi
     /\ at' = "splice"
     /\ it' = first /\ last' = stop /\ before' = b
     /\ goal' = [to |-> to, from |-> from,
                 target |-> SubSeq(dst, 1, p - 1) \o SubSeq(src, lo, hi - 1)
                            \o SubSeq(dst, p, Len(dst)),
                 source |-> SubSeq(src, 1, lo - 1)
                            \o SubSeq(src, hi, Len(src))]
     /\ UNCHANGED <<client, heap, alive, held, filled, mine>>

(* dispatch takes all of pending_.                                         *)
Dispatch ==
  /\ client = "service" /\ at = "idle"
  /\ StartSplice("tmp", begin(heap, "tmp"),
                 "pending_", begin(heap, "pending_"), end("pending_"))

SpliceStep ==
  /\ at = "splice" /\ it # last
  /\ it' = EraseReturns(heap, it)
  /\ heap' = insert(erase(heap, it), it, before)
  /\ before' = InsertReturns(it, before)
  /\ UNCHANGED <<client, alive, held, at, filled, last, mine, goal>>

(* The service goes on to ~ReturnToPoolGuard.                              *)
SpliceDone ==
  /\ at = "splice" /\ it = last
  /\ at' = IF client = "service" THEN "return" ELSE "idle"
  /\ it' = IF client = "service" THEN begin(heap, "tmp") ELSE Null
  /\ last' = Null /\ before' = Null /\ goal' = NoGoal
  /\ UNCHANGED <<client, heap, alive, held, filled, mine>>

(* ~ReturnToPoolGuard: the item is erased, then its ItemPtr puts it.       *)
ReturnErase ==
  /\ at = "return" /\ it # end("tmp")
  /\ at' = "put"
  /\ mine' = it
  /\ it' = EraseReturns(heap, it)
  /\ heap' = erase(heap, it)
  /\ UNCHANGED <<client, alive, held, filled, last, before, goal>>

ReturnPut ==
  /\ at = "put"
  /\ at' = "return"
  /\ heap' = push_back(heap, "pool_list_", mine)
  /\ mine' = Null
  /\ UNCHANGED <<client, alive, held, filled, it, last, before, goal>>

ReturnDone ==
  /\ at = "return" /\ it = end("tmp")
  /\ at' = "idle"
  /\ it' = Null
  /\ UNCHANGED <<client, heap, alive, held, filled, last, before, mine, goal>>

-----------------------------------------------------------------------------
(* The public methods, in any order that their assertions allow.           *)

UserIdle == client = "user" /\ at = "idle"

UserAdds(l, i) ==
  /\ UserIdle
  /\ i \in held
  /\ \/ heap' = push_front(heap, l, i)
     \/ heap' = push_back(heap, l, i)
     \/ \E b \in ElementSet(heap, l) \cup {end(l)} :
          heap' = insert(heap, i, b)
  /\ held' = held \ {i}
  /\ UNCHANGED <<client, alive, at, filled, iterVars>>

UserRemoves(l) ==
  /\ UserIdle
  /\ ~empty(heap, l)
  /\ \/ heap' = pop_front(heap, l) /\ held' = held \cup {heap.next[l]}
     \/ heap' = pop_back(heap, l) /\ held' = held \cup {heap.prev[l]}
     \/ \E pos \in ElementSet(heap, l) :
          heap' = erase(heap, pos) /\ held' = held \cup {pos}
  /\ UNCHANGED <<client, alive, at, filled, iterVars>>

UserSplices(to, from) ==
  /\ UserIdle
  /\ to # from
  /\ \E b \in ElementSet(heap, to) \cup {end(to)},
        first, stop \in ElementSet(heap, from) \cup {end(from)} :
          StartSplice(to, b, from, first, stop)

-----------------------------------------------------------------------------

Service ==
  \/ Get \/ FillDone \/ ClearStart \/ ClearStep \/ ClearDone \/ Dispatch
  \/ ReturnErase \/ ReturnPut \/ ReturnDone
  \/ \E i \in Items : GetNew(i) \/ Put(i) \/ Fill(i) \/ WriteFrame(i)

User ==
  \E l \in UserLists :
    \/ UserRemoves(l)
    \/ \E i \in Items : UserAdds(l, i)
    \/ \E from \in UserLists : UserSplices(l, from)

Next == Service \/ User \/ SpliceStep \/ SpliceDone

Spec == Init /\ [][Next]_vars

-----------------------------------------------------------------------------

(* Every list is one ring in both directions: from its sentinel, operator++ *)
(* comes back to it, and operator-- retraces every step.                   *)
RingsAreClosed ==
  \A l \in Lists :
    LET path == Elements(heap, l)
        end_ == Visits(heap, l)[Len(path) + 1]
        ring == <<l>> \o path \o <<l>>
    IN /\ end_ = l
       /\ \A k \in 1 .. Len(path) + 1 : heap.prev[ring[k + 1]] = ring[k]

(* Every allocated item is in exactly one place - a list, an ItemPtr of a  *)
(* writer or the one of ~ReturnToPoolGuard - and no list holds an item     *)
(* that clear() has freed: no leak, no double ownership, no use after      *)
(* free, at every point inside splice, clear and the guard's loop.         *)
OwnedOnce ==
  LET places == [p \in Lists \cup {"held", "mine"} |->
                   CASE p \in Lists -> ElementSet(heap, p)
                     [] p = "held"  -> held
                     [] p = "mine"  -> {mine} \ {Null}]
  IN /\ UNION {places[p] : p \in DOMAIN places} = alive
     /\ \A p, q \in DOMAIN places : p # q => places[p] \cap places[q] = {}

(* A loop's iterator stays inside the list it walks, whatever its body     *)
(* does to the item it has just left and the other threads do to the pool. *)
IteratorsAreValid ==
  /\ at = "splice" =>
       /\ {it, last} \subseteq ElementSet(heap, goal.from) \cup {goal.from}
       /\ before \in ElementSet(heap, goal.to) \cup {goal.to}
  /\ at \in {"return", "put"} => it \in ElementSet(heap, "tmp") \cup {"tmp"}
  /\ at = "clear" => it \in ElementSet(heap, "pool_list_")
                            \cup {"pool_list_"}

(* splice moves exactly the range, in order, to just before `before`:      *)
(* frames reach the codec's drain in the order they were written.          *)
SpliceKeepsOrder ==
  at = "splice" /\ it = last =>
    /\ Elements(heap, goal.to) = goal.target
    /\ Elements(heap, goal.from) = goal.source

Contents == [l \in Lists |-> Elements(heap, l)]

Abstract == INSTANCE ItemLists WITH lists <- Contents

(* Every step of Pool, EncoderService or a user is, for someone who sees   *)
(* only what the lists contain, one item added, removed or moved.          *)
ImplementsItemLists == Abstract!Spec

(* The lists are rings whose iterators stay valid through every loop that  *)
(* erases or inserts, and a splice ends with both lists as they should be. *)
ListsAreIntact ==
  /\ TypeOK
  /\ RingsAreClosed
  /\ IteratorsAreValid
  /\ SpliceKeepsOrder
=============================================================================
