------------------------ MODULE EncoderPipelineProofs ------------------------
(***************************************************************************)
(* Proofs about EncoderPipeline, for any pool, codec delay and number of   *)
(* frames, with a media thread that may or may not fail.                   *)
(*                                                                         *)
(* The invariant is built in layers, each preserved with the help of the   *)
(* ones before it:                                                         *)
(*   Types     the types, with items as numbers;                           *)
(*   Control   what the place of one thread says about the others;         *)
(*   Partition every item that exists is in exactly one place;             *)
(*   Signals   what is in pending_ is announced;                           *)
(*   Packets   what a codec has accepted is on its way to the file, and    *)
(*             what it can still give back has an item that asks for it.   *)
(***************************************************************************)
EXTENDS EncoderPipeline, SequenceTheorems, TLAPS

AnyPolls == [item : Nat, stream : Streams]

WriterTypes ==
  /\ phase \in [Writers -> {"capture", "joining", "flush_video",
                            "flush_audio", "done"}]
  /\ hand \in [Writers -> {"idle", "held", "pushed"}]
  /\ held \in [Writers -> AnyPolls \cup {NoPoll}]
  /\ \A w \in Writers : IF hand[w] = "idle" THEN held[w] = NoPoll
                        ELSE held[w] \in AnyPolls
  /\ produced \in [Streams -> Nat]

ItemTypes ==
  /\ allocated \in Nat
  /\ pool \in Seq(Nat)
  /\ pending \in Seq(AnyPolls)
  /\ tmp \in Seq(AnyPolls)
  /\ unheard \subseteq AnyPolls

MediaTypes ==
  /\ cursor \in Nat /\ 1 <= cursor /\ cursor <= Len(tmp) + 1
  /\ packet = <<>> \/ packet \in Streams \X Nat
  /\ notify_fd \in {"none", "open", "closed"}
  /\ counter \in Nat
  /\ media \in {"start", "polling", "splice", "drain", "write", "return",
                "clear", "ended"}

FlagTypes ==
  /\ closing \in BOOLEAN /\ thrown \in BOOLEAN /\ failed \in BOOLEAN
  /\ media_stop \in BOOLEAN /\ trailer \in BOOLEAN

CodecTypes ==
  /\ draining \subseteq Streams
  /\ codec \in [Streams -> Seq(Nat)]
  /\ accepted \in [Streams -> Seq(Nat)]
  /\ file \in [Streams -> Seq(Nat)]

ExType == ex \in {"none", "std", "pointer"}

Types ==
  /\ WriterTypes /\ ItemTypes /\ MediaTypes
  /\ FlagTypes /\ CodecTypes /\ ExType

(* The main and the audio thread: audio is joined before the flushes, the  *)
(* media context is stopped after them, and who is past capture holds      *)
(* nothing.                                                                *)
WriterControl ==
  /\ phase["audio"] \in {"capture", "done"}
  /\ phase["main"] \in {"flush_video", "flush_audio", "done"} =>
       phase["audio"] = "done"
  /\ media_stop => phase["main"] = "done"
  /\ \A w \in Writers : phase[w] \in {"joining", "done"} => hand[w] = "idle"

(* The media thread.                                                       *)
MediaControl ==
  /\ thrown => failed
  /\ media = "start" => notify_fd = "none" /\ ~closing
  /\ media = "polling" => ~closing
  /\ media \in {"polling", "splice", "drain", "write", "return"} /\ ~closing =>
       notify_fd = "open"
  /\ media \in {"start", "polling", "splice", "clear", "ended"} => tmp = <<>>
  /\ media = "write" => packet # <<>>
  /\ packet # <<>> => media = "write" \/ failed
  /\ media = "clear" => closing
  /\ media = "ended" => closing \/ failed
  /\ closing /\ ~failed => media_stop
  /\ trailer => media = "ended" /\ phase["main"] = "done"

(* After on_uninit's splice nobody is left to write.                       *)
NothingAfterStop ==
  closing /\ ~failed /\ media # "splice" => pending = <<>>

Control == WriterControl /\ MediaControl /\ NothingAfterStop

Injective(s) == \A i, j \in 1 .. Len(s) : s[i] = s[j] => i = j

HandItems == {held[w].item : w \in {v \in Writers : hand[v] = "held"}}
PoolItems == Elements(pool)
PendingItems == Elements(ItemsOf(pending))
TmpItems == Elements(ItemsOf(tmp))

(* No list has an item twice, nor have the two writers the same one.       *)
NoRepetition ==
  /\ Injective(pool)
  /\ Injective(ItemsOf(pending))
  /\ Injective(ItemsOf(tmp))
  /\ hand["main"] = "held" /\ hand["audio"] = "held" =>
       held["main"].item # held["audio"].item

(* The places are disjoint and together hold all items that exist.         *)
Disjoint ==
  /\ PoolItems \cap PendingItems = {} /\ PoolItems \cap TmpItems = {}
  /\ PoolItems \cap HandItems = {} /\ PoolItems \cap freed = {}
  /\ PendingItems \cap TmpItems = {} /\ PendingItems \cap HandItems = {}
  /\ PendingItems \cap freed = {} /\ TmpItems \cap HandItems = {}
  /\ TmpItems \cap freed = {} /\ HandItems \cap freed = {}

Complete ==
  Items = PoolItems \cup PendingItems \cup TmpItems \cup HandItems \cup freed

(* Histories speak of items that exist.                                    *)
KnownItems ==
  /\ \A w \in Writers : hand[w] # "idle" => held[w].item \in Items
  /\ \A p \in unheard : p.item \in Items

Partition == NoRepetition /\ Disjoint /\ Complete /\ KnownItems

(* Before on_init every item in pending_ was written in vain or its writer *)
(* is about to find that out; later, whenever the loop is going to poll,   *)
(* there is an event for the others or a writer about to make one.         *)
Signals ==
  /\ media = "start" =>
       \A p \in Elements(pending) :
         p \in unheard \/ \E w \in Writers : hand[w] = "pushed" /\ held[w] = p
  /\ media \in {"polling", "drain", "write", "return"} /\ ~closing =>
       \/ Elements(pending) \subseteq unheard
       \/ counter > 0
       \/ \E w \in Writers : hand[w] = "pushed"

(* A codec with something to give has an item that will ask for it.        *)
Asked ==
  ~failed => \A s \in Streams : CodecHasPacket(s) =>
    \/ \E i \in 1 .. Len(pending) : pending[i].stream = s
    \/ /\ media \in {"drain", "write"}
       /\ \E i \in cursor .. Len(tmp) : tmp[i].stream = s

Packets == PacketsInOrder /\ Asked

Inv == Types /\ Control /\ Partition /\ Signals /\ Packets
-----------------------------------------------------------------------------
(* Sequences: what appending, taking the head and concatenating do to the  *)
(* set of elements and to the absence of repetitions.                      *)

(* put() at the back of a list.                                            *)
LEMMA AppendElements ==
  ASSUME NEW S, NEW s \in Seq(S), NEW x \in S
  PROVE  /\ Append(s, x) \in Seq(S)
         /\ Elements(Append(s, x)) = Elements(s) \cup {x}
         /\ Injective(s) /\ x \notin Elements(s) => Injective(Append(s, x))
<1> DEFINE t == Append(s, x)
<1>1. /\ t \in Seq(S) /\ Len(t) = Len(s) + 1 /\ Len(s) \in Nat
      /\ t[Len(s) + 1] = x
      /\ \A i \in 1 .. Len(s) : t[i] = s[i]
  OBVIOUS
<1> HIDE DEF t
<1>2. Elements(t) = Elements(s) \cup {x}
  BY <1>1 DEF Elements
<1>3. Injective(s) /\ x \notin Elements(s) => Injective(t)
  BY <1>1 DEF Injective, Elements
<1> QED BY <1>1, <1>2, <1>3 DEF t

(* get() from the front of a list.                                         *)
LEMMA TailElements ==
  ASSUME NEW S, NEW s \in Seq(S), s # <<>>
  PROVE  /\ Tail(s) \in Seq(S) /\ Head(s) \in S /\ Head(s) \in Elements(s)
         /\ Len(s) \in Nat /\ Len(s) >= 1 /\ Len(Tail(s)) = Len(s) - 1
         /\ Elements(s) = Elements(Tail(s)) \cup {Head(s)}
         /\ Injective(s) =>
              Injective(Tail(s)) /\ Head(s) \notin Elements(Tail(s))
<1> DEFINE t == Tail(s)
<1>1. /\ t \in Seq(S) /\ Len(t) = Len(s) - 1 /\ Len(s) \in Nat /\ Len(s) >= 1
      /\ Head(s) = s[1] /\ Head(s) \in S
      /\ \A i \in 1 .. Len(t) : t[i] = s[i + 1]
  OBVIOUS
<1> HIDE DEF t
<1>2. Elements(s) = Elements(t) \cup {s[1]}
  <2>1. ASSUME NEW i \in 1 .. Len(s) PROVE s[i] \in Elements(t) \cup {s[1]}
    <3>1. CASE i = 1 BY <3>1
    <3>2. CASE i # 1
      <4>1. i - 1 \in 1 .. Len(t) /\ t[i - 1] = s[i] BY <1>1, <3>2
      <4> QED BY <4>1 DEF Elements
    <3> QED BY <3>1, <3>2
  <2>2. ASSUME NEW i \in 1 .. Len(t) PROVE t[i] \in Elements(s)
    <3>1. i + 1 \in 1 .. Len(s) /\ t[i] = s[i + 1] BY <1>1
    <3> QED BY <3>1 DEF Elements
  <2>3. s[1] \in Elements(s) BY <1>1 DEF Elements
  <2> QED BY <2>1, <2>2, <2>3 DEF Elements
<1>3. ASSUME Injective(s) PROVE Injective(t) /\ s[1] \notin Elements(t)
  <2>1. ASSUME NEW i \in 1 .. Len(t), NEW j \in 1 .. Len(t), t[i] = t[j]
        PROVE  i = j
    <3>1. i + 1 \in 1 .. Len(s) /\ j + 1 \in 1 .. Len(s) BY <1>1
    <3>2. s[i + 1] = s[j + 1] BY <1>1, <2>1
    <3>3. i + 1 = j + 1 BY <1>3, <3>1, <3>2 DEF Injective
    <3> QED BY <1>1, <3>3
  <2>2. ASSUME NEW i \in 1 .. Len(t) PROVE t[i] # s[1]
    <3>1. i + 1 \in 1 .. Len(s) /\ 1 \in 1 .. Len(s) /\ i + 1 # 1 BY <1>1
    <3>2. s[i + 1] # s[1] BY <1>3, <3>1 DEF Injective
    <3> QED BY <1>1, <3>2
  <2> QED BY <2>1, <2>2 DEF Injective, Elements
<1> QED BY <1>1, <1>2, <1>3 DEF t

(* Two lists one after the other.                                          *)
LEMMA ConcatElements ==
  ASSUME NEW s \in Seq(Nat), NEW t \in Seq(Nat)
  PROVE  /\ s \o t \in Seq(Nat)
         /\ Elements(s \o t) = Elements(s) \cup Elements(t)
         /\ (Injective(s) /\ Injective(t) /\ Elements(s) \cap Elements(t) = {})
              => Injective(s \o t)
<1> DEFINE u == s \o t
<1>1. /\ u \in Seq(Nat) /\ Len(u) = Len(s) + Len(t)
      /\ Len(s) \in Nat /\ Len(t) \in Nat
      /\ \A i \in 1 .. Len(s) : u[i] = s[i]
      /\ \A i \in 1 .. Len(t) : u[Len(s) + i] = t[i]
  OBVIOUS
<1> HIDE DEF u
<1>2. ASSUME NEW i \in 1 .. Len(u), i \notin 1 .. Len(s)
      PROVE  i - Len(s) \in 1 .. Len(t) /\ u[i] = t[i - Len(s)]
  <2>1. i - Len(s) \in 1 .. Len(t) /\ i = Len(s) + (i - Len(s))
    BY <1>1, <1>2
  <2> QED BY <1>1, <2>1
<1>3. Elements(u) = Elements(s) \cup Elements(t)
  <2>1. ASSUME NEW i \in 1 .. Len(u)
        PROVE  u[i] \in Elements(s) \cup Elements(t)
    <3>1. CASE i \in 1 .. Len(s) BY <1>1, <3>1 DEF Elements
    <3>2. CASE i \notin 1 .. Len(s) BY <1>2, <3>2 DEF Elements
    <3> QED BY <3>1, <3>2
  <2>2. ASSUME NEW i \in 1 .. Len(s) PROVE s[i] \in Elements(u)
    <3>1. i \in 1 .. Len(u) /\ u[i] = s[i] BY <1>1
    <3> QED BY <3>1 DEF Elements
  <2>3. ASSUME NEW i \in 1 .. Len(t) PROVE t[i] \in Elements(u)
    <3>0. Len(s) + i \in 1 .. Len(s) + Len(t) BY <1>1
    <3>1. Len(s) + i \in 1 .. Len(u) /\ u[Len(s) + i] = t[i]
      BY <1>1, <3>0
    <3> QED BY <3>1 DEF Elements
  <2> QED BY <2>1, <2>2, <2>3 DEF Elements
<1>4. ASSUME Injective(s), Injective(t), Elements(s) \cap Elements(t) = {},
             NEW i \in 1 .. Len(u), NEW j \in 1 .. Len(u), u[i] = u[j]
      PROVE  i = j
  <2>1. CASE i \in 1 .. Len(s) /\ j \in 1 .. Len(s)
    BY <1>1, <1>4, <2>1 DEF Injective
  <2>2. CASE i \in 1 .. Len(s) /\ j \notin 1 .. Len(s)
    <3>1. u[i] \in Elements(s) BY <1>1, <2>2 DEF Elements
    <3>2. u[j] \in Elements(t) BY <1>2, <2>2 DEF Elements
    <3> QED BY <1>4, <3>1, <3>2
  <2>3. CASE i \notin 1 .. Len(s) /\ j \in 1 .. Len(s)
    <3>1. u[i] \in Elements(t) BY <1>2, <2>3 DEF Elements
    <3>2. u[j] \in Elements(s) BY <1>1, <2>3 DEF Elements
    <3> QED BY <1>4, <3>1, <3>2
  <2>4. CASE i \notin 1 .. Len(s) /\ j \notin 1 .. Len(s)
    <3>1. i - Len(s) = j - Len(s) BY <1>2, <1>4, <2>4 DEF Injective
    <3> QED BY <1>1, <3>1
  <2> QED BY <2>1, <2>2, <2>3, <2>4
<1> QED BY <1>1, <1>3, <1>4 DEF Injective, u

(* The items of a list of polls follow the list.                           *)
LEMMA ItemsOfLists ==
  ASSUME NEW ps \in Seq(AnyPolls)
  PROVE  /\ ItemsOf(ps) \in Seq(Nat) /\ Len(ItemsOf(ps)) = Len(ps)
         /\ \A i \in 1 .. Len(ps) : ItemsOf(ps)[i] = ps[i].item
         /\ ps = <<>> <=> ItemsOf(ps) = <<>>
         /\ \A p \in AnyPolls :
              ItemsOf(Append(ps, p)) = Append(ItemsOf(ps), p.item)
         /\ ps # <<>> => /\ ItemsOf(Tail(ps)) = Tail(ItemsOf(ps))
                         /\ Head(ItemsOf(ps)) = Head(ps).item
<1>1. ASSUME NEW qs \in Seq(AnyPolls)
      PROVE  /\ ItemsOf(qs) \in Seq(Nat) /\ Len(ItemsOf(qs)) = Len(qs)
             /\ \A i \in 1 .. Len(qs) : ItemsOf(qs)[i] = qs[i].item
  <2>1. Len(qs) \in Nat /\ \A i \in 1 .. Len(qs) : qs[i] \in AnyPolls
    OBVIOUS
  <2>2. \A i \in 1 .. Len(qs) : qs[i].item \in Nat BY <2>1 DEF AnyPolls
  <2> QED BY <2>1, <2>2 DEF ItemsOf
<1>2. ASSUME NEW p \in AnyPolls
      PROVE  ItemsOf(Append(ps, p)) = Append(ItemsOf(ps), p.item)
  <2> DEFINE qs == Append(ps, p)
             a == ItemsOf(qs)
             b == Append(ItemsOf(ps), p.item)
  <2>1. p.item \in Nat BY DEF AnyPolls
  <2>2. /\ qs \in Seq(AnyPolls) /\ Len(qs) = Len(ps) + 1
        /\ Len(ps) \in Nat /\ qs[Len(ps) + 1] = p
        /\ \A i \in 1 .. Len(ps) : qs[i] = ps[i]
    OBVIOUS
  <2> HIDE DEF qs
  <2>3. /\ a \in Seq(Nat) /\ Len(a) = Len(ps) + 1
        /\ \A i \in 1 .. Len(a) : a[i] = qs[i].item
    BY <1>1, <2>2
  <2>4. /\ b \in Seq(Nat) /\ Len(b) = Len(ps) + 1
        /\ b[Len(ps) + 1] = p.item
        /\ \A i \in 1 .. Len(ps) : b[i] = ps[i].item
    BY <1>1, <2>1
  <2> HIDE DEF a, b
  <2>5. ASSUME NEW i \in 1 .. Len(a) PROVE a[i] = b[i]
    <3>1. a[i] = qs[i].item BY <2>3
    <3>2. CASE i \in 1 .. Len(ps) BY ONLY <2>2, <2>4, <3>1, <3>2
    <3>3. CASE i = Len(ps) + 1 BY ONLY <2>2, <2>4, <3>1, <3>3
    <3> QED BY <2>2, <2>3, <3>2, <3>3
  <2>6. a = b BY <2>3, <2>4, <2>5, SeqEqual
  <2> QED BY <2>6 DEF a, b, qs
<1>3. ASSUME ps # <<>>
      PROVE  /\ ItemsOf(Tail(ps)) = Tail(ItemsOf(ps))
             /\ Head(ItemsOf(ps)) = Head(ps).item
  <2> DEFINE a == ItemsOf(Tail(ps))
             b == Tail(ItemsOf(ps))
  <2>1. /\ Tail(ps) \in Seq(AnyPolls) /\ Len(Tail(ps)) = Len(ps) - 1
        /\ Len(ps) >= 1 /\ Len(ps) \in Nat
        /\ \A i \in 1 .. Len(ps) - 1 : Tail(ps)[i] = ps[i + 1]
        /\ Head(ps) = ps[1]
    BY <1>3
  <2>2. ItemsOf(ps) # <<>> BY <1>1, <2>1
  <2>3. /\ b \in Seq(Nat) /\ Len(b) = Len(ps) - 1
        /\ \A i \in 1 .. Len(ps) - 1 : b[i] = ItemsOf(ps)[i + 1]
        /\ Head(ItemsOf(ps)) = ItemsOf(ps)[1]
    BY <1>1, <2>2
  <2>4. a \in Seq(Nat) /\ Len(a) = Len(ps) - 1 BY <1>1, <2>1
  <2>5. ASSUME NEW i \in 1 .. Len(a) PROVE a[i] = b[i]
    <3>1. i \in 1 .. Len(ps) - 1 /\ i + 1 \in 1 .. Len(ps) BY <2>1, <2>4
    <3>2. a[i] = Tail(ps)[i].item BY <1>1, <2>1, <2>4
    <3> QED BY <1>1, <2>1, <2>3, <3>1, <3>2
  <2> HIDE DEF a, b
  <2>6. a = b BY <2>3, <2>4, <2>5, SeqEqual
  <2>7. Head(ItemsOf(ps)) = Head(ps).item BY <1>1, <2>1, <2>3
  <2> QED BY <2>6, <2>7 DEF a, b
<1>4. ps = <<>> <=> ItemsOf(ps) = <<>> BY <1>1
<1> QED BY <1>1, <1>2, <1>3, <1>4

(* The empty list.                                                         *)
LEMMA EmptyLists ==
  /\ Elements(<<>>) = {} /\ Injective(<<>>) /\ ItemsOf(<<>>) = <<>>
  /\ <<>> \in Seq(Nat) /\ <<>> \in Seq(AnyPolls)
<1>1. Elements(<<>>) = {} BY DEF Elements
<1>2. Injective(<<>>) BY DEF Injective
<1>3. <<>> \in Seq(AnyPolls) OBVIOUS
<1>4. ItemsOf(<<>>) = <<>> BY <1>3, ItemsOfLists
<1> QED BY <1>1, <1>2, <1>3, <1>4
-----------------------------------------------------------------------------
(* Types.                                                                  *)

(* The first state.                                                        *)
LEMMA InitTypes == Init => Types
<1> SUFFICES ASSUME Init PROVE Types OBVIOUS
<1>1. WriterTypes BY DEF Init, WriterTypes, Writers, Streams, NoPoll
<1>2. ItemTypes BY EmptyLists DEF Init, ItemTypes
<1>3. MediaTypes BY DEF Init, MediaTypes
<1>4. FlagTypes BY DEF Init, FlagTypes
<1>5. CodecTypes BY DEF Init, CodecTypes
<1>6. ExType BY DEF Init, ExType
<1> QED BY <1>1, <1>2, <1>3, <1>4, <1>5, <1>6 DEF Types

(* The stream a writer works on is one of the two.                         *)
LEMMA StreamOfType == \A w : StreamOf(w) \in Streams
BY DEF StreamOf, Streams

(* A writer with something in hand holds a poll, and its stream is one.    *)
LEMMA HeldPoll ==
  ASSUME WriterTypes, NEW w \in Writers, hand[w] # "idle"
  PROVE  held[w] \in AnyPolls /\ held[w].item \in Nat
         /\ held[w].stream \in Streams
<1>1. held[w] \in AnyPolls BY DEF WriterTypes
<1> QED BY <1>1 DEF AnyPolls

(* Only the writers' own steps change what they are doing.                 *)
LEMMA WriterTypesStep == Types /\ [Next]_vars => WriterTypes'
<1> SUFFICES ASSUME Types, [Next]_vars PROVE WriterTypes' OBVIOUS
<1>t. WriterTypes /\ ItemTypes BY DEF Types
<1>1. ASSUME NEW w \in Writers, PrepareFrame(w) PROVE WriterTypes'
  <2>1. /\ phase' = phase /\ produced' = produced
        /\ hand' = [hand EXCEPT ![w] = "held"]
    BY <1>1 DEF PrepareFrame
  <2>2. \E p \in AnyPolls : held' = [held EXCEPT ![w] = p]
    <3>1. CASE pool # <<>>
      <4>1. Head(pool) \in Nat BY <1>t, <3>1, TailElements DEF ItemTypes
      <4>2. [item |-> Head(pool), stream |-> StreamOf(w)] \in AnyPolls
        BY <4>1, StreamOfType DEF AnyPolls
      <4> QED BY <1>1, <3>1, <4>2 DEF PrepareFrame
    <3>2. CASE pool = <<>>
      <4>1. [item |-> allocated + 1, stream |-> StreamOf(w)] \in AnyPolls
        BY <1>t, StreamOfType DEF AnyPolls, ItemTypes
      <4> QED BY <1>1, <3>2, <4>1 DEF PrepareFrame
    <3> QED BY <3>1, <3>2
  <2> QED BY <1>t, <2>1, <2>2 DEF WriterTypes
<1>2. ASSUME NEW w \in Writers, HandlerThrows(w) PROVE WriterTypes'
  BY <1>t, <1>2 DEF HandlerThrows, WriterTypes
<1>3. ASSUME NEW w \in Writers, WriteFrame(w) PROVE WriterTypes'
  <2>1. hand[w] = "held" /\ hand' = [hand EXCEPT ![w] = "pushed"]
        /\ phase' = phase /\ held' = held
    BY <1>3 DEF WriteFrame
  <2>2. held[w].stream \in Streams BY <1>t, <2>1, HeldPoll
  <2>3. produced' \in [Streams -> Nat]
    BY <1>t, <1>3, <2>2 DEF WriteFrame, WriterTypes
  <2> QED BY <1>t, <2>1, <2>3 DEF WriterTypes
<1>4. ASSUME NEW w \in Writers, NotifyEncoder(w) PROVE WriterTypes'
  BY <1>t, <1>4 DEF NotifyEncoder, WriterTypes, AfterFlush
<1>5. ASSUME NEW w \in Writers, EndCapture(w) PROVE WriterTypes'
  BY <1>t, <1>5 DEF EndCapture, WriterTypes
<1>6. CASE JoinAudio
  BY <1>t, <1>6 DEF JoinAudio, WriterTypes, Writers
<1>7. CASE UNCHANGED <<phase, hand, held, produced>>
  BY <1>t, <1>7 DEF WriterTypes
<1>8. CASE FlushThrows
  BY <1>t, <1>8 DEF FlushThrows, WriterTypes
<1> QED BY <1>1, <1>2, <1>3, <1>4, <1>5, <1>6, <1>7, <1>8
  DEF Next, Writing, Media, writerVars, WriteTrailer, OnInit, OnInitThrows,
  DispatchRead, DispatchSplice, DispatchReceive, DispatchAgain, DispatchWrite,
  DispatchThrows, DispatchDone, ReturnItem, DispatchReturns, OnUninit,
  PoolClear, vars

(* The lists hold what was in the lists and in the hands.                  *)
LEMMA ItemTypesStep == Types /\ [Next]_vars => ItemTypes'
<1> SUFFICES ASSUME Types, [Next]_vars PROVE ItemTypes' OBVIOUS
<1>t. WriterTypes /\ ItemTypes BY DEF Types
<1>1. ASSUME NEW w \in Writers, PrepareFrame(w) PROVE ItemTypes'
  <2>1. /\ pending' = pending /\ tmp' = tmp /\ unheard' = unheard
        /\ \/ pool # <<>> /\ pool' = Tail(pool) /\ allocated' = allocated
           \/ pool' = pool /\ allocated' = allocated + 1
    BY <1>1 DEF PrepareFrame, mediaVars, eventVars
  <2>2. pool \in Seq(Nat) BY <1>t DEF ItemTypes
  <2>3. pool # <<>> => Tail(pool) \in Seq(Nat) BY <2>2, TailElements
  <2>4. pool' \in Seq(Nat) BY <2>1, <2>2, <2>3
  <2>5. allocated' \in Nat BY <1>t, <2>1 DEF ItemTypes
  <2> QED BY <1>t, <2>1, <2>4, <2>5 DEF ItemTypes
<1>2. ASSUME NEW w \in Writers, HandlerThrows(w) PROVE ItemTypes'
  <2>1. /\ pending' = pending /\ tmp' = tmp /\ unheard' = unheard
        /\ allocated' = allocated /\ hand[w] = "held"
        /\ pool' = Append(pool, held[w].item)
    BY <1>2 DEF HandlerThrows, mediaVars, eventVars
  <2>2. held[w].item \in Nat BY <1>t, <2>1, HeldPoll
  <2>3. pool' \in Seq(Nat) BY <1>t, <2>1, <2>2 DEF ItemTypes
  <2> QED BY <1>t, <2>1, <2>3 DEF ItemTypes
<1>3. ASSUME NEW w \in Writers, WriteFrame(w) PROVE ItemTypes'
  <2>1. /\ tmp' = tmp /\ unheard' = unheard /\ pool' = pool
        /\ allocated' = allocated /\ hand[w] = "held"
        /\ pending' = Append(pending, held[w])
    BY <1>3 DEF WriteFrame, mediaVars, eventVars, itemVars
  <2>2. held[w] \in AnyPolls BY <1>t, <2>1, HeldPoll
  <2>3. pending' \in Seq(AnyPolls) BY <1>t, <2>1, <2>2 DEF ItemTypes
  <2> QED BY <1>t, <2>1, <2>3 DEF ItemTypes
<1>4. ASSUME NEW w \in Writers, NotifyEncoder(w) PROVE ItemTypes'
  <2>1. /\ tmp' = tmp /\ pool' = pool /\ allocated' = allocated
        /\ pending' = pending /\ hand[w] = "pushed"
        /\ unheard' \subseteq unheard \cup {held[w]}
    BY <1>4 DEF NotifyEncoder, mediaVars, itemVars
  <2>2. held[w] \in AnyPolls BY <1>t, <2>1, HeldPoll
  <2> QED BY <1>t, <2>1, <2>2 DEF ItemTypes
<1>5. CASE OnInit
  <2> DEFINE new == [i \in 1 .. PoolSize |-> allocated + i]
  <2>1. PoolSize \in Nat /\ allocated \in Nat
    BY <1>t, ConstantsAssumption DEF ItemTypes
  <2>2. new \in Seq(Nat) BY <2>1
  <2>3. pool \o new \in Seq(Nat) BY <1>t, <2>2, ConcatElements DEF ItemTypes
  <2>4. allocated + PoolSize \in Nat BY <2>1
  <2> QED BY <1>t, <1>5, <2>3, <2>4 DEF OnInit, ItemTypes
<1>6. CASE DispatchSplice
  BY <1>t, <1>6, EmptyLists DEF DispatchSplice, ItemTypes, itemVars
<1>7. CASE ReturnItem
  <2>1. Tail(tmp) \in Seq(AnyPolls) /\ Head(tmp) \in AnyPolls
    BY <1>t, <1>7, TailElements DEF ItemTypes, ReturnItem
  <2>2. Head(tmp).item \in Nat BY <2>1 DEF AnyPolls
  <2>3. Append(pool, Head(tmp).item) \in Seq(Nat)
    BY <1>t, <2>2 DEF ItemTypes
  <2> QED BY <1>t, <1>7, <2>1, <2>3 DEF ReturnItem, ItemTypes, eventVars
<1>8. CASE PoolClear
  BY <1>t, <1>8, EmptyLists DEF PoolClear, ItemTypes, eventVars
<1>9. CASE UNCHANGED <<allocated, pool, pending, tmp, unheard>>
  BY <1>t, <1>9 DEF ItemTypes
<1>10. ASSUME NEW w \in Writers, EndCapture(w) PROVE ItemTypes'
  BY <1>9, <1>10 DEF EndCapture, itemVars, mediaVars, eventVars
<1>11. CASE FlushThrows
  BY <1>9, <1>11 DEF FlushThrows, itemVars, mediaVars, eventVars
<1> QED BY <1>1, <1>2, <1>3, <1>4, <1>5, <1>6, <1>7, <1>8, <1>9, <1>10, <1>11
  DEF Next, Writing, Media, JoinAudio, WriteTrailer, OnInitThrows,
  DispatchRead, DispatchReceive, DispatchAgain, DispatchWrite,
  DispatchThrows, DispatchDone, DispatchReturns, OnUninit,
  itemVars, mediaVars, eventVars, vars
(* dispatch's place, its packet and the eventfd.                           *)
LEMMA MediaTypesStep == Types /\ [Next]_vars => MediaTypes'
<1> SUFFICES ASSUME Types, [Next]_vars PROVE MediaTypes' OBVIOUS
<1>t. ItemTypes /\ MediaTypes /\ CodecTypes BY DEF Types
<1>1. ASSUME NEW w \in Writers, NotifyEncoder(w) PROVE MediaTypes'
  BY <1>t, <1>1 DEF NotifyEncoder, MediaTypes, mediaVars
<1>2. CASE OnInit \/ OnInitThrows \/ DispatchRead \/ DispatchThrows
           \/ DispatchDone
  BY <1>t, <1>2 DEF OnInit, OnInitThrows, DispatchRead, DispatchThrows,
    DispatchDone, MediaTypes, eventVars
<1>3. CASE DispatchReturns \/ OnUninit \/ PoolClear
  BY <1>t, <1>3 DEF DispatchReturns, OnUninit, PoolClear, MediaTypes,
    eventVars
<1>4. CASE DispatchSplice
  <2>1. Len(pending) \in Nat BY <1>t DEF ItemTypes
  <2> QED BY <1>t, <1>4, <2>1 DEF DispatchSplice, MediaTypes
<1>5. CASE DispatchReceive
  <2> DEFINE s == tmp[cursor].stream
  <2>1. cursor \in 1 .. Len(tmp) /\ Len(tmp) \in Nat
    BY <1>t, <1>5 DEF DispatchReceive, MediaTypes, ItemTypes
  <2>2. tmp[cursor] \in AnyPolls BY <1>t, <2>1 DEF ItemTypes
  <2>3. s \in Streams BY <2>2 DEF AnyPolls
  <2>4. codec[s] # <<>>
    BY <1>t, <1>5, <2>3, ConstantsAssumption
    DEF DispatchReceive, CodecHasPacket, CodecTypes
  <2>5. codec[s] \in Seq(Nat) BY <1>t, <2>3 DEF CodecTypes
  <2>6. Head(codec[s]) \in Nat BY <2>4, <2>5, TailElements
  <2>7. packet' \in Streams \X Nat BY <1>5, <2>3, <2>6 DEF DispatchReceive
  <2> QED BY <1>t, <1>5, <2>7 DEF DispatchReceive, MediaTypes, eventVars
<1>6. CASE DispatchAgain
  <2>1. Len(tmp) \in Nat BY <1>t DEF ItemTypes
  <2> QED BY <1>t, <1>6, <2>1 DEF DispatchAgain, MediaTypes, eventVars
<1>7. CASE DispatchWrite
  BY <1>t, <1>7 DEF DispatchWrite, MediaTypes, eventVars
<1>8. CASE ReturnItem
  <2>1. tmp \in Seq(AnyPolls) /\ tmp # <<>>
    BY <1>t, <1>8 DEF ItemTypes, ReturnItem
  <2>2. Len(Tail(tmp)) \in Nat BY <2>1
  <2> QED BY <1>t, <1>8, <2>2 DEF ReturnItem, MediaTypes, eventVars
<1>9. CASE UNCHANGED <<mediaVars, notify_fd, counter>>
  BY <1>t, <1>9 DEF mediaVars, MediaTypes
<1>10. ASSUME NEW w \in Writers, PrepareFrame(w) \/ HandlerThrows(w)
                  \/ WriteFrame(w) \/ EndCapture(w) \/ FlushThrows
       PROVE  MediaTypes'
  BY <1>9, <1>10 DEF PrepareFrame, HandlerThrows, WriteFrame, EndCapture,
    FlushThrows, eventVars
<1> QED BY <1>1, <1>2, <1>3, <1>4, <1>5, <1>6, <1>7, <1>8, <1>9, <1>10
  DEF Next, Writing, Media, JoinAudio, WriteTrailer, Writers, eventVars, vars

(* The flags.                                                              *)
LEMMA FlagTypesStep == Types /\ [Next]_vars => FlagTypes'
<1> SUFFICES ASSUME FlagTypes, [Next]_vars PROVE FlagTypes' BY DEF Types
<1>1. ASSUME NEW w \in Writers, NotifyEncoder(w) PROVE FlagTypes'
  BY <1>1 DEF NotifyEncoder, FlagTypes, mediaVars, StopsMedia
<1>2. CASE OnInitThrows \/ DispatchThrows \/ WriteTrailer
  BY <1>2 DEF OnInitThrows, DispatchThrows, WriteTrailer, FlagTypes, mediaVars
<1>3. CASE DispatchReturns \/ OnUninit
  BY <1>3 DEF DispatchReturns, OnUninit, FlagTypes
<1>4. CASE UNCHANGED <<closing, thrown, failed, media_stop, trailer>>
  BY <1>4 DEF FlagTypes
<1>5. ASSUME NEW w \in Writers, PrepareFrame(w) \/ HandlerThrows(w)
                  \/ WriteFrame(w) \/ EndCapture(w)
       PROVE  FlagTypes'
  BY <1>4, <1>5 DEF PrepareFrame, HandlerThrows, WriteFrame, EndCapture,
    mediaVars
<1>6. CASE FlushThrows
  BY <1>6 DEF FlushThrows, FlagTypes, mediaVars
<1> QED BY <1>1, <1>2, <1>3, <1>4, <1>5, <1>6
  DEF Next, Writing, Media, JoinAudio, OnInit, DispatchRead, DispatchSplice,
  DispatchReceive, DispatchAgain, DispatchWrite, DispatchDone, ReturnItem,
  PoolClear, mediaVars, vars

(* ex takes what was thrown, when it is the first.                         *)
LEMMA ExTypeStep == Types /\ [Next]_vars => ExType'
<1> SUFFICES ASSUME ExType, [Next]_vars PROVE ExType' BY DEF Types
<1>1. CASE UNCHANGED ex
  BY <1>1 DEF ExType
<1>2. ASSUME NEW w \in Writers, HandlerThrows(w) \/ EndCapture(w)
      PROVE  ExType'
  BY <1>2 DEF HandlerThrows, EndCapture, Kept, ExType
<1>3. CASE FlushThrows \/ OnInitThrows \/ DispatchThrows
  BY <1>3 DEF FlushThrows, OnInitThrows, DispatchThrows, Kept, ExType
<1> QED BY <1>1, <1>2, <1>3 DEF Next, Writing, PrepareFrame, WriteFrame,
  NotifyEncoder, JoinAudio, WriteTrailer, Media, OnInit, DispatchRead,
  DispatchSplice, DispatchReceive, DispatchAgain, DispatchWrite,
  DispatchDone, ReturnItem, DispatchReturns, OnUninit, PoolClear,
  writerVars, vars

(* What the codecs hold and what is in the file.                           *)
LEMMA CodecTypesStep == Types /\ Control /\ [Next]_vars => CodecTypes'
<1> SUFFICES ASSUME Types, Control, [Next]_vars PROVE CodecTypes' OBVIOUS
<1>t. WriterTypes /\ ItemTypes /\ MediaTypes /\ CodecTypes BY DEF Types
<1>1. ASSUME NEW w \in Writers, WriteFrame(w) PROVE CodecTypes'
  <2> DEFINE s == held[w].stream
  <2>1. hand[w] = "held" /\ file' = file BY <1>1 DEF WriteFrame
  <2>2. s \in Streams BY <1>t, <2>1, HeldPoll
  <2>3. produced[s] \in Nat BY <1>t, <2>2 DEF WriterTypes
  <2>4. codec[s] \in Seq(Nat) /\ accepted[s] \in Seq(Nat)
    BY <1>t, <2>2 DEF CodecTypes
  <2>5. /\ Append(codec[s], produced[s]) \in Seq(Nat)
        /\ Append(accepted[s], produced[s]) \in Seq(Nat)
    BY <2>3, <2>4
  <2>6. codec' \in [Streams -> Seq(Nat)]
    BY <1>t, <1>1, <2>2, <2>5 DEF WriteFrame, CodecTypes
  <2>7. accepted' \in [Streams -> Seq(Nat)]
    BY <1>t, <1>1, <2>2, <2>5 DEF WriteFrame, CodecTypes
  <2>8. draining' \subseteq Streams
    BY <1>t, <1>1, <2>2 DEF WriteFrame, CodecTypes
  <2> QED BY <1>t, <2>1, <2>6, <2>7, <2>8 DEF CodecTypes
<1>2. CASE DispatchReceive
  <2> DEFINE s == tmp[cursor].stream
  <2>1. cursor \in 1 .. Len(tmp) /\ Len(tmp) \in Nat
    BY <1>t, <1>2 DEF DispatchReceive, MediaTypes, ItemTypes
  <2>2. tmp[cursor] \in AnyPolls BY <1>t, <2>1 DEF ItemTypes
  <2>3. s \in Streams BY <2>2 DEF AnyPolls
  <2>4. codec[s] # <<>>
    BY <1>t, <1>2, <2>3, ConstantsAssumption
    DEF DispatchReceive, CodecHasPacket, CodecTypes
  <2>5. codec[s] \in Seq(Nat) BY <1>t, <2>3 DEF CodecTypes
  <2>6. Tail(codec[s]) \in Seq(Nat) BY <2>4, <2>5, TailElements
  <2>7. codec' \in [Streams -> Seq(Nat)]
    BY <1>t, <1>2, <2>3, <2>6 DEF DispatchReceive, CodecTypes
  <2> QED BY <1>t, <1>2, <2>7 DEF DispatchReceive, CodecTypes
<1>3. CASE DispatchWrite
  <2>1. packet \in Streams \X Nat
    BY <1>t, <1>3 DEF DispatchWrite, MediaTypes, Control, MediaControl
  <2>2. packet[1] \in Streams /\ packet[2] \in Nat BY <2>1
  <2>3. file[packet[1]] \in Seq(Nat) BY <1>t, <2>2 DEF CodecTypes
  <2>4. Append(file[packet[1]], packet[2]) \in Seq(Nat) BY <2>2, <2>3
  <2>5. file' \in [Streams -> Seq(Nat)]
    BY <1>t, <1>3, <2>2, <2>4 DEF DispatchWrite, CodecTypes
  <2> QED BY <1>t, <1>3, <2>5 DEF DispatchWrite, CodecTypes, codecVars
<1>4. CASE UNCHANGED <<codecVars, file>>
  BY <1>t, <1>4 DEF CodecTypes, codecVars
<1>5. ASSUME NEW w \in Writers, PrepareFrame(w) \/ HandlerThrows(w)
                  \/ NotifyEncoder(w) \/ EndCapture(w)
       PROVE  CodecTypes'
  BY <1>4, <1>5 DEF PrepareFrame, HandlerThrows, NotifyEncoder, EndCapture
<1>6. CASE FlushThrows
  BY <1>4, <1>6 DEF FlushThrows
<1> QED BY <1>1, <1>2, <1>3, <1>4, <1>5, <1>6
  DEF Next, Writing, Media, JoinAudio, WriteTrailer, OnInit, OnInitThrows,
  DispatchRead, DispatchSplice, DispatchAgain, DispatchThrows, DispatchDone,
  ReturnItem, DispatchReturns, OnUninit, PoolClear, vars

(* All types together.                                                     *)
LEMMA TypesStep == Types /\ Control /\ [Next]_vars => Types'
BY WriterTypesStep, ItemTypesStep, MediaTypesStep, FlagTypesStep,
  CodecTypesStep, ExTypeStep DEF Types
-----------------------------------------------------------------------------
(* Control.                                                                *)

(* Every layer in the first state.                                         *)
LEMMA InitControl == Init => Control
BY DEF Init, Control, WriterControl, MediaControl, NothingAfterStop, Writers

(* The order of the writers' lives: capture, join, flushes, stop.          *)
LEMMA WriterControlStep ==
  Types /\ Control /\ [Next]_vars => WriterControl'
<1> SUFFICES ASSUME Types, Control, [Next]_vars PROVE WriterControl' OBVIOUS
<1>t. WriterTypes /\ WriterControl BY DEF Types, Control
<1>1. ASSUME NEW w \in Writers, PrepareFrame(w) PROVE WriterControl'
  BY <1>t, <1>1 DEF PrepareFrame, Capturing, Flushing, WriterControl,
    WriterTypes, Writers
<1>2. ASSUME NEW w \in Writers, HandlerThrows(w) PROVE WriterControl'
  BY <1>t, <1>2 DEF HandlerThrows, Capturing, WriterControl, WriterTypes,
    Writers
<1>3. ASSUME NEW w \in Writers, WriteFrame(w) PROVE WriterControl'
  BY <1>t, <1>3 DEF WriteFrame, WriterControl, WriterTypes, Writers
<1>4. ASSUME NEW w \in Writers, NotifyEncoder(w) PROVE WriterControl'
  <2>1. CASE w = "audio"
    BY <1>t, <1>4, <2>1 DEF NotifyEncoder, AfterFlush, StopsMedia,
      WriterControl, WriterTypes, Writers
  <2>2. CASE w = "main"
    BY <1>t, <1>4, <2>2 DEF NotifyEncoder, AfterFlush, StopsMedia,
      WriterControl, WriterTypes, Writers
  <2> QED BY <2>1, <2>2 DEF Writers
<1>5. ASSUME NEW w \in Writers, EndCapture(w) PROVE WriterControl'
  BY <1>t, <1>5 DEF EndCapture, Capturing, WriterControl, WriterTypes,
    Writers
<1>6. CASE JoinAudio
  BY <1>t, <1>6 DEF JoinAudio, WriterControl, WriterTypes, Writers
<1>7. CASE UNCHANGED <<phase, hand, media_stop>>
  BY <1>t, <1>7 DEF WriterControl
<1>8. CASE FlushThrows
  BY <1>t, <1>8 DEF FlushThrows, Flushing, WriterControl, WriterTypes,
    Writers
<1> QED BY <1>1, <1>2, <1>3, <1>4, <1>5, <1>6, <1>7, <1>8
  DEF Next, Writing, Media, writerVars, WriteTrailer, OnInit, OnInitThrows,
  DispatchRead, DispatchSplice, DispatchReceive, DispatchAgain, DispatchWrite,
  DispatchThrows, DispatchDone, ReturnItem, DispatchReturns, OnUninit,
  PoolClear, vars

(* The media thread's own steps, and the trailer after it has ended.       *)
LEMMA MediaControlStep ==
  Types /\ Control /\ [Next]_vars => MediaControl'
<1> SUFFICES ASSUME Types, Control, [Next]_vars PROVE MediaControl' OBVIOUS
<1>t. FlagTypes /\ MediaTypes /\ MediaControl BY DEF Types, Control
<1>1. ASSUME NEW w \in Writers,
             Writing(w) \/ EndCapture(w) \/ JoinAudio \/ FlushThrows
      PROVE  MediaControl'
  <2>1. UNCHANGED <<mediaVars, notify_fd, trailer>>
    BY <1>1 DEF Writing, PrepareFrame, HandlerThrows, WriteFrame,
      NotifyEncoder, EndCapture, JoinAudio, FlushThrows, eventVars
  <2>2. media_stop => media_stop'
    BY <1>1 DEF Writing, PrepareFrame, HandlerThrows, WriteFrame,
      NotifyEncoder, EndCapture, JoinAudio, FlushThrows
  <2>3. phase["main"] = "done" => phase'["main"] = "done"
    BY <1>1 DEF Types, WriterTypes, Control, WriterControl,
      Writing, PrepareFrame, HandlerThrows, WriteFrame, NotifyEncoder,
      EndCapture, JoinAudio, FlushThrows, Capturing, AfterFlush, Writers
  <2> QED BY <1>t, <2>1, <2>2, <2>3 DEF mediaVars, MediaControl
<1>2. CASE WriteTrailer
  BY <1>t, <1>2 DEF WriteTrailer, MediaControl, writerVars, mediaVars,
    eventVars
<1>3. CASE OnInit \/ OnInitThrows
  BY <1>t, <1>3 DEF OnInit, OnInitThrows, MediaControl, writerVars, eventVars
<1>4. CASE DispatchRead
  BY <1>t, <1>4 DEF DispatchRead, MediaControl, writerVars
<1>5. CASE DispatchSplice
  BY <1>t, <1>5 DEF DispatchSplice, MediaControl, writerVars
<1>6. CASE DispatchReceive
  <2>1. packet' # <<>>
    <3> DEFINE a == tmp[cursor].stream
               b == Head(codec[tmp[cursor].stream])
    <3>1. packet' = <<a, b>> BY <1>6 DEF DispatchReceive
    <3> HIDE DEF a, b
    <3>2. <<a, b>> # <<>> OBVIOUS
    <3> QED BY <3>1, <3>2
  <2> QED BY <1>t, <1>6, <2>1 DEF DispatchReceive, MediaControl, writerVars,
    eventVars
<1>12. CASE DispatchAgain
  BY <1>t, <1>12 DEF DispatchAgain, MediaControl, writerVars, eventVars
<1>7. CASE DispatchWrite \/ DispatchThrows \/ DispatchDone
  BY <1>t, <1>7 DEF DispatchWrite, DispatchThrows, DispatchDone,
    MediaControl, writerVars, eventVars
<1>8. CASE ReturnItem
  BY <1>t, <1>8 DEF ReturnItem, MediaControl, writerVars, eventVars
<1>9. CASE DispatchReturns
  BY <1>t, <1>9 DEF DispatchReturns, MediaControl, writerVars, FlagTypes
<1>10. CASE OnUninit \/ PoolClear
  BY <1>t, <1>10 DEF OnUninit, PoolClear, MediaControl, writerVars, eventVars
<1>11. CASE UNCHANGED vars
  BY <1>t, <1>11 DEF vars, MediaControl, writerVars, mediaVars, eventVars
<1> QED BY <1>1, <1>2, <1>3, <1>4, <1>5, <1>6, <1>7, <1>8, <1>9, <1>10,
  <1>11, <1>12 DEF Next, Media, Writers

(* on_uninit without an error means the writers are done: its splice       *)
(* leaves pending_ empty for good.                                         *)
LEMMA NothingAfterStopStep ==
  Types /\ Control /\ [Next]_vars => NothingAfterStop'
<1> SUFFICES ASSUME Types, Control, [Next]_vars PROVE NothingAfterStop'
  OBVIOUS
<1>c. WriterControl /\ MediaControl /\ NothingAfterStop BY DEF Control
<1>1. ASSUME NEW w \in Writers, WriteFrame(w) PROVE NothingAfterStop'
  <2>1. UNCHANGED <<closing, failed>> BY <1>1 DEF WriteFrame, mediaVars
  <2>2. hand[w] = "held" BY <1>1 DEF WriteFrame
  <2>3. ~media_stop
    BY <1>c, <2>2 DEF WriterControl, Writers
  <2>4. ~(closing /\ ~failed) BY <1>c, <2>3 DEF MediaControl
  <2> QED BY <2>1, <2>4 DEF NothingAfterStop
<1>2. ASSUME NEW w \in Writers,
             PrepareFrame(w) \/ HandlerThrows(w) \/ NotifyEncoder(w)
               \/ EndCapture(w)
      PROVE  NothingAfterStop'
  BY <1>c, <1>2 DEF PrepareFrame, HandlerThrows, NotifyEncoder, EndCapture,
    mediaVars, NothingAfterStop
<1>3. CASE DispatchSplice
  BY <1>3 DEF DispatchSplice, NothingAfterStop
<1>4. CASE OnInit \/ OnInitThrows \/ DispatchRead \/ OnUninit
  BY <1>c, <1>4 DEF OnInit, OnInitThrows, DispatchRead, OnUninit,
    MediaControl, NothingAfterStop
<1>5. CASE DispatchReceive \/ DispatchAgain \/ DispatchWrite
           \/ DispatchThrows \/ DispatchDone \/ ReturnItem
  BY <1>c, <1>5 DEF DispatchReceive, DispatchAgain, DispatchWrite,
    DispatchThrows, DispatchDone, ReturnItem, NothingAfterStop
<1>6. CASE DispatchReturns \/ PoolClear
  BY <1>c, <1>6 DEF DispatchReturns, PoolClear, NothingAfterStop
<1>7. CASE JoinAudio \/ FlushThrows \/ WriteTrailer \/ UNCHANGED vars
  BY <1>c, <1>7 DEF JoinAudio, FlushThrows, WriteTrailer, vars, mediaVars,
    NothingAfterStop
<1> QED BY <1>1, <1>2, <1>3, <1>4, <1>5, <1>6, <1>7 DEF Next, Writing, Media

(* The control layer as a whole.                                           *)
LEMMA ControlStep == Types /\ Control /\ [Next]_vars => Control'
BY WriterControlStep, MediaControlStep, NothingAfterStopStep DEF Control
-----------------------------------------------------------------------------
(* Partition.                                                              *)

(* The first state: nothing exists.                                        *)
LEMMA InitPartition == Init => Partition
<1> SUFFICES ASSUME Init PROVE Partition OBVIOUS
<1>1. PoolItems = {} /\ PendingItems = {} /\ TmpItems = {}
  BY EmptyLists DEF Init, PoolItems, PendingItems, TmpItems
<1>2. HandItems = {} BY DEF Init, HandItems
<1>3. Items = {} BY DEF Init, Items
<1>4. NoRepetition BY EmptyLists DEF Init, NoRepetition, Writers
<1>5. Disjoint BY <1>1, <1>2 DEF Init, Disjoint
<1>6. Complete BY <1>1, <1>2, <1>3 DEF Init, Complete
<1>7. KnownItems BY DEF Init, KnownItems, Writers
<1> QED BY <1>4, <1>5, <1>6, <1>7 DEF Partition

(* A writer takes the poll p.                                              *)
LEMMA HandTakes ==
  ASSUME WriterTypes, NEW w \in Writers, NEW p, hand[w] = "idle",
         hand' = [hand EXCEPT ![w] = "held"],
         held' = [held EXCEPT ![w] = p]
  PROVE  /\ HandItems' = HandItems \cup {p.item}
         /\ \A v \in Writers :
              v # w => hand'[v] = hand[v] /\ held'[v] = held[v]
         /\ hand'[w] = "held" /\ held'[w] = p
<1>1. /\ \A v \in Writers : v # w => hand'[v] = hand[v] /\ held'[v] = held[v]
      /\ hand'[w] = "held" /\ held'[w] = p
  BY DEF WriterTypes
<1>2. ASSUME NEW i \in HandItems PROVE i \in HandItems'
  <2>1. PICK v \in Writers : hand[v] = "held" /\ held[v].item = i
    BY DEF HandItems
  <2>2. hand'[v] = "held" /\ held'[v].item = i BY <1>1, <2>1
  <2> QED BY <2>2 DEF HandItems
<1>3. p.item \in HandItems' BY <1>1 DEF HandItems
<1>4. ASSUME NEW i \in HandItems' PROVE i \in HandItems \cup {p.item}
  <2>1. PICK v \in Writers : hand'[v] = "held" /\ held'[v].item = i
    BY DEF HandItems
  <2> QED BY <1>1, <2>1 DEF HandItems
<1> QED BY <1>1, <1>2, <1>3, <1>4

(* A writer parts with its item: nobody else holds it.                     *)
LEMMA HandGives ==
  ASSUME WriterTypes, NoRepetition, NEW w \in Writers, hand[w] = "held",
         NEW x, x # "held", hand' = [hand EXCEPT ![w] = x],
         \A v \in Writers : v # w => held'[v] = held[v]
  PROVE  /\ HandItems = HandItems' \cup {held[w].item}
         /\ held[w].item \notin HandItems'
         /\ \A v \in Writers : v # w => hand'[v] = hand[v]
         /\ hand'[w] = x
<1>1. (\A v \in Writers : v # w => hand'[v] = hand[v]) /\ hand'[w] = x
  BY DEF WriterTypes
<1>2. ASSUME NEW i \in HandItems PROVE i \in HandItems' \cup {held[w].item}
  <2>1. PICK v \in Writers : hand[v] = "held" /\ held[v].item = i
    BY DEF HandItems
  <2> QED BY <1>1, <2>1 DEF HandItems
<1>3. ASSUME NEW i \in HandItems' PROVE i \in HandItems /\ i # held[w].item
  <2>1. PICK v \in Writers : hand'[v] = "held" /\ held'[v].item = i
    BY DEF HandItems
  <2>2. v # w /\ hand[v] = "held" /\ held[v].item = i BY <1>1, <2>1
  <2>3. held[v].item # held[w].item BY <2>2 DEF NoRepetition, Writers
  <2> QED BY <2>2, <2>3 DEF HandItems
<1>4. held[w].item \in HandItems BY DEF HandItems
<1> QED BY <1>1, <1>2, <1>3, <1>4

(* Pool::get, from the pool or by construction.                            *)
LEMMA PreparePartition ==
  ASSUME Types, Control, Partition, NEW w \in Writers, PrepareFrame(w)
  PROVE  Partition'
<1>t. WriterTypes /\ ItemTypes BY DEF Types
<1>p. NoRepetition /\ Disjoint /\ Complete /\ KnownItems BY DEF Partition
<1>1. /\ hand[w] = "idle" /\ hand' = [hand EXCEPT ![w] = "held"]
      /\ pending' = pending /\ tmp' = tmp /\ freed' = freed
      /\ unheard' = unheard
  BY DEF PrepareFrame, mediaVars, eventVars
<1>2. PendingItems' = PendingItems /\ TmpItems' = TmpItems
  BY <1>1 DEF PendingItems, TmpItems
<1>3. allocated \in Nat BY <1>t DEF ItemTypes
<1>4. CASE pool # <<>>
  <2> DEFINE p == [item |-> Head(pool), stream |-> StreamOf(w)]
  <2>1. /\ held' = [held EXCEPT ![w] = p] /\ pool' = Tail(pool)
        /\ allocated' = allocated
    BY <1>4 DEF PrepareFrame
  <2>2. pool \in Seq(Nat) /\ Injective(pool)
    BY <1>t, <1>p DEF ItemTypes, NoRepetition
  <2>3. /\ PoolItems = PoolItems' \cup {Head(pool)}
        /\ Head(pool) \notin PoolItems' /\ Injective(pool')
    BY <1>4, <2>1, <2>2, TailElements DEF PoolItems
  <2>4. p.item = Head(pool) OBVIOUS
  <2> HIDE DEF p
  <2>5. /\ HandItems' = HandItems \cup {p.item}
        /\ \A v \in Writers : v # w => hand'[v] = hand[v] /\ held'[v] = held[v]
        /\ hand'[w] = "held" /\ held'[w] = p
    BY <1>t, <1>1, <2>1, HandTakes
  <2>6. Items' = Items BY <2>1 DEF Items
  <2>7. Head(pool) \in Items /\ Head(pool) \notin HandItems
    BY <1>p, <2>3 DEF Complete, Disjoint
  <2>8. NoRepetition'
    <3>1. ASSUME NEW v \in Writers, v # w, hand[v] = "held"
          PROVE  held[v].item # Head(pool)
      BY <2>7, <3>1 DEF HandItems
    <3>2. hand'["main"] = "held" /\ hand'["audio"] = "held" =>
            held'["main"].item # held'["audio"].item
      BY <2>4, <2>5, <3>1 DEF Writers
    <3> QED BY <1>p, <1>1, <2>3, <3>2 DEF NoRepetition
  <2>9. Disjoint'
    BY <1>p, <1>1, <1>2, <2>3, <2>4, <2>5 DEF Disjoint
  <2>10. Complete'
    BY <1>p, <1>1, <1>2, <2>3, <2>4, <2>5, <2>6 DEF Complete
  <2>11. KnownItems'
    BY <1>p, <1>1, <2>4, <2>5, <2>6, <2>7 DEF KnownItems
  <2> QED BY <2>8, <2>9, <2>10, <2>11 DEF Partition
<1>5. CASE pool = <<>>
  <2> DEFINE p == [item |-> allocated + 1, stream |-> StreamOf(w)]
  <2>1. /\ held' = [held EXCEPT ![w] = p] /\ pool' = pool
        /\ allocated' = allocated + 1
    BY <1>5 DEF PrepareFrame
  <2>4. p.item = allocated + 1 OBVIOUS
  <2> HIDE DEF p
  <2>5. /\ HandItems' = HandItems \cup {p.item}
        /\ \A v \in Writers : v # w => hand'[v] = hand[v] /\ held'[v] = held[v]
        /\ hand'[w] = "held" /\ held'[w] = p
    BY <1>t, <1>1, <2>1, HandTakes
  <2>6. Items' = Items \cup {allocated + 1} /\ allocated + 1 \notin Items
    BY <1>3, <2>1 DEF Items
  <2>7. PoolItems' = PoolItems BY <2>1 DEF PoolItems
  <2>8. NoRepetition'
    <3>1. ASSUME NEW v \in Writers, v # w, hand[v] = "held"
          PROVE  held[v].item # allocated + 1
      BY <1>p, <2>6, <3>1 DEF KnownItems
    <3>2. hand'["main"] = "held" /\ hand'["audio"] = "held" =>
            held'["main"].item # held'["audio"].item
      BY <2>4, <2>5, <3>1 DEF Writers
    <3> QED BY <1>p, <1>1, <2>1, <3>2 DEF NoRepetition
  <2>9. Disjoint'
    BY <1>p, <1>1, <1>2, <2>4, <2>5, <2>6, <2>7 DEF Disjoint, Complete
  <2>10. Complete'
    BY <1>p, <1>1, <1>2, <2>4, <2>5, <2>6, <2>7 DEF Complete
  <2>11. KnownItems'
    BY <1>p, <1>1, <2>4, <2>5, <2>6 DEF KnownItems
  <2> QED BY <2>8, <2>9, <2>10, <2>11 DEF Partition
<1> QED BY <1>4, <1>5

(* The deleter puts an unwritten item back.                                *)
LEMMA ThrowsPartition ==
  ASSUME Types, Control, Partition, NEW w \in Writers, HandlerThrows(w)
  PROVE  Partition'
<1>t. WriterTypes /\ ItemTypes BY DEF Types
<1>p. NoRepetition /\ Disjoint /\ Complete /\ KnownItems BY DEF Partition
<1>1. /\ hand[w] = "held" /\ hand' = [hand EXCEPT ![w] = "idle"]
      /\ held' = [held EXCEPT ![w] = NoPoll]
      /\ pool' = Append(pool, held[w].item)
      /\ pending' = pending /\ tmp' = tmp /\ freed' = freed
      /\ unheard' = unheard /\ allocated' = allocated
  BY DEF HandlerThrows, mediaVars, eventVars
<1>2. PendingItems' = PendingItems /\ TmpItems' = TmpItems /\ Items' = Items
  BY <1>1 DEF PendingItems, TmpItems, Items
<1>3. \A v \in Writers : v # w => held'[v] = held[v]
  BY <1>t, <1>1 DEF WriterTypes
<1>4. /\ HandItems = HandItems' \cup {held[w].item}
      /\ held[w].item \notin HandItems'
      /\ \A v \in Writers : v # w => hand'[v] = hand[v]
      /\ hand'[w] = "idle"
  BY <1>t, <1>p, <1>1, <1>3, HandGives
<1>5. held[w].item \notin PoolItems BY <1>p, <1>4 DEF Disjoint
<1>6. PoolItems' = PoolItems \cup {held[w].item} /\ Injective(pool')
  <2>1. held[w].item \in Nat BY <1>t, <1>1, HeldPoll
  <2>2. pool \in Seq(Nat) /\ Injective(pool)
    BY <1>t, <1>p DEF ItemTypes, NoRepetition
  <2> QED BY <1>1, <1>5, <2>1, <2>2, AppendElements DEF PoolItems
<1>7. NoRepetition'
  <2>1. ~(hand'["main"] = "held" /\ hand'["audio"] = "held")
    BY <1>4 DEF Writers
  <2> QED BY <1>p, <1>1, <1>6, <2>1 DEF NoRepetition
<1>8. Disjoint' BY <1>p, <1>1, <1>2, <1>4, <1>6 DEF Disjoint
<1>9. Complete' BY <1>p, <1>1, <1>2, <1>4, <1>6 DEF Complete
<1>10. KnownItems' BY <1>p, <1>1, <1>2, <1>3, <1>4 DEF KnownItems
<1> QED BY <1>7, <1>8, <1>9, <1>10 DEF Partition

(* write_frame's push_back.                                                *)
LEMMA WritePartition ==
  ASSUME Types, Control, Partition, NEW w \in Writers, WriteFrame(w)
  PROVE  Partition'
<1>t. WriterTypes /\ ItemTypes BY DEF Types
<1>p. NoRepetition /\ Disjoint /\ Complete /\ KnownItems BY DEF Partition
<1>1. /\ hand[w] = "held" /\ hand' = [hand EXCEPT ![w] = "pushed"]
      /\ pending' = Append(pending, held[w])
      /\ held' = held /\ pool' = pool /\ tmp' = tmp /\ freed' = freed
      /\ unheard' = unheard /\ allocated' = allocated
  BY DEF WriteFrame, mediaVars, eventVars, itemVars
<1>2. PoolItems' = PoolItems /\ TmpItems' = TmpItems /\ Items' = Items
  BY <1>1 DEF PoolItems, TmpItems, Items
<1>3. \A v \in Writers : v # w => held'[v] = held[v] BY <1>1
<1>4. /\ HandItems = HandItems' \cup {held[w].item}
      /\ held[w].item \notin HandItems'
      /\ \A v \in Writers : v # w => hand'[v] = hand[v]
      /\ hand'[w] = "pushed"
  BY <1>t, <1>p, <1>1, <1>3, HandGives
<1>5. held[w].item \notin PendingItems BY <1>p, <1>4 DEF Disjoint
<1>6. /\ PendingItems' = PendingItems \cup {held[w].item}
      /\ Injective(ItemsOf(pending'))
  <2>1. held[w] \in AnyPolls /\ held[w].item \in Nat BY <1>t, <1>1, HeldPoll
  <2>2. pending \in Seq(AnyPolls) BY <1>t DEF ItemTypes
  <2>3. /\ ItemsOf(pending') = Append(ItemsOf(pending), held[w].item)
        /\ ItemsOf(pending) \in Seq(Nat)
    BY <1>1, <2>1, <2>2, ItemsOfLists
  <2>4. Injective(ItemsOf(pending)) BY <1>p DEF NoRepetition
  <2> QED BY <1>5, <2>1, <2>3, <2>4, AppendElements DEF PendingItems
<1>7. NoRepetition'
  <2>1. ~(hand'["main"] = "held" /\ hand'["audio"] = "held")
    BY <1>4 DEF Writers
  <2> QED BY <1>p, <1>1, <1>6, <2>1 DEF NoRepetition
<1>8. Disjoint' BY <1>p, <1>1, <1>2, <1>4, <1>6 DEF Disjoint
<1>9. Complete' BY <1>p, <1>1, <1>2, <1>4, <1>6 DEF Complete
<1>10. KnownItems' BY <1>p, <1>1, <1>2, <1>4 DEF KnownItems
<1> QED BY <1>7, <1>8, <1>9, <1>10 DEF Partition
(* After its event a writer forgets the item, which is no longer its own.  *)
LEMMA NotifyPartition ==
  ASSUME Types, Control, Partition, NEW w \in Writers, NotifyEncoder(w)
  PROVE  Partition'
<1>t. WriterTypes /\ ItemTypes BY DEF Types
<1>p. NoRepetition /\ Disjoint /\ Complete /\ KnownItems BY DEF Partition
<1>1. /\ hand[w] = "pushed" /\ hand' = [hand EXCEPT ![w] = "idle"]
      /\ held' = [held EXCEPT ![w] = NoPoll]
      /\ pending' = pending /\ pool' = pool /\ tmp' = tmp /\ freed' = freed
      /\ allocated' = allocated
      /\ unheard' \subseteq unheard \cup {held[w]}
  BY DEF NotifyEncoder, mediaVars, itemVars
<1>2. /\ PoolItems' = PoolItems /\ TmpItems' = TmpItems /\ Items' = Items
      /\ PendingItems' = PendingItems
  BY <1>1 DEF PoolItems, TmpItems, PendingItems, Items
<1>3. /\ \A v \in Writers : v # w => hand'[v] = hand[v] /\ held'[v] = held[v]
      /\ hand'[w] = "idle"
  BY <1>t, <1>1 DEF WriterTypes
<1>4. HandItems' = HandItems
  <2>1. ASSUME NEW v \in Writers
        PROVE  /\ hand[v] = "held" <=> hand'[v] = "held"
               /\ hand[v] = "held" => held'[v] = held[v]
    BY <1>1, <1>3
  <2> QED BY <2>1 DEF HandItems
<1>5. NoRepetition' BY <1>p, <1>1, <1>3 DEF NoRepetition, Writers
<1>6. Disjoint' BY <1>p, <1>1, <1>2, <1>4 DEF Disjoint
<1>7. Complete' BY <1>p, <1>1, <1>2, <1>4 DEF Complete
<1>8. KnownItems'
  <2>1. held[w].item \in Items BY <1>p, <1>1 DEF KnownItems
  <2> QED BY <1>p, <1>1, <1>2, <1>3, <2>1 DEF KnownItems
<1> QED BY <1>5, <1>6, <1>7, <1>8 DEF Partition

(* Pool::fill adds new items at the back.                                  *)
LEMMA FillPartition ==
  ASSUME Types, Control, Partition, OnInit
  PROVE  Partition'
<1> DEFINE new == [i \in 1 .. PoolSize |-> allocated + i]
<1>t. WriterTypes /\ ItemTypes BY DEF Types
<1>p. NoRepetition /\ Disjoint /\ Complete /\ KnownItems BY DEF Partition
<1>1. /\ pool' = pool \o new /\ allocated' = allocated + PoolSize
      /\ pending' = pending /\ tmp' = tmp /\ freed' = freed
      /\ hand' = hand /\ held' = held /\ unheard' = unheard
  BY DEF OnInit, writerVars
<1>2. /\ TmpItems' = TmpItems /\ PendingItems' = PendingItems
      /\ HandItems' = HandItems
  BY <1>1 DEF TmpItems, PendingItems, HandItems
<1>3. PoolSize \in Nat /\ allocated \in Nat
  BY <1>t, ConstantsAssumption DEF ItemTypes
<1>4. /\ new \in Seq(Nat) /\ Injective(new)
      /\ Elements(new) = allocated + 1 .. allocated + PoolSize
  <2>1. /\ new \in Seq(Nat) /\ Len(new) = PoolSize
        /\ \A i \in 1 .. PoolSize : new[i] = allocated + i
    BY <1>3
  <2> HIDE DEF new
  <2>2. Injective(new) BY <1>3, <2>1 DEF Injective
  <2>3. ASSUME NEW n \in allocated + 1 .. allocated + PoolSize
        PROVE  n \in Elements(new)
    <3>1. n - allocated \in 1 .. Len(new) /\ new[n - allocated] = n
      BY <1>3, <2>1
    <3> QED BY <3>1 DEF Elements
  <2>4. Elements(new) \subseteq allocated + 1 .. allocated + PoolSize
    BY <1>3, <2>1 DEF Elements
  <2> QED BY <2>1, <2>2, <2>3, <2>4
<1> HIDE DEF new
<1>5. Items' = Items \cup Elements(new) /\ Items \cap Elements(new) = {}
  BY <1>1, <1>3, <1>4 DEF Items
<1>6. PoolItems \cap Elements(new) = {} BY <1>p, <1>5 DEF Complete
<1>7. PoolItems' = PoolItems \cup Elements(new) /\ Injective(pool')
  <2>1. pool \in Seq(Nat) /\ Injective(pool)
    BY <1>t, <1>p DEF ItemTypes, NoRepetition
  <2>2. Elements(pool) \cap Elements(new) = {} BY <1>6 DEF PoolItems
  <2>3. /\ Elements(pool \o new) = Elements(pool) \cup Elements(new)
        /\ Injective(pool \o new)
    BY ONLY <1>4, <2>1, <2>2, ConcatElements
  <2> QED BY <1>1, <2>3 DEF PoolItems
<1>8. NoRepetition' BY <1>p, <1>1, <1>7 DEF NoRepetition
<1>9. Disjoint' BY <1>p, <1>1, <1>2, <1>5, <1>7 DEF Disjoint, Complete
<1>10. Complete' BY <1>p, <1>1, <1>2, <1>5, <1>7 DEF Complete
<1>11. KnownItems' BY <1>p, <1>1, <1>5 DEF KnownItems
<1> QED BY <1>8, <1>9, <1>10, <1>11 DEF Partition

(* dispatch takes pending_: its own list is empty then.                    *)
LEMMA SplicePartition ==
  ASSUME Types, Control, Partition, DispatchSplice
  PROVE  Partition'
<1>p. NoRepetition /\ Disjoint /\ Complete /\ KnownItems BY DEF Partition
<1>1. /\ tmp' = pending /\ pending' = <<>>
      /\ pool' = pool /\ allocated' = allocated /\ freed' = freed
      /\ hand' = hand /\ held' = held /\ unheard' = {}
  BY DEF DispatchSplice, writerVars, itemVars
<1>2. tmp = <<>> BY DEF DispatchSplice, Control, MediaControl
<1>3. /\ TmpItems = {} /\ TmpItems' = PendingItems /\ PendingItems' = {}
      /\ HandItems' = HandItems /\ PoolItems' = PoolItems /\ Items' = Items
  BY <1>1, <1>2, EmptyLists
  DEF TmpItems, PendingItems, HandItems, PoolItems, Items
<1>4. NoRepetition' BY <1>p, <1>1, EmptyLists DEF NoRepetition
<1>5. Disjoint' BY <1>p, <1>1, <1>3 DEF Disjoint
<1>6. Complete' BY <1>p, <1>1, <1>3 DEF Complete
<1>7. KnownItems' BY <1>p, <1>1, <1>3 DEF KnownItems
<1> QED BY <1>4, <1>5, <1>6, <1>7 DEF Partition

(* ReturnToPoolGuard's put().                                              *)
LEMMA ReturnPartition ==
  ASSUME Types, Control, Partition, ReturnItem
  PROVE  Partition'
<1> DEFINE n == Head(tmp).item
<1>t. ItemTypes BY DEF Types
<1>p. NoRepetition /\ Disjoint /\ Complete /\ KnownItems BY DEF Partition
<1>1. /\ tmp # <<>> /\ tmp' = Tail(tmp) /\ pool' = Append(pool, n)
      /\ pending' = pending /\ allocated' = allocated /\ freed' = freed
      /\ hand' = hand /\ held' = held /\ unheard' = unheard
  BY DEF ReturnItem, writerVars, eventVars
<1>2. /\ PendingItems' = PendingItems /\ HandItems' = HandItems
      /\ Items' = Items
  BY <1>1 DEF PendingItems, HandItems, Items
<1>3. /\ TmpItems = TmpItems' \cup {n} /\ n \notin TmpItems'
      /\ Injective(ItemsOf(tmp')) /\ n \in Nat
  <2>1. tmp \in Seq(AnyPolls) BY <1>t DEF ItemTypes
  <2>2. /\ ItemsOf(tmp) \in Seq(Nat) /\ ItemsOf(tmp) # <<>>
        /\ ItemsOf(tmp') = Tail(ItemsOf(tmp)) /\ Head(ItemsOf(tmp)) = n
    BY <1>1, <2>1, ItemsOfLists
  <2>3. Injective(ItemsOf(tmp)) BY <1>p DEF NoRepetition
  <2> HIDE DEF n
  <2> QED BY <2>2, <2>3, TailElements DEF TmpItems
<1> HIDE DEF n
<1>4. n \notin PoolItems BY <1>p, <1>3 DEF Disjoint
<1>5. PoolItems' = PoolItems \cup {n} /\ Injective(pool')
  <2>1. pool \in Seq(Nat) /\ Injective(pool)
    BY <1>t, <1>p DEF ItemTypes, NoRepetition
  <2> QED BY <1>1, <1>3, <1>4, <2>1, AppendElements DEF PoolItems
<1>6. NoRepetition' BY <1>p, <1>1, <1>3, <1>5 DEF NoRepetition
<1>7. Disjoint' BY <1>p, <1>1, <1>2, <1>3, <1>5 DEF Disjoint
<1>8. Complete' BY <1>p, <1>1, <1>2, <1>3, <1>5 DEF Complete
<1>9. KnownItems' BY <1>p, <1>1, <1>2 DEF KnownItems
<1> QED BY <1>6, <1>7, <1>8, <1>9 DEF Partition

(* Pool::clear.                                                            *)
LEMMA ClearPartition ==
  ASSUME Types, Control, Partition, PoolClear
  PROVE  Partition'
<1>p. NoRepetition /\ Disjoint /\ Complete /\ KnownItems BY DEF Partition
<1>1. /\ pool' = <<>> /\ freed' = freed \cup PoolItems /\ tmp' = tmp
      /\ pending' = pending /\ allocated' = allocated
      /\ hand' = hand /\ held' = held /\ unheard' = unheard
  BY DEF PoolClear, writerVars, eventVars, PoolItems
<1>2. /\ PendingItems' = PendingItems /\ HandItems' = HandItems
      /\ TmpItems' = TmpItems /\ Items' = Items /\ PoolItems' = {}
  BY <1>1, EmptyLists DEF PendingItems, HandItems, TmpItems, Items, PoolItems
<1>3. NoRepetition' BY <1>p, <1>1, EmptyLists DEF NoRepetition
<1>4. Disjoint' BY <1>p, <1>1, <1>2 DEF Disjoint
<1>5. Complete' BY <1>p, <1>1, <1>2 DEF Complete
<1>6. KnownItems' BY <1>p, <1>1, <1>2 DEF KnownItems
<1> QED BY <1>3, <1>4, <1>5, <1>6 DEF Partition

(* The partition as a whole.                                               *)
LEMMA PartitionStep ==
  Types /\ Control /\ Partition /\ [Next]_vars => Partition'
<1> SUFFICES ASSUME Types, Control, Partition, [Next]_vars
             PROVE  Partition'
  OBVIOUS
<1>1. CASE UNCHANGED <<allocated, freed, pool, pending, tmp, unheard,
                       hand, held>>
  <2>1. /\ PendingItems' = PendingItems /\ HandItems' = HandItems
        /\ TmpItems' = TmpItems /\ Items' = Items /\ PoolItems' = PoolItems
    BY <1>1 DEF PendingItems, HandItems, TmpItems, Items, PoolItems
  <2>2. NoRepetition' BY <1>1 DEF Partition, NoRepetition
  <2>3. Disjoint' BY <1>1, <2>1 DEF Partition, Disjoint
  <2>4. Complete' BY <1>1, <2>1 DEF Partition, Complete
  <2>5. KnownItems' BY <1>1, <2>1 DEF Partition, KnownItems
  <2> QED BY <2>2, <2>3, <2>4, <2>5 DEF Partition
<1>2. ASSUME NEW w \in Writers, Writing(w) PROVE Partition'
  BY <1>2, PreparePartition, ThrowsPartition, WritePartition,
    NotifyPartition DEF Writing
<1>3. ASSUME NEW w \in Writers, EndCapture(w) PROVE Partition'
  BY <1>1, <1>3 DEF EndCapture, itemVars, mediaVars, eventVars
<1>4. CASE OnInit BY <1>4, FillPartition
<1>5. CASE DispatchSplice BY <1>5, SplicePartition
<1>6. CASE ReturnItem BY <1>6, ReturnPartition
<1>7. CASE PoolClear BY <1>7, ClearPartition
<1> QED BY <1>1, <1>2, <1>3, <1>4, <1>5, <1>6, <1>7
  DEF Next, Media, JoinAudio, FlushThrows, WriteTrailer, OnInitThrows,
  DispatchRead, DispatchReceive, DispatchAgain, DispatchWrite, DispatchThrows,
  DispatchDone, DispatchReturns, OnUninit,
  writerVars, itemVars, mediaVars, eventVars, vars

-----------------------------------------------------------------------------
(* Signals.                                                                *)

(* No item waits for the media thread unannounced.                         *)
LEMMA SignalsStep ==
  Types /\ Control /\ Signals /\ [Next]_vars => Signals'
<1> SUFFICES ASSUME Types, Control, Signals, [Next]_vars PROVE Signals'
  OBVIOUS
<1>t. WriterTypes /\ ItemTypes /\ MediaTypes /\ FlagTypes /\ MediaControl
  BY DEF Types, Control
<1>1. CASE UNCHANGED <<media, closing, counter, pending, unheard, hand, held>>
  BY <1>1 DEF Signals
<1>2. ASSUME NEW w \in Writers, PrepareFrame(w) \/ HandlerThrows(w)
      PROVE  Signals'
  <2>1. hand[w] # "pushed" /\ UNCHANGED <<media, closing, counter, pending,
                                          unheard>>
    BY <1>2 DEF PrepareFrame, HandlerThrows, mediaVars, eventVars
  <2>2. \A v \in Writers : v # w => hand'[v] = hand[v] /\ held'[v] = held[v]
    BY <1>t, <1>2 DEF PrepareFrame, HandlerThrows, WriterTypes
  <2>3. \A v \in Writers : hand[v] = "pushed" =>
          hand'[v] = "pushed" /\ held'[v] = held[v]
    BY <2>1, <2>2
  <2> QED BY <2>1, <2>3 DEF Signals
<1>3. ASSUME NEW w \in Writers, WriteFrame(w) PROVE Signals'
  <2>1. /\ UNCHANGED <<media, closing, counter, unheard, held>>
        /\ pending' = Append(pending, held[w]) /\ hand[w] = "held"
        /\ hand' = [hand EXCEPT ![w] = "pushed"]
    BY <1>3 DEF WriteFrame, mediaVars, eventVars
  <2>2. hand'[w] = "pushed" /\ \A v \in Writers : hand[v] = "pushed" =>
                                 hand'[v] = "pushed"
    BY <1>t, <2>1 DEF WriterTypes
  <2>3. held[w] \in AnyPolls /\ pending \in Seq(AnyPolls)
    BY <1>t, <2>1, HeldPoll DEF ItemTypes
  <2>4. Elements(pending') = Elements(pending) \cup {held[w]}
    BY <2>1, <2>3, AppendElements
  <2> QED BY <2>1, <2>2, <2>4 DEF Signals
<1>4. ASSUME NEW w \in Writers, NotifyEncoder(w) PROVE Signals'
  <2>1. /\ UNCHANGED <<media, closing, pending>>
        /\ hand' = [hand EXCEPT ![w] = "idle"]
        /\ held' = [held EXCEPT ![w] = NoPoll]
    BY <1>4 DEF NotifyEncoder, mediaVars
  <2>2. \A v \in Writers : v # w => hand'[v] = hand[v] /\ held'[v] = held[v]
    BY <1>t, <2>1 DEF WriterTypes
  <2>3. CASE notify_fd = "open"
    <3>1. counter' > 0 /\ media # "start"
      BY <1>4, <1>t, <2>3 DEF NotifyEncoder, MediaTypes, MediaControl
    <3> QED BY <2>1, <3>1 DEF Signals
  <2>4. CASE notify_fd # "open"
    <3>1. /\ unheard' = unheard \cup (Elements(pending) \cap {held[w]})
          /\ ~(media \in {"polling", "drain", "write", "return"} /\ ~closing)
      BY <1>4, <1>t, <2>4 DEF NotifyEncoder, MediaControl
    <3>2. ASSUME media = "start", NEW p \in Elements(pending)
          PROVE  p \in unheard' \/ \E v \in Writers :
                                     hand'[v] = "pushed" /\ held'[v] = p
      <4>1. p \in unheard \/ \E v \in Writers :
                               hand[v] = "pushed" /\ held[v] = p
        BY <3>2 DEF Signals
      <4> QED BY <2>2, <3>1, <4>1
    <3> QED BY <2>1, <3>1, <3>2 DEF Signals
  <2> QED BY <2>3, <2>4
<1>5. CASE OnInit
  BY <1>5 DEF OnInit, Signals, writerVars
<1>6. CASE DispatchSplice
  <2>1. Elements(pending') = {} BY <1>6, EmptyLists DEF DispatchSplice
  <2> QED BY <1>6, <2>1 DEF DispatchSplice, Signals
<1>7. CASE OnInitThrows \/ DispatchRead \/ OnUninit \/ PoolClear
  BY <1>7 DEF OnInitThrows, DispatchRead, OnUninit, PoolClear, Signals
<1>8. CASE DispatchReceive \/ DispatchAgain \/ DispatchWrite
           \/ DispatchThrows \/ DispatchDone \/ ReturnItem
  BY <1>8 DEF DispatchReceive, DispatchAgain, DispatchWrite, DispatchThrows,
    DispatchDone, ReturnItem, Signals, writerVars, eventVars
<1>9. CASE DispatchReturns
  BY <1>9 DEF DispatchReturns, Signals, writerVars
<1>10. ASSUME NEW w \in Writers, EndCapture(w) PROVE Signals'
  BY <1>1, <1>10 DEF EndCapture, mediaVars, eventVars
<1>11. CASE JoinAudio \/ FlushThrows \/ WriteTrailer \/ UNCHANGED vars
  BY <1>1, <1>11 DEF JoinAudio, FlushThrows, WriteTrailer, vars, writerVars,
    mediaVars, eventVars
<1> QED BY <1>1, <1>2, <1>3, <1>4, <1>5, <1>6, <1>7, <1>8, <1>9, <1>10,
  <1>11 DEF Next, Writing, Media
-----------------------------------------------------------------------------
(* Packets.                                                                *)

(* A frame sent to a codec, as sequences: f is in the file, p in packet_,  *)
(* c in the codec.                                                         *)
LEMMA SendKeepsOrder ==
  ASSUME NEW f \in Seq(Nat), NEW p \in Seq(Nat), NEW c \in Seq(Nat),
         NEW x \in Nat
  PROVE  (f \o p) \o Append(c, x) = Append((f \o p) \o c, x)
<1> DEFINE g == f \o p
           a == g \o Append(c, x)
           b == Append(g \o c, x)
<1>1. g \in Seq(Nat) OBVIOUS
<1> HIDE DEF g
<1>2. a \in Seq(Nat) /\ b \in Seq(Nat) /\ Len(a) = Len(b) BY <1>1
<1>3. \A i \in 1 .. Len(a) : a[i] = b[i] BY <1>1
<1> HIDE DEF a, b
<1>4. a = b BY <1>2, <1>3, SeqEqual
<1> QED BY <1>4 DEF a, b, g

(* A packet received.                                                      *)
LEMMA ReceiveKeepsOrder ==
  ASSUME NEW f \in Seq(Nat), NEW c \in Seq(Nat), c # <<>>
  PROVE  (f \o <<Head(c)>>) \o Tail(c) = (f \o <<>>) \o c
<1> DEFINE g == f \o <<Head(c)>>
           a == g \o Tail(c)
           b == (f \o <<>>) \o c
<1>1. /\ Tail(c) \in Seq(Nat) /\ Head(c) \in Nat /\ Head(c) = c[1]
      /\ Len(c) \in Nat /\ Len(c) >= 1 /\ Len(Tail(c)) = Len(c) - 1
      /\ \A i \in 1 .. Len(c) - 1 : Tail(c)[i] = c[i + 1]
  OBVIOUS
<1>2. /\ g \in Seq(Nat) /\ Len(g) = Len(f) + 1 /\ Len(f) \in Nat
      /\ g[Len(f) + 1] = c[1]
      /\ \A i \in 1 .. Len(f) : g[i] = f[i]
  BY <1>1
<1>3. b \in Seq(Nat) /\ Len(b) = Len(f) + Len(c)
      /\ (\A i \in 1 .. Len(f) : b[i] = f[i])
      /\ (\A i \in 1 .. Len(c) : b[Len(f) + i] = c[i])
  <2>1. f \o <<>> = f OBVIOUS
  <2> QED BY <2>1
<1> HIDE DEF g
<1>4. /\ a \in Seq(Nat) /\ Len(a) = Len(f) + Len(c)
      /\ \A i \in 1 .. Len(f) + 1 : a[i] = g[i]
      /\ \A i \in 1 .. Len(c) - 1 : a[Len(f) + 1 + i] = Tail(c)[i]
  <2> DEFINE t == Tail(c)
  <2>1. t \in Seq(Nat) /\ Len(t) = Len(c) - 1 BY <1>1
  <2> HIDE DEF t
  <2>2. g \in Seq(Nat) /\ t \in Seq(Nat) BY <1>2, <2>1
  <2>3. /\ g \o t \in Seq(Nat) /\ Len(g \o t) = Len(g) + Len(t)
        /\ \A i \in 1 .. Len(g) : (g \o t)[i] = g[i]
        /\ \A i \in 1 .. Len(t) : (g \o t)[Len(g) + i] = t[i]
    BY ONLY <2>2
  <2>4. Len(g) + Len(t) = Len(f) + Len(c) BY <1>1, <1>2, <2>1
  <2> QED BY <1>2, <2>1, <2>3, <2>4 DEF t
<1> HIDE DEF a, b
<1>5. ASSUME NEW i \in 1 .. Len(a) PROVE a[i] = b[i]
  <2>1. CASE i \in 1 .. Len(f) BY <1>2, <1>3, <1>4, <2>1
  <2>2. CASE i = Len(f) + 1
    <3>1. 1 \in 1 .. Len(c) /\ i \in 1 .. Len(f) + 1 BY <1>1, <1>2, <2>2
    <3>2. a[i] = c[1] BY <1>2, <1>4, <2>2, <3>1
    <3>3. b[Len(f) + 1] = c[1] BY <1>3, <3>1
    <3> QED BY <2>2, <3>2, <3>3
  <2>3. CASE i > Len(f) + 1
    <3> DEFINE k == i - Len(f) - 1
    <3>0. /\ Len(f) \in Nat /\ Len(c) \in Nat /\ i \in Nat
          /\ i <= Len(f) + Len(c)
      BY <1>1, <1>2, <1>4
    <3>1. k \in 1 .. Len(c) - 1 /\ i = Len(f) + 1 + k
          /\ k + 1 \in 1 .. Len(c) /\ i = Len(f) + (k + 1)
      BY ONLY <2>3, <3>0 DEF k
    <3> HIDE DEF k
    <3>2. a[i] = c[k + 1] BY <1>1, <1>4, <3>1
    <3>3. b[i] = c[k + 1] BY <1>3, <3>1
    <3> QED BY <3>2, <3>3
  <2> QED BY <1>2, <1>4, <2>1, <2>2, <2>3
<1>6. a = b BY <1>3, <1>4, <1>5, SeqEqual
<1> QED BY <1>6 DEF a, b, g

(* A packet written.                                                       *)
LEMMA WriteKeepsOrder ==
  ASSUME NEW f \in Seq(Nat), NEW c \in Seq(Nat), NEW x \in Nat
  PROVE  (Append(f, x) \o <<>>) \o c = (f \o <<x>>) \o c
<1>1. Append(f, x) \o <<>> = Append(f, x) OBVIOUS
<1>2. Append(f, x) = f \o <<x>> OBVIOUS
<1> QED BY <1>1, <1>2

(* packet_, seen from stream s.                                            *)
InPacket(s) ==
  IF packet # <<>> /\ packet[1] = s THEN <<packet[2]>> ELSE <<>>

OnItsWay ==
  ~failed => \A s \in Streams :
    (file[s] \o InPacket(s)) \o codec[s] = accepted[s]

(* The same property without the local definition, before and after a step.*)
LEMMA OnItsWayIsOrder ==
  (OnItsWay <=> PacketsInOrder) /\ (OnItsWay' <=> PacketsInOrder')
BY DEF OnItsWay, PacketsInOrder, InPacket

(* Every frame a codec has accepted is in the file, in packet_ or still in *)
(* the codec, in the order of acceptance.                                  *)
LEMMA OnItsWayStep ==
  Types /\ Control /\ OnItsWay /\ [Next]_vars => OnItsWay'
<1> SUFFICES ASSUME Types, Control, OnItsWay, [Next]_vars PROVE OnItsWay'
  OBVIOUS
<1>t. WriterTypes /\ ItemTypes /\ MediaTypes /\ CodecTypes /\ MediaControl
  BY DEF Types, Control
<1>0. CASE UNCHANGED <<failed, packet, codec, accepted, file>>
  BY <1>0 DEF OnItsWay, InPacket
<1>f. CASE failed' BY <1>f DEF OnItsWay
<1>1. ASSUME NEW w \in Writers, WriteFrame(w) PROVE OnItsWay'
  <2> DEFINE s == held[w].stream
             x == produced[s]
  <2>1. /\ hand[w] = "held" /\ UNCHANGED <<failed, packet, file>>
        /\ \/ UNCHANGED <<codec, accepted>>
           \/ /\ codec' = [codec EXCEPT ![s] = Append(@, x)]
              /\ accepted' = [accepted EXCEPT ![s] = Append(@, x)]
    BY <1>1 DEF WriteFrame, mediaVars
  <2>2. s \in Streams BY <1>t, <2>1, HeldPoll
  <2>3. x \in Nat BY <1>t, <2>2 DEF WriterTypes
  <2> HIDE DEF x, s
  <2>4. ASSUME NEW r \in Streams, ~failed,
               codec' = [codec EXCEPT ![s] = Append(@, x)],
               accepted' = [accepted EXCEPT ![s] = Append(@, x)]
        PROVE  (file[r] \o InPacket(r)) \o codec'[r] = accepted'[r]
    <3>1. /\ file[r] \in Seq(Nat) /\ codec[r] \in Seq(Nat)
          /\ InPacket(r) \in Seq(Nat)
      BY <1>t DEF CodecTypes, MediaTypes, InPacket
    <3>2. (file[r] \o InPacket(r)) \o codec[r] = accepted[r]
      BY <2>4 DEF OnItsWay
    <3>3. CASE r = s
      <4>1. /\ codec'[r] = Append(codec[r], x)
            /\ accepted'[r] = Append(accepted[r], x)
        BY <1>t, <2>4, <3>3 DEF CodecTypes
      <4>2. (file[r] \o InPacket(r)) \o Append(codec[r], x)
              = Append((file[r] \o InPacket(r)) \o codec[r], x)
        BY ONLY <2>3, <3>1, SendKeepsOrder
      <4> QED BY <3>2, <4>1, <4>2
    <3>4. CASE r # s
      <4>1. codec'[r] = codec[r] /\ accepted'[r] = accepted[r]
        BY <1>t, <2>4, <3>4 DEF CodecTypes
      <4> QED BY <3>2, <4>1
    <3> QED BY <3>3, <3>4
  <2>5. \A r \in Streams : InPacket(r)' = InPacket(r)
    BY <2>1 DEF InPacket
  <2> QED BY <1>0, <2>1, <2>4, <2>5 DEF OnItsWay
<1>2. CASE DispatchReceive /\ ~failed
  <2> DEFINE s == tmp[cursor].stream
  <2>1. /\ packet' = <<s, Head(codec[s])>>
        /\ codec' = [codec EXCEPT ![s] = Tail(@)]
        /\ UNCHANGED <<failed, accepted, file>> /\ media = "drain"
    BY <1>2 DEF DispatchReceive
  <2>2. cursor \in 1 .. Len(tmp) /\ Len(tmp) \in Nat
    BY <1>t, <1>2 DEF DispatchReceive, MediaTypes, ItemTypes
  <2>3. tmp[cursor] \in AnyPolls BY <1>t, <2>2 DEF ItemTypes
  <2>4. s \in Streams BY <2>3 DEF AnyPolls
  <2>5. codec[s] # <<>>
    BY <1>t, <1>2, <2>4, ConstantsAssumption
    DEF DispatchReceive, CodecHasPacket, CodecTypes
  <2>6. packet = <<>> BY <1>t, <1>2, <2>1 DEF MediaControl
  <2> HIDE DEF s
  <2>7. packet' # <<>> /\ packet'[1] = s /\ packet'[2] = Head(codec[s])
    <3> DEFINE h == Head(codec[s])
    <3>1. packet' = <<s, h>> BY <2>1
    <3> HIDE DEF h
    <3>2. <<s, h>> # <<>> /\ <<s, h>>[1] = s /\ <<s, h>>[2] = h OBVIOUS
    <3> QED BY <3>1, <3>2 DEF h
  <2>8. ASSUME NEW r \in Streams
        PROVE  (file[r] \o InPacket(r)') \o codec'[r] = accepted[r]
    <3>1. file[r] \in Seq(Nat) /\ codec[r] \in Seq(Nat)
      BY <1>t DEF CodecTypes
    <3>2. (file[r] \o <<>>) \o codec[r] = accepted[r]
      BY <1>2, <2>6 DEF OnItsWay, InPacket
    <3>3. CASE r = s
      <4>1. codec'[r] = Tail(codec[r]) /\ InPacket(r)' = <<Head(codec[r])>>
        BY <1>t, <2>1, <2>7, <3>3 DEF CodecTypes, InPacket
      <4>2. (file[r] \o <<Head(codec[r])>>) \o Tail(codec[r])
              = (file[r] \o <<>>) \o codec[r]
        <5>1. codec[r] # <<>> BY <2>5, <3>3
        <5> QED BY ONLY <3>1, <5>1, ReceiveKeepsOrder
      <4> QED BY <3>2, <4>1, <4>2
    <3>4. CASE r # s
      <4>1. codec'[r] = codec[r] /\ InPacket(r)' = <<>>
        BY <1>t, <2>1, <2>7, <3>4 DEF CodecTypes, InPacket
      <4> QED BY <3>2, <4>1
    <3> QED BY <3>3, <3>4
  <2> QED BY <2>1, <2>8 DEF OnItsWay
<1>3. CASE DispatchWrite /\ ~failed
  <2> DEFINE s == packet[1]
             x == packet[2]
  <2>1. /\ file' = [file EXCEPT ![s] = Append(@, x)] /\ packet' = <<>>
        /\ UNCHANGED <<failed, accepted, codec>> /\ media = "write"
    BY <1>3 DEF DispatchWrite, codecVars
  <2>2. packet # <<>> BY <1>t, <2>1 DEF MediaControl
  <2>3. packet \in Streams \X Nat BY <1>t, <2>2 DEF MediaTypes
  <2>4. s \in Streams /\ x \in Nat BY <2>3
  <2>5. ASSUME NEW r \in Streams
        PROVE  (file'[r] \o InPacket(r)') \o codec[r] = accepted[r]
    <3>1. file[r] \in Seq(Nat) /\ codec[r] \in Seq(Nat)
      BY <1>t DEF CodecTypes
    <3>2. (file[r] \o InPacket(r)) \o codec[r] = accepted[r]
      BY <1>3 DEF OnItsWay
    <3>3. InPacket(r)' = <<>> BY <2>1 DEF InPacket
    <3>4. CASE r = s
      <4>1. file'[r] = Append(file[r], x) /\ InPacket(r) = <<x>>
        BY <1>t, <2>1, <2>2, <3>4 DEF CodecTypes, InPacket
      <4> HIDE DEF x
      <4>2. (Append(file[r], x) \o <<>>) \o codec[r]
              = (file[r] \o <<x>>) \o codec[r]
        BY ONLY <2>4, <3>1, WriteKeepsOrder
      <4> QED BY <3>2, <3>3, <4>1, <4>2
    <3>5. CASE r # s
      <4>1. file'[r] = file[r] /\ InPacket(r) = <<>>
        BY <1>t, <2>1, <3>5 DEF CodecTypes, InPacket
      <4> QED BY <3>2, <3>3, <4>1
    <3> QED BY <3>4, <3>5
  <2> QED BY <2>1, <2>5 DEF OnItsWay
<1>4. CASE DispatchReturns /\ ~failed
  <2>1. packet = <<>> /\ packet' = <<>>
    BY <1>t, <1>4 DEF DispatchReturns, MediaControl
  <2> QED BY <1>0, <1>4, <2>1 DEF DispatchReturns, codecVars
<1>5. ASSUME NEW w \in Writers, PrepareFrame(w) \/ HandlerThrows(w)
                  \/ NotifyEncoder(w) \/ EndCapture(w)
      PROVE  OnItsWay'
  BY <1>0, <1>5 DEF PrepareFrame, HandlerThrows, NotifyEncoder, EndCapture,
    mediaVars, codecVars
<1>6. CASE OnInitThrows \/ DispatchThrows
  BY <1>6, <1>f DEF OnInitThrows, DispatchThrows
<1>7. CASE failed /\ (DispatchReceive \/ DispatchWrite \/ DispatchReturns)
  BY <1>7, <1>f DEF DispatchReceive, DispatchWrite, DispatchReturns
<1>8. CASE JoinAudio \/ FlushThrows \/ WriteTrailer \/ OnInit
           \/ DispatchRead \/ DispatchSplice \/ DispatchAgain
           \/ DispatchDone \/ ReturnItem \/ OnUninit \/ PoolClear
           \/ UNCHANGED vars
  BY <1>0, <1>8 DEF JoinAudio, FlushThrows, WriteTrailer, OnInit,
    DispatchRead, DispatchSplice, DispatchAgain, DispatchDone, ReturnItem,
    OnUninit, PoolClear, vars, mediaVars, codecVars
<1> QED BY <1>1, <1>2, <1>3, <1>4, <1>5, <1>6, <1>7, <1>8
  DEF Next, Writing, Media

(* A codec with something to give is drained by an item still to come.     *)
LEMMA AskedStep ==
  Types /\ Control /\ Asked /\ [Next]_vars => Asked'
<1> SUFFICES ASSUME Types, Control, Asked, [Next]_vars PROVE Asked' OBVIOUS
<1>t. WriterTypes /\ ItemTypes /\ MediaTypes /\ CodecTypes /\ MediaControl
  BY DEF Types, Control
<1>0. CASE UNCHANGED <<failed, draining, codec, pending, tmp, cursor>>
           /\ (media \in {"drain", "write"} => media' \in {"drain", "write"})
  BY <1>0 DEF Asked, CodecHasPacket
<1>f. CASE failed' BY <1>f DEF Asked
<1>1. ASSUME NEW w \in Writers, WriteFrame(w) PROVE Asked'
  <2> DEFINE s == held[w].stream
  <2>1. /\ hand[w] = "held" /\ UNCHANGED <<failed, media, tmp, cursor>>
        /\ pending' = Append(pending, held[w])
    BY <1>1 DEF WriteFrame, mediaVars
  <2>2. held[w] \in AnyPolls /\ s \in Streams BY <1>t, <2>1, HeldPoll
  <2>3. pending \in Seq(AnyPolls) BY <1>t DEF ItemTypes
  <2>4. /\ Len(pending') = Len(pending) + 1 /\ Len(pending) \in Nat
        /\ pending'[Len(pending) + 1] = held[w]
        /\ \A i \in 1 .. Len(pending) : pending'[i] = pending[i]
    BY <2>1, <2>2, <2>3
  <2>5. \E i \in 1 .. Len(pending') : pending'[i].stream = s
    BY <2>4
  <2>6. ASSUME NEW r \in Streams, r # s
        PROVE  CodecHasPacket(r)' <=> CodecHasPacket(r)
    <3>1. codec'[r] = codec[r]
      BY <1>1, <1>t, <2>6 DEF WriteFrame, CodecTypes
    <3>2. r \in draining' <=> r \in draining
      BY <1>1, <2>6 DEF WriteFrame
    <3> QED BY <3>1, <3>2 DEF CodecHasPacket
  <2> HIDE DEF s
  <2>7. ASSUME NEW r \in Streams, ~failed, CodecHasPacket(r)', r # s
        PROVE  \/ \E i \in 1 .. Len(pending') : pending'[i].stream = r
               \/ /\ media \in {"drain", "write"}
                  /\ \E i \in cursor .. Len(tmp) : tmp[i].stream = r
    <3>1. \/ \E i \in 1 .. Len(pending) : pending[i].stream = r
          \/ /\ media \in {"drain", "write"}
             /\ \E i \in cursor .. Len(tmp) : tmp[i].stream = r
      BY <2>6, <2>7 DEF Asked
    <3>2. ASSUME NEW i \in 1 .. Len(pending), pending[i].stream = r
          PROVE  \E j \in 1 .. Len(pending') : pending'[j].stream = r
      BY <2>4, <3>2
    <3> QED BY <3>1, <3>2
  <2> QED BY <2>1, <2>5, <2>7 DEF Asked
<1>2. CASE DispatchSplice
  <2>1. /\ tmp' = pending /\ cursor' = 1 /\ media' = "drain"
        /\ media = "splice" /\ UNCHANGED <<failed, codec, draining>>
    BY <1>2 DEF DispatchSplice, codecVars
  <2>2. \A s \in Streams : CodecHasPacket(s)' <=> CodecHasPacket(s)
    BY <2>1 DEF CodecHasPacket
  <2>3. ASSUME NEW s \in Streams, ~failed, CodecHasPacket(s)
        PROVE  \E i \in 1 .. Len(pending) : pending[i].stream = s
    BY <2>1, <2>3 DEF Asked
  <2> QED BY <2>1, <2>2, <2>3 DEF Asked
<1>3. CASE DispatchReceive
  <2> DEFINE s == tmp[cursor].stream
  <2>1. /\ codec' = [codec EXCEPT ![s] = Tail(@)] /\ media = "drain"
        /\ media' = "write" /\ cursor <= Len(tmp)
        /\ UNCHANGED <<failed, draining, pending, tmp, cursor>>
    BY <1>3 DEF DispatchReceive
  <2>2. cursor \in cursor .. Len(tmp) /\ Len(tmp) \in Nat
    BY <1>t, <2>1 DEF MediaTypes, ItemTypes
  <2>3. \E i \in cursor .. Len(tmp) : tmp[i].stream = s BY <2>2
  <2> HIDE DEF s
  <2>4. ASSUME NEW r \in Streams, r # s
        PROVE  CodecHasPacket(r)' <=> CodecHasPacket(r)
    BY <1>t, <2>1, <2>4 DEF CodecHasPacket, CodecTypes
  <2>5. ASSUME NEW r \in Streams, ~failed, CodecHasPacket(r)', r # s
        PROVE  \/ \E i \in 1 .. Len(pending) : pending[i].stream = r
               \/ \E i \in cursor .. Len(tmp) : tmp[i].stream = r
    BY <2>4, <2>5 DEF Asked
  <2> QED BY <2>1, <2>3, <2>5 DEF Asked
<1>4. CASE DispatchAgain
  <2>1. /\ cursor' = cursor + 1 /\ media = "drain" /\ cursor <= Len(tmp)
        /\ ~CodecHasPacket(tmp[cursor].stream)
        /\ UNCHANGED <<media, failed, codec, draining, pending, tmp>>
    BY <1>4 DEF DispatchAgain, codecVars
  <2>2. \A s \in Streams : CodecHasPacket(s)' <=> CodecHasPacket(s)
    BY <2>1 DEF CodecHasPacket
  <2>3. cursor \in Nat /\ Len(tmp) \in Nat BY <1>t DEF MediaTypes, ItemTypes
  <2>4. ASSUME NEW s \in Streams, CodecHasPacket(s),
               NEW i \in cursor .. Len(tmp), tmp[i].stream = s
        PROVE  i \in cursor' .. Len(tmp)
    <3>1. i # cursor BY <2>1, <2>4
    <3> QED BY <2>1, <2>3, <3>1
  <2> QED BY <2>1, <2>2, <2>4 DEF Asked
<1>5. CASE DispatchDone
  <2>1. /\ media = "drain" /\ cursor > Len(tmp)
        /\ UNCHANGED <<failed, codec, draining, pending, tmp, cursor>>
    BY <1>5 DEF DispatchDone, codecVars
  <2>2. \A s \in Streams : CodecHasPacket(s)' <=> CodecHasPacket(s)
    BY <2>1 DEF CodecHasPacket
  <2>3. cursor \in Nat /\ Len(tmp) \in Nat BY <1>t DEF MediaTypes, ItemTypes
  <2>4. \A i \in cursor .. Len(tmp) : FALSE BY <2>1, <2>3
  <2> QED BY <2>1, <2>2, <2>4 DEF Asked
<1>6. CASE ReturnItem \/ DispatchReturns
  <2>1. /\ media = "return" /\ UNCHANGED <<failed, codec, draining, pending>>
    BY <1>6 DEF ReturnItem, DispatchReturns, codecVars
  <2>2. \A s \in Streams : CodecHasPacket(s)' <=> CodecHasPacket(s)
    BY <2>1 DEF CodecHasPacket
  <2> QED BY <2>1, <2>2 DEF Asked
<1>7. ASSUME NEW w \in Writers, PrepareFrame(w) \/ HandlerThrows(w)
                  \/ NotifyEncoder(w) \/ EndCapture(w)
      PROVE  Asked'
  BY <1>0, <1>7 DEF PrepareFrame, HandlerThrows, NotifyEncoder, EndCapture,
    mediaVars, codecVars
<1>8. CASE OnInitThrows \/ DispatchThrows
  BY <1>8, <1>f DEF OnInitThrows, DispatchThrows
<1>9. CASE OnInit \/ DispatchRead \/ DispatchWrite \/ OnUninit \/ PoolClear
  BY <1>0, <1>9 DEF OnInit, DispatchRead, DispatchWrite, OnUninit, PoolClear,
    codecVars
<1>10. CASE JoinAudio \/ FlushThrows \/ WriteTrailer \/ UNCHANGED vars
  BY <1>0, <1>10 DEF JoinAudio, FlushThrows, WriteTrailer, vars, mediaVars,
    codecVars
<1> QED BY <1>1, <1>2, <1>3, <1>4, <1>5, <1>6, <1>7, <1>8, <1>9, <1>10
  DEF Next, Writing, Media

-----------------------------------------------------------------------------
(* The invariant and what it gives.                                        *)

(* Every reachable state satisfies all five layers.                        *)
THEOREM InvHolds == Spec => []Inv
<1>1. Init => Inv
  <2> SUFFICES ASSUME Init PROVE Inv OBVIOUS
  <2>1. Types /\ Control /\ Partition
    BY InitTypes, InitControl, InitPartition
  <2>2. Signals BY EmptyLists DEF Init, Signals
  <2>3. PacketsInOrder
    BY DEF Init, PacketsInOrder
  <2>4. Asked
    BY ConstantsAssumption DEF Init, Asked, CodecHasPacket
  <2> QED BY <2>1, <2>2, <2>3, <2>4 DEF Inv, Packets
<1>2. Inv /\ [Next]_vars => Inv'
  <2> SUFFICES ASSUME Inv, [Next]_vars PROVE Inv' OBVIOUS
  <2>1. Types' /\ Control' BY TypesStep, ControlStep DEF Inv
  <2>2. Partition' /\ Signals' BY PartitionStep, SignalsStep DEF Inv
  <2>3. PacketsInOrder'
    BY OnItsWayStep, OnItsWayIsOrder DEF Inv, Packets
  <2>4. Asked' BY AskedStep DEF Inv, Packets
  <2> QED BY <2>1, <2>2, <2>3, <2>4 DEF Inv, Packets
<1> QED BY <1>1, <1>2, PTL DEF Spec
(* A list of polls whose items exist is a list of Polls.                   *)
LEMMA PollsOfItems ==
  ASSUME NEW ps \in Seq(AnyPolls), Elements(ItemsOf(ps)) \subseteq Items
  PROVE  ps \in Seq(Polls)
<1>1. /\ Len(ItemsOf(ps)) = Len(ps)
      /\ \A i \in 1 .. Len(ps) : ItemsOf(ps)[i] = ps[i].item
  BY ItemsOfLists
<1>2. \A i \in 1 .. Len(ps) : ps[i].item \in Items BY <1>1 DEF Elements
<1>3. \A i \in 1 .. Len(ps) : ps[i] \in AnyPolls OBVIOUS
<1>4. \A i \in 1 .. Len(ps) : ps[i] \in Polls
  BY <1>2, <1>3 DEF AnyPolls, Polls
<1>5. Len(ps) \in Nat /\ ps = [i \in 1 .. Len(ps) |-> ps[i]] OBVIOUS
<1> QED BY <1>4, <1>5

(* The partition makes the items of the lists exist, hence TypeOK.         *)
LEMMA InvTypeOK == Inv => TypeOK
<1> SUFFICES ASSUME Inv PROVE TypeOK OBVIOUS
<1>t. /\ WriterTypes /\ ItemTypes /\ MediaTypes /\ FlagTypes /\ CodecTypes
      /\ Complete /\ KnownItems
  BY DEF Inv, Types, Partition
<1>1. /\ PoolItems \subseteq Items /\ PendingItems \subseteq Items
      /\ TmpItems \subseteq Items /\ freed \subseteq Items
  BY <1>t DEF Complete
<1>2. pool \in Seq(Items)
  <2>1. pool \in Seq(Nat) BY <1>t DEF ItemTypes
  <2>2. \A i \in 1 .. Len(pool) : pool[i] \in Items
    BY <1>1 DEF PoolItems, Elements
  <2>3. Len(pool) \in Nat /\ pool = [i \in 1 .. Len(pool) |-> pool[i]]
    BY <2>1
  <2> QED BY <2>2, <2>3
<1>3. pending \in Seq(Polls) /\ tmp \in Seq(Polls)
  <2>1. pending \in Seq(AnyPolls) /\ tmp \in Seq(AnyPolls)
    BY <1>t DEF ItemTypes
  <2> QED BY <1>1, <2>1, PollsOfItems DEF PendingItems, TmpItems
<1>4. held \in [Writers -> Polls \cup {NoPoll}]
  <2>1. held \in [Writers -> AnyPolls \cup {NoPoll}]
    BY <1>t DEF WriterTypes
  <2>2. ASSUME NEW w \in Writers PROVE held[w] \in Polls \cup {NoPoll}
    <3>1. CASE hand[w] = "idle" BY <1>t, <3>1 DEF WriterTypes
    <3>2. CASE hand[w] # "idle"
      <4>1. held[w] \in AnyPolls /\ held[w].item \in Items
        BY <1>t, <3>2, HeldPoll DEF KnownItems
      <4> QED BY <4>1 DEF AnyPolls, Polls
    <3> QED BY <3>1, <3>2
  <2> QED BY <2>1, <2>2
<1>5. unheard \subseteq Polls
  BY <1>t DEF ItemTypes, KnownItems, AnyPolls, Polls
<1>6. cursor \in 1 .. Len(tmp) + 1
  <2>1. Len(tmp) \in Nat BY <1>t DEF ItemTypes
  <2> QED BY <1>t, <2>1 DEF MediaTypes
<1>7. {closing, thrown, failed, media_stop, trailer} \subseteq BOOLEAN
  BY <1>t, Zenon DEF FlagTypes
<1>8. \A f \in {codec, accepted, file} : f \in [Streams -> Seq(Nat)]
  BY <1>t DEF CodecTypes
<1>9. /\ phase \in [Writers -> {"capture", "joining", "flush_video",
                                "flush_audio", "done"}]
      /\ hand \in [Writers -> {"idle", "held", "pushed"}]
      /\ produced \in [Streams -> Nat]
      /\ allocated \in Nat /\ draining \subseteq Streams
  BY <1>t DEF WriterTypes, ItemTypes, CodecTypes
<1>10. /\ packet = <<>> \/ packet \in Streams \X Nat
       /\ notify_fd \in {"none", "open", "closed"} /\ counter \in Nat
       /\ media \in {"start", "polling", "splice", "drain", "write",
                     "return", "clear", "ended"}
  BY <1>t DEF MediaTypes
<1>11. ex \in {"none", "std", "pointer"}
  BY DEF Inv, Types, ExType
<1> QED
  BY <1>1, <1>2, <1>3, <1>4, <1>5, <1>6, <1>7, <1>8, <1>9, <1>10, <1>11
  DEF TypeOK

(* Disjoint lists without repetitions have none when put together.         *)
LEMMA InvOnePlace == Inv => ItemsInOnePlace
<1> SUFFICES ASSUME Inv PROVE ItemsInOnePlace OBVIOUS
<1> DEFINE a == pool
           b == ItemsOf(pending)
           c == ItemsOf(tmp)
           lists == a \o b \o c
<1>p. NoRepetition /\ Disjoint BY DEF Inv, Partition
<1>1. a \in Seq(Nat) /\ b \in Seq(Nat) /\ c \in Seq(Nat)
  BY ItemsOfLists DEF Inv, Types, ItemTypes
<1>2. Injective(a) /\ Injective(b) /\ Injective(c) BY <1>p DEF NoRepetition
<1>3. /\ Elements(a) = PoolItems /\ Elements(b) = PendingItems
      /\ Elements(c) = TmpItems
  BY DEF PoolItems, PendingItems, TmpItems
<1> HIDE DEF a, b, c
<1>4. Elements(a) \cap Elements(b) = {} BY <1>p, <1>3 DEF Disjoint
<1>5. /\ a \o b \in Seq(Nat) /\ Injective(a \o b)
      /\ Elements(a \o b) = Elements(a) \cup Elements(b)
  BY ONLY <1>1, <1>2, <1>4, ConcatElements
<1>6. Elements(a \o b) \cap Elements(c) = {} BY <1>p, <1>3, <1>5 DEF Disjoint
<1>7. /\ Injective(lists)
      /\ Elements(lists) = Elements(a \o b) \cup Elements(c)
  <2> DEFINE d == a \o b
  <2>1. d \in Seq(Nat) /\ Injective(d) /\ Elements(d) \cap Elements(c) = {}
    BY <1>5, <1>6
  <2> HIDE DEF d
  <2>2. Injective(d \o c) /\ Elements(d \o c) = Elements(d) \cup Elements(c)
    BY ONLY <1>1, <1>2, <2>1, ConcatElements
  <2> QED BY <2>2 DEF d
<1>8. Elements(lists) = PoolItems \cup PendingItems \cup TmpItems
  BY <1>3, <1>5, <1>7
<1>9. lists = pool \o ItemsOf(pending) \o ItemsOf(tmp) BY DEF a, b, c
<1> HIDE DEF lists
<1>10. \A i, j \in 1 .. Len(lists) : lists[i] = lists[j] => i = j
  BY <1>7 DEF Injective
<1>11. /\ Elements(lists) \cap HandItems = {}
       /\ (Elements(lists) \cup HandItems) \cap freed = {}
  BY <1>p, <1>8 DEF Disjoint
<1>12. hand["main"] = "held" /\ hand["audio"] = "held" =>
         held["main"].item # held["audio"].item
  BY <1>p DEF NoRepetition
<1> QED BY <1>9, <1>10, <1>11, <1>12 DEF ItemsInOnePlace, HandItems

(* on_uninit gets to clear() after a splice that left nothing behind, with *)
(* both writers done.                                                      *)
LEMMA InvBalanced == Inv => ClearIsBalanced
<1> SUFFICES ASSUME Inv, media = "clear", ~failed
             PROVE  Elements(pool) = Items \ freed
  BY DEF ClearIsBalanced
<1>1. closing /\ media_stop /\ tmp = <<>> /\ pending = <<>>
  BY DEF Inv, Control, MediaControl, NothingAfterStop
<1>2. \A w \in Writers : hand[w] # "held"
  BY <1>1 DEF Inv, Control, WriterControl, Writers
<1>3. HandItems = {} BY <1>2 DEF HandItems
<1>4. PendingItems = {} /\ TmpItems = {}
  BY <1>1, EmptyLists DEF PendingItems, TmpItems
<1>5. Items = PoolItems \cup freed /\ PoolItems \cap freed = {}
  BY <1>3, <1>4 DEF Inv, Partition, Complete, Disjoint
<1> QED BY <1>5 DEF PoolItems

(* Pool::get, put and clear and the lists between them: no StreamPoll is   *)
(* ever in two places, reached after its destruction or left behind.       *)
THEOREM ItemsAreAccountedFor == Spec => []ItemsAccountedFor
<1>1. Inv => ItemsAccountedFor
  BY InvTypeOK, InvOnePlace, InvBalanced DEF ItemsAccountedFor
<1> QED BY <1>1, InvHolds, PTL

(* Encoder::dispatch writes each stream's packets in the order in which    *)
(* its codec took the frames, losing and repeating none.                   *)
THEOREM PacketsKeepOrder == Spec => []PacketsInOrder
<1>1. Inv => PacketsInOrder BY DEF Inv, Packets
<1> QED BY <1>1, InvHolds, PTL

(* write_frame's event comes after its push_back and dispatch reads the    *)
(* eventfd before it splices: no wake-up is lost.                          *)
THEOREM NoLostWakeUp == Spec => []PendingIsSignalled
<1>1. Inv => PendingIsSignalled
  BY DEF Inv, Control, MediaControl, Signals, PendingIsSignalled
<1> QED BY <1>1, InvHolds, PTL

(* The trailer closes a file that lacks at most what a codec that refused  *)
(* the flush holds back.                                                   *)
THEOREM FileIsComplete == Spec => []FinalizedComplete
<1>1. Inv => FinalizedComplete
  <2> SUFFICES ASSUME Inv, trailer, ~failed
               PROVE  /\ pending = <<>>
                      /\ \A s \in Streams :
                           Len(accepted[s]) - Len(file[s]) <=
                             IF s \in draining THEN 0 ELSE Delay
    BY DEF FinalizedComplete
  <2>1. media = "ended" /\ closing /\ packet = <<>> /\ pending = <<>>
    BY DEF Inv, Control, MediaControl, NothingAfterStop
  <2>2. ASSUME NEW s \in Streams
        PROVE  Len(accepted[s]) - Len(file[s]) <=
                 IF s \in draining THEN 0 ELSE Delay
    <3>1. ~CodecHasPacket(s) BY <2>1 DEF Inv, Packets, Asked
    <3>2. codec[s] \in Seq(Nat) /\ file[s] \in Seq(Nat)
      BY DEF Inv, Types, CodecTypes
    <3>3. Len(codec[s]) <= IF s \in draining THEN 0 ELSE Delay
      BY <3>1, <3>2, ConstantsAssumption DEF CodecHasPacket
    <3>4. accepted[s] = (file[s] \o <<>>) \o codec[s]
      BY <2>1 DEF Inv, Packets, PacketsInOrder
    <3>5. Len(accepted[s]) = Len(file[s]) + Len(codec[s]) BY <3>2, <3>4
    <3>6. Len(file[s]) \in Nat /\ Len(codec[s]) \in Nat BY <3>2
    <3> QED BY <3>3, <3>5, <3>6, ConstantsAssumption
  <2> QED BY <2>1, <2>2
<1> QED BY <1>1, InvHolds, PTL
=============================================================================
