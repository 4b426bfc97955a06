------------------------- MODULE DescriptorsProofs --------------------------
(***************************************************************************)
(* Why a stale descriptor number does no harm, whichever contexts fail and *)
(* in whatever order the three threads start, fail and stop.               *)
(***************************************************************************)
EXTENDS Descriptors, FiniteSetTheorems, WellFoundedInduction, TLAPS

(* The number of o still refers to what o opened, or does not any more.    *)
Keeps(o) == num[o] # NoNumber /\ table[num[o]] = o
Gone(o) == num[o] = NoNumber \/ table[num[o]] # o

(* main is in run(), with its eventfd open.                                *)
MainUp ==
  \/ at["main"] \in {"init", "accept", "close_server", "destroy_server",
                     "loop", "frame", "uninit", "close"}
  \/ handler

(* Between the opening of a descriptor and the one call that is meant to   *)
(* close it.                                                               *)
Held(o) ==
  \/ o = "main" /\ MainUp
  \/ o = "audio" /\ at["audio"] \in {"init", "loop", "uninit", "close"}
  \/ o = "media" /\ at["media"] \in {"init", "loop", "uninit", "dispatch",
                                      "close"}
  \/ o = "audio_service" /\ at["audio"] \in {"loop", "uninit"}
  \/ o = "encoder_service" /\ at["media"] \in {"loop", "uninit"}
  \/ o = "server" /\ at["main"] \in {"accept", "close_server"}
  \/ /\ o = "drm_socket" /\ wayland
     /\ \/ at["main"] \in {"loop", "frame", "uninit"}
        \/ handler
        \/ /\ at["main"] \in {"close_server", "destroy_server"}
           /\ "main" \notin failed
  \/ o = "dma_buf" /\ at["main"] = "frame"

(* The descriptor that nobody closes when start_pipewire throws.           *)
Leaked(o) == o = "audio_service" /\ "audio" \in failed

MainLeft == at["main"] \notin {"open"} /\ ~MainUp
MainObeyed == at["main"] \in {"uninit", "close"} \/ MainLeft
AudioLeft == at["audio"] \notin {"open", "init", "loop"}
MediaLeft == at["media"] \notin {"open", "init", "loop"}

Types ==
  /\ wayland \in BOOLEAN
  /\ table \in [Numbers -> Objects \cup {Free}]
  /\ num \in [Owners -> Numbers \cup {NoNumber}]
  /\ flag \in [Contexts -> BOOLEAN]
  /\ at \in [Contexts -> Places]
  /\ handler \in BOOLEAN
  /\ interrupted \in BOOLEAN
  /\ failed \subseteq Failures
  /\ poked \in BOOLEAN
  /\ strays \subseteq (Places \cup {"notify"}) \X Objects
  /\ aborted \in BOOLEAN

(* The numbers of the output file and the signalfd are nobody else's, and  *)
(* a descriptor is always at its owner's number.                           *)
Table ==
  /\ table[0] = "output"
  /\ table[1] = "signalfd"
  /\ \A o \in Owners : num[o] \notin {0, 1}
  /\ \A n \in Numbers \ {0, 1} :
       table[n] = Free \/ (table[n] \in Owners /\ num[table[n]] = n)
  /\ \A s \in strays : s[2] \in Owners

(* Where the threads can be, and what the joins of run_loop order.         *)
Control ==
  /\ \A c \in {"audio", "media"} :
       at[c] \in {"open", "init", "loop", "uninit", "dispatch", "close",
                  "flag_main", "write_main", "flag_audio", "write_audio",
                  "ended"}
  /\ \A c \in {"audio", "main"} : at[c] # "dispatch"
  /\ at["main"] \in {"init", "accept", "close_server", "destroy_server",
                     "frame"} => wayland
  /\ handler => at["main"] \in {"flag_main", "write_main", "flag_audio",
                                "write_audio"}
  /\ at["main"] \in {"flush", "flag_media", "write_media", "join_media",
                     "destroy", "ended"} => at["audio"] = "ended"
  /\ at["main"] \in {"destroy", "ended"} => at["media"] = "ended"
  /\ flag["media"] => at["main"] \in {"write_media", "join_media", "destroy",
                                      "ended"}
  /\ at["main"] = "write_audio" => flag["audio"]

(* What is about to be opened has no number yet.                           *)
Fresh ==
  /\ \A c \in Contexts : at[c] = "open" => num[c] = NoNumber
  /\ \A c \in Contexts :
       at[c] \in {"open", "init"} => num[ServiceOf[c]] = NoNumber
  /\ at["main"] \in {"open", "init", "accept"} \/ ~wayland =>
       num["drm_socket"] = NoNumber
  /\ at["main"] # "frame" => num["dma_buf"] = NoNumber
  /\ at["audio"] \in {"open", "init"} => ~poked
  /\ at["main"] \in {"open", "init", "accept"} => "main" \notin failed

Holding == ~Taken => \A o \in Owners : Held(o) => Keeps(o)

Released == \A o \in Owners : Held(o) \/ Leaked(o) \/ Gone(o)

(* The encoder's number was given out while the media context's was open.  *)
Apart == ~Taken /\ num["encoder_service"] # NoNumber =>
           num["encoder_service"] # num["media"]

(* Without a failure the media context outlasts the audio thread, and main *)
(* leaves its loop only when the audio context has been told to.  So the   *)
(* audio service in its loop got its number while main's was open.         *)
Quiet ==
  ~Taken /\ failed = {} =>
    /\ MediaLeft => flag["media"]
    /\ MainObeyed => flag["main"]
    /\ flag["main"] => flag["audio"] \/ AudioLeft \/ handler
    /\ at["audio"] = "loop" => ~poked /\ num["audio_service"] # num["main"]

Inv ==
  /\ Types /\ Table /\ Control /\ Fresh
  /\ Holding /\ Released /\ Apart /\ LateCallsHitNothing
  /\ Quiet /\ AbortsOnlyAfterFailure

-----------------------------------------------------------------------------
(* The table.                                                              *)

LEMMA NumbersAre ==
  /\ IsFiniteSet(Objects) /\ IsFiniteSet(Numbers)
  /\ Cardinality(Objects) \in Nat
  /\ Cardinality(Numbers) = Cardinality(Objects)
  /\ 0 \in Numbers /\ 1 \in Numbers
  /\ Numbers \subseteq Nat /\ NoNumber \notin Numbers /\ NoNumber \in Int
<1> DEFINE two == {"output", "signalfd"}
<1>1. IsFiniteSet(Contexts)
  <2>1. IsFiniteSet({"main"} \cup {"audio"} \cup {"media"})
    BY FS_Singleton, FS_Union
  <2>2. Contexts = {"main"} \cup {"audio"} \cup {"media"}
    BY DEF Contexts
  <2> QED BY <2>1, <2>2
<1>2. IsFiniteSet(Owners)
  <2> DEFINE A == {"audio_service"} \cup {"encoder_service"} \cup {"server"}
             B == A \cup {"drm_socket"} \cup {"dma_buf"}
  <2>1. IsFiniteSet(A)
    BY FS_Singleton, FS_Union
  <2>2. IsFiniteSet(B)
    BY <2>1, FS_Singleton, FS_Union
  <2>3. IsFiniteSet(Contexts \cup B)
    BY <1>1, <2>2, FS_Union
  <2>4. Owners = Contexts \cup B
    BY DEF Owners
  <2> QED BY <2>3, <2>4
<1>3. IsFiniteSet(two) /\ Cardinality(two) = 2
  <2>1. IsFiniteSet({"output"}) /\ Cardinality({"output"}) = 1
    BY FS_Singleton
  <2>2. IsFiniteSet({"output"} \cup {"signalfd"})
        /\ Cardinality({"output"} \cup {"signalfd"}) = 2
    BY <2>1, FS_AddElement
  <2>3. two = {"output"} \cup {"signalfd"} OBVIOUS
  <2> QED BY <2>2, <2>3
<1>4. IsFiniteSet(Objects)
  BY <1>2, <1>3, FS_Union DEF Objects
<1>5. Cardinality(two) <= Cardinality(Objects)
  <2>1. two \in SUBSET Objects BY DEF Objects
  <2> QED BY <1>4, <2>1, FS_Subset
<1>6. Cardinality(Objects) \in Nat
  BY <1>4, FS_CardinalityType
<1> DEFINE N == Cardinality(Objects)
<1>7. N \in Nat /\ N >= 2 BY <1>3, <1>5, <1>6
<1>8. Numbers = 0 .. N - 1 BY DEF Numbers
<1> HIDE DEF N
<1>9. IsFiniteSet(Numbers) /\ Cardinality(Numbers) = N
  BY <1>7, <1>8, FS_Interval
<1>10. /\ 0 \in Numbers /\ 1 \in Numbers
       /\ Numbers \subseteq Nat /\ NoNumber \notin Numbers /\ NoNumber \in Int
  BY <1>7, <1>8 DEF NoNumber
<1> QED BY <1>4, <1>6, <1>9, <1>10 DEF N

LEMMA Names ==
  /\ Free \notin Objects
  /\ "output" \notin Owners /\ "signalfd" \notin Owners
  /\ Owners \subseteq Objects
  /\ Contexts \subseteq Owners
  /\ \A c \in Contexts : ServiceOf[c] \in Owners /\ ServiceOf[c] # c
  BY DEF Free, Objects, Owners, Contexts, ServiceOf

LEMMA MinIsLeast ==
  ASSUME NEW S \in SUBSET Nat, S # {}
  PROVE  Min(S) \in S /\ \A y \in S : Min(S) <= y
<1>1. PICK x \in S : \A y \in S : ~(<<y, x>> \in OpToRel(<, Nat))
  BY WFMin, NatLessThanWellFounded
<1>2. \A y \in S : x <= y
  <2> SUFFICES ASSUME NEW y \in S PROVE x <= y
    OBVIOUS
  <2>1. ~(y < x)
    BY <1>1 DEF OpToRel
  <2> QED BY <2>1
<1> QED BY <1>2 DEF Min

(* There are as many numbers as objects, so that one is free for an owner  *)
(* that has none.                                                          *)
LEMMA NumberIsFree ==
  ASSUME Types, Table, NEW o \in Owners, num[o] = NoNumber
  PROVE  LET n == Min({k \in Numbers : table[k] = Free})
         IN  n \in Numbers /\ n \notin {0, 1} /\ table[n] = Free
<1> DEFINE S == {k \in Numbers : table[k] = Free}
           T == Objects \ {o}
<1>1. S # {}
  <2> SUFFICES ASSUME S = {} PROVE FALSE
    OBVIOUS
  <2>1. \A n \in Numbers : table[n] # o
    BY NumbersAre, Names DEF Types, Table
  <2>2. table \in [Numbers -> T]
    BY <2>1 DEF Types
  <2>3. o \in Objects BY Names
  <2>4. IsFiniteSet(T) /\ Cardinality(T) = Cardinality(Objects) - 1
    BY <2>3, NumbersAre, FS_RemoveElement
  <2>5. Cardinality(T) < Cardinality(Numbers)
    BY <2>4, NumbersAre
  <2>6. PICK x, y \in Numbers : x # y /\ table[x] = table[y]
    <3> HIDE DEF T, S
    <3>1. IsFiniteSet(Numbers) BY NumbersAre
    <3>2. \E x, y \in Numbers : x # y /\ table[x] = table[y]
      BY <2>2, <2>4, <2>5, <3>1, FS_PigeonHole
    <3> QED BY <3>2
  <2>7. table[x] # Free /\ table[y] # Free
    BY <2>2, <2>6, Names
  <2>8. x \notin {0, 1} \/ y \notin {0, 1}
    BY <2>6 DEF Table
  <2>9. x \notin {0, 1} /\ y \notin {0, 1}
    BY <2>6, <2>7, <2>8, Names DEF Table
  <2> QED BY <2>6, <2>7, <2>9 DEF Table
<1>2. S \in SUBSET Nat BY NumbersAre
<1>3. Min(S) \in S BY <1>1, <1>2, MinIsLeast
<1> QED BY <1>3, Names DEF Table, Objects, Free

(* Opening: the owner has its descriptor, nobody else's changes.           *)
LEMMA OpenedTable ==
  ASSUME Types, Table, NEW o \in Owners, num[o] = NoNumber, Opened(o),
         strays' = strays
  PROVE  /\ table' \in [Numbers -> Objects \cup {Free}]
         /\ num' \in [Owners -> Numbers \cup {NoNumber}]
         /\ Table'
         /\ Keeps(o)' /\ num'[o] \in Numbers
         /\ \A p \in Owners \ {o} :
              /\ num'[p] = num[p]
              /\ Keeps(p) => Keeps(p)' /\ num[p] # num'[o]
              /\ Gone(p) => Gone(p)'
<1> DEFINE n == Min({k \in Numbers : table[k] = Free})
<1>1. n \in Numbers /\ n \notin {0, 1} /\ table[n] = Free
  BY NumberIsFree
<1>2. table' = [table EXCEPT ![n] = o] /\ num' = [num EXCEPT ![o] = n]
  BY DEF Opened
<1> HIDE DEF n
<1>3. /\ table' \in [Numbers -> Objects \cup {Free}]
      /\ num' \in [Owners -> Numbers \cup {NoNumber}]
      /\ table'[n] = o /\ num'[o] = n
      /\ \A k \in Numbers \ {n} : table'[k] = table[k]
      /\ \A p \in Owners \ {o} : num'[p] = num[p]
  BY <1>1, <1>2, Names DEF Types
<1>4. Table'
  BY <1>1, <1>3, NumbersAre, Names DEF Types, Table
<1>5. Keeps(o)' /\ num'[o] \in Numbers
  BY <1>1, <1>3, NumbersAre DEF Keeps
<1>6. ASSUME NEW p \in Owners \ {o}
      PROVE  /\ num'[p] = num[p]
             /\ Keeps(p) => Keeps(p)' /\ num[p] # num'[o]
             /\ Gone(p) => Gone(p)'
  BY <1>1, <1>3, Names DEF Types, Keeps, Gone
<1> QED BY <1>3, <1>4, <1>5, <1>6

(* Closing: whatever the number meant, the owner's descriptor is gone and  *)
(* no other comes back; if the number was still the owner's, or free,      *)
(* nobody else loses one.                                                  *)
LEMMA ClosedTable ==
  ASSUME Types, Table, NEW o \in Owners, NEW op \in Places, Closed(op, o),
         num' = num \/ Forgotten(o)
  PROVE  /\ table' \in [Numbers -> Objects \cup {Free}]
         /\ num' \in [Owners -> Numbers \cup {NoNumber}]
         /\ Table'
         /\ strays' \subseteq (Places \cup {"notify"}) \X Objects
         /\ strays \subseteq strays'
         /\ Gone(o)'
         /\ num'[o] \in {num[o], NoNumber}
         /\ \A p \in Owners \ {o} :
              /\ num'[p] = num[p]
              /\ Gone(p) => Gone(p)'
              /\ Keeps(p) =>
                   Keeps(p)' \/ (num[o] = num[p] /\ table[num[o]] = p)
         /\ \/ Keeps(o) \/ num[o] = NoNumber \/ table[num[o]] = Free
            \/ /\ table[num[o]] \in Owners \ {o}
               /\ strays' = Noted(op, table[num[o]])
         /\ Keeps(o) \/ num[o] = NoNumber \/ table[num[o]] = Free =>
              strays' = strays
<1> DEFINE n == num[o]
<1>1. n \in Numbers \cup {NoNumber} /\ n \notin {0, 1}
  BY DEF Types, Table
<1>2. /\ num' \in [Owners -> Numbers \cup {NoNumber}]
      /\ num'[o] \in {n, NoNumber}
      /\ \A p \in Owners \ {o} : num'[p] = num[p]
  BY DEF Types, Forgotten
<1>3. /\ table' \in [Numbers -> Objects \cup {Free}]
      /\ n # NoNumber => table'[n] = Free
      /\ \A k \in Numbers \ {n} : table'[k] = table[k]
      /\ \A k \in Numbers : table'[k] \in {table[k], Free}
  BY <1>1 DEF Closed, Types
<1>4. n # NoNumber => table[n] = Free \/ table[n] \in Owners
  BY <1>1 DEF Table
<1>5. strays' \in {strays, Noted(op, table[n])}
  BY DEF Closed
<1>6. n = NoNumber \/ table[n] \in {o, Free} => strays' = strays
  BY DEF Closed
<1>7. n = NoNumber \/ table[n] \in {o, Free} \/ strays' = Noted(op, table[n])
  BY DEF Closed
<1>8. /\ strays' \subseteq (Places \cup {"notify"}) \X Objects
      /\ strays \subseteq strays'
      /\ \A s \in strays' : s[2] \in Owners
  <2>1. CASE n = NoNumber \/ table[n] \in {o, Free}
    BY <2>1, <1>6 DEF Types, Table
  <2>2. CASE ~(n = NoNumber \/ table[n] \in {o, Free})
    <3>1. table[n] \in Owners BY <2>2, <1>4
    <3>2. strays' = strays \/ strays' = strays \cup {<<op, table[n]>>}
      BY <1>5 DEF Noted
    <3> QED BY <3>1, <3>2, Names DEF Types, Table
  <2> QED BY <2>1, <2>2
<1>9. \A k \in Numbers \ {0, 1} :
        table'[k] = Free \/ (table'[k] \in Owners /\ num'[table'[k]] = k)
  <2> SUFFICES ASSUME NEW k \in Numbers \ {0, 1}, table'[k] # Free
               PROVE  table'[k] \in Owners /\ num'[table'[k]] = k
    OBVIOUS
  <2>1. k # NoNumber BY NumbersAre
  <2>2. table'[k] = table[k] /\ k # n BY <1>3, <2>1
  <2>3. table[k] \in Owners /\ num[table[k]] = k BY <2>2 DEF Table
  <2>4. table[k] # o BY <2>2, <2>3
  <2> QED BY <1>2, <2>2, <2>3, <2>4
<1>10. Table'
  BY <1>1, <1>2, <1>3, <1>8, <1>9, NumbersAre DEF Types, Table
<1>11. Gone(o)'
  <2>1. CASE num'[o] = NoNumber BY <2>1 DEF Gone
  <2>2. CASE num'[o] = n /\ n # NoNumber
    BY <2>2, <1>3, Names DEF Gone
  <2> QED BY <1>2, <2>1, <2>2
<1>12. ASSUME NEW p \in Owners \ {o}
       PROVE  /\ num'[p] = num[p]
              /\ Gone(p) => Gone(p)'
              /\ Keeps(p) => Keeps(p)' \/ (n = num[p] /\ table[n] = p)
  <2>1. num[p] \in Numbers \cup {NoNumber} BY DEF Types
  <2>2. p # Free BY Names
  <2> QED BY <1>2, <1>3, <2>1, <2>2 DEF Keeps, Gone
<1>13. /\ \/ Keeps(o) \/ n = NoNumber \/ table[n] = Free
          \/ /\ table[n] \in Owners \ {o}
             /\ strays' = Noted(op, table[n])
       /\ Keeps(o) \/ n = NoNumber \/ table[n] = Free => strays' = strays
  BY <1>4, <1>6, <1>7 DEF Keeps
<1> QED BY <1>2, <1>3, <1>8, <1>10, <1>11, <1>12, <1>13

(* Writing changes no number.                                              *)
LEMMA WrittenStrays ==
  ASSUME Types, Table, NEW o \in Owners, NEW op \in Places \cup {"notify"},
         Written(op, o)
  PROVE  /\ strays' \subseteq (Places \cup {"notify"}) \X Objects
         /\ strays \subseteq strays'
         /\ poked' \in BOOLEAN
         /\ \A s \in strays' : s[2] \in Owners
         /\ \/ strays' = strays
            \/ /\ num[o] # NoNumber /\ table[num[o]] \in Owners \ {o}
               /\ strays' = Noted(op, table[num[o]])
         /\ poked' => poked \/ (num[o] # NoNumber
                                /\ num[o] = num["audio_service"])
<1> DEFINE n == num[o]
<1>1. n \in Numbers \cup {NoNumber} /\ n \notin {0, 1}
  BY DEF Types, Table
<1>2. n # NoNumber => table[n] = Free \/ table[n] \in Owners
  BY <1>1 DEF Table
<1>3. \/ strays' = strays
      \/ /\ n # NoNumber /\ table[n] \in Owners \ {o}
         /\ strays' = Noted(op, table[n])
  BY <1>2 DEF Written
<1>4. strays' = strays
      \/ (table[n] \in Owners /\ strays' = strays \cup {<<op, table[n]>>})
  BY <1>3 DEF Noted
<1>5. /\ strays' \subseteq (Places \cup {"notify"}) \X Objects
      /\ strays \subseteq strays'
      /\ \A s \in strays' : s[2] \in Owners
  BY <1>4, Names DEF Types, Table
<1>6. /\ poked' \in BOOLEAN
      /\ poked' => poked \/ (n # NoNumber /\ n = num["audio_service"])
  BY Zenon DEF Written
<1> QED BY <1>3, <1>5, <1>6

(* Reading changes none either, and takes from a count at most.            *)
LEMMA ReadStrays ==
  ASSUME Types, Table, NEW o \in Owners, NEW op \in Places, Read(op, o)
  PROVE  /\ strays' \subseteq (Places \cup {"notify"}) \X Objects
         /\ strays \subseteq strays'
         /\ poked' \in BOOLEAN
         /\ poked' => poked
         /\ \A s \in strays' : s[2] \in Owners
         /\ \A s \in strays' \ strays : s[1] = op
<1> DEFINE n == num[o]
<1>1. n \in Numbers \cup {NoNumber} /\ n \notin {0, 1}
  BY DEF Types, Table
<1>2. n # NoNumber => table[n] = Free \/ table[n] \in Owners
  BY <1>1 DEF Table
<1>3. strays' = strays
      \/ (table[n] \in Owners /\ strays' = strays \cup {<<op, table[n]>>})
  BY <1>2 DEF Read, Noted
<1>4. /\ strays' \subseteq (Places \cup {"notify"}) \X Objects
      /\ strays \subseteq strays'
      /\ \A s \in strays' : s[2] \in Owners
      /\ \A s \in strays' \ strays : s[1] = op
  BY <1>3, Names DEF Types, Table
<1>5. poked' \in BOOLEAN /\ (poked' => poked)
  BY Zenon DEF Read
<1> QED BY <1>4, <1>5

-----------------------------------------------------------------------------
(* What a step leaves of Holding and Released, by what it does to the      *)
(* table and to the owners that hold something.                            *)

LEMMA TakenStays ==
  ASSUME strays \subseteq strays'
  PROVE  Taken => Taken'
  BY DEF Taken

LEMMA AfterOpen ==
  ASSUME Inv, NEW o \in Owners, num[o] = NoNumber, Opened(o),
         strays' = strays, failed \subseteq failed',
         \A p \in Owners \ {o} : Held(p)' <=> Held(p),
         Held(o)' \/ Leaked(o)'
  PROVE  Holding' /\ Released'
<1> USE DEF Inv
<1>1. /\ Keeps(o)'
      /\ \A p \in Owners \ {o} : /\ Keeps(p) => Keeps(p)'
                                 /\ Gone(p) => Gone(p)'
  BY OpenedTable
<1>2. Taken' <=> Taken BY DEF Taken
<1>3. Holding'
  <2> SUFFICES ASSUME ~Taken', NEW p \in Owners, Held(p)' PROVE Keeps(p)'
    BY DEF Holding
  <2>1. CASE p = o BY <2>1, <1>1
  <2>2. CASE p # o BY <2>2, <1>1, <1>2 DEF Holding
  <2> QED BY <2>1, <2>2
<1>4. Released'
  <2> SUFFICES ASSUME NEW p \in Owners
               PROVE  Held(p)' \/ Leaked(p)' \/ Gone(p)'
    BY DEF Released
  <2>1. Leaked(p) => Leaked(p)' BY DEF Leaked
  <2>2. CASE p = o BY <2>2
  <2>3. CASE p # o BY <2>1, <2>3, <1>1 DEF Released
  <2> QED BY <2>2, <2>3
<1> QED BY <1>3, <1>4

(* The number is still the owner's, or was never given, or it is the       *)
(* second close that Taken speaks of, or nobody holds anything any more.   *)
LEMMA AfterClose ==
  ASSUME Inv, NEW o \in Owners, NEW op \in Places, Closed(op, o),
         num' = num \/ Forgotten(o), failed' = failed,
         \A p \in Owners \ {o} : Held(p)' <=> Held(p),
         ~Held(o)',
         \/ Held(o) \/ num[o] = NoNumber \/ op = "destroy_server"
         \/ \A p \in Owners : ~Held(p)
  PROVE  /\ Holding' /\ Released'
         /\ Held(o) \/ num[o] = NoNumber => Taken' \/ strays' = strays
<1> USE DEF Inv
<1>1. /\ strays \subseteq strays'
      /\ Gone(o)'
      /\ \A p \in Owners \ {o} :
           /\ Gone(p) => Gone(p)'
           /\ Keeps(p) => Keeps(p)' \/ (num[o] = num[p] /\ table[num[o]] = p)
      /\ \/ Keeps(o) \/ num[o] = NoNumber \/ table[num[o]] = Free
         \/ /\ table[num[o]] \in Owners \ {o}
            /\ strays' = Noted(op, table[num[o]])
      /\ Keeps(o) \/ num[o] = NoNumber \/ table[num[o]] = Free =>
           strays' = strays
  BY ClosedTable
<1>2. Taken => Taken' BY <1>1, TakenStays
<1>3. ~Taken' => /\ Held(o) => Keeps(o)
                 /\ \A p \in Owners : Held(p) => Keeps(p)
  BY <1>2 DEF Holding
<1>4. Holding'
  <2> SUFFICES ASSUME ~Taken', NEW p \in Owners, Held(p)' PROVE Keeps(p)'
    BY DEF Holding
  <2>1. p # o /\ Held(p) OBVIOUS
  <2>2. Keeps(p) /\ num[p] # NoNumber BY <2>1, <1>3 DEF Keeps
  <2>3. ~(num[o] = num[p] /\ table[num[o]] = p)
    <3> SUFFICES ASSUME num[o] = num[p], table[num[o]] = p PROVE FALSE
      OBVIOUS
    <3>1. ~Keeps(o) /\ num[o] # NoNumber BY <2>1, <2>2 DEF Keeps
    <3>2. op = "destroy_server" BY <2>1, <3>1, <1>3
    <3>3. table[num[o]] # Free BY Names
    <3>4. strays' = Noted(op, p) BY <1>1, <3>1, <3>3
    <3>5. strays' = strays \cup {<<"destroy_server", p>>}
      BY <3>2, <3>4 DEF Noted
    <3>6. Taken'
      <4>1. <<"destroy_server", p>> \in strays' BY <3>5
      <4> QED BY <4>1 DEF Taken
    <3> QED BY <3>6
  <2> QED BY <1>1, <2>1, <2>2, <2>3
<1>5. Released'
  <2> SUFFICES ASSUME NEW p \in Owners
               PROVE  Held(p)' \/ Leaked(p)' \/ Gone(p)'
    BY DEF Released
  <2>1. Leaked(p) => Leaked(p)' BY DEF Leaked
  <2>2. CASE p = o BY <2>2, <1>1
  <2>3. CASE p # o BY <2>1, <2>3, <1>1 DEF Released
  <2> QED BY <2>2, <2>3
<1>6. Held(o) \/ num[o] = NoNumber => Taken' \/ strays' = strays
  BY <1>1, <1>3
<1> QED BY <1>4, <1>5, <1>6

LEMMA AfterNeither ==
  ASSUME Inv, table' = table, num' = num, strays \subseteq strays',
         failed \subseteq failed',
         \A p \in Owners : Held(p)' <=> Held(p)
  PROVE  Holding' /\ Released' /\ Apart'
<1> USE DEF Inv
<1>1. Taken => Taken' BY TakenStays
<1>2. \A p \in Owners : /\ Keeps(p)' <=> Keeps(p)
                        /\ Gone(p)' <=> Gone(p)
  BY DEF Keeps, Gone
<1>3. Holding' BY <1>1, <1>2 DEF Holding
<1>4. Released' BY <1>2 DEF Released, Leaked
<1>5. Apart' BY <1>1 DEF Apart
<1> QED BY <1>3, <1>4, <1>5

(* A descriptor that is found behind a number is held, or leaked.          *)
LEMMA FoundIsHeld ==
  ASSUME Inv, NEW n \in Numbers \ {0, 1}, NEW p \in Owners, table[n] = p
  PROVE  num[p] = n /\ (Held(p) \/ Leaked(p))
<1>1. num[p] = n BY Names DEF Inv, Table
<1>2. n # NoNumber BY NumbersAre
<1>3. ~Gone(p) BY <1>1, <1>2 DEF Gone
<1> QED BY <1>1, <1>3 DEF Inv, Released

(* A call with another name than the late ones adds nothing that matters.  *)
LEMMA LateStays ==
  ASSUME Inv, strays \subseteq strays', failed \subseteq failed',
         Taken' \/ \A s \in strays' \ strays :
                     s[1] \notin {"destroy", "write_media", "flush"}
                     \/ (s[2] = "audio_service" /\ "audio" \in failed)
  PROVE  LateCallsHitNothing'
<1>1. Taken => Taken' BY TakenStays
<1> QED BY <1>1 DEF Inv, LateCallsHitNothing

-----------------------------------------------------------------------------
(* The actions.                                                            *)

LEMMA Moved ==
  ASSUME Types, NEW c \in Contexts, NEW place \in Places, Go(c, place)
  PROVE  /\ at' \in [Contexts -> Places]
         /\ at'[c] = place
         /\ \A d \in Contexts \ {c} : at'[d] = at[d]
  BY DEF Types, Go

LEMMA CheckedPlace ==
  ASSUME NEW c \in Contexts
  PROVE  Checked(c) \in {"uninit", "loop"} /\ Checked(c) \in Places
  BY DEF Checked, Places

LEMMA OpenEventInv ==
  ASSUME Inv, NEW c \in Contexts, OpenEvent(c), wayland' = wayland
  PROVE  Inv'
<1> DEFINE place == IF c = "main" /\ ~wayland THEN Checked(c) ELSE "init"
<1> USE DEF Inv
<1>1. c \in Owners /\ num[c] = NoNumber /\ at[c] = "open"
  BY Names DEF OpenEvent, Fresh
<1>2. /\ UNCHANGED <<flag, handler, interrupted, failed, poked, strays,
                     aborted, wayland>>
      /\ Opened(c)
  BY DEF OpenEvent
<1>3. /\ table' \in [Numbers -> Objects \cup {Free}]
      /\ num' \in [Owners -> Numbers \cup {NoNumber}]
      /\ Table'
      /\ num'[c] \in Numbers
      /\ \A p \in Owners \ {c} : /\ num'[p] = num[p]
                                 /\ Keeps(p) => num[p] # num'[c]
  BY <1>1, <1>2, OpenedTable
<1>4. /\ place \in {"init", "loop", "uninit"}
      /\ at' \in [Contexts -> Places]
      /\ at'[c] = place
      /\ \A d \in Contexts \ {c} : at'[d] = at[d]
  <2>1. place \in {"init", "loop", "uninit"} /\ place \in Places
    BY CheckedPlace DEF Places
  <2>2. Go(c, place) BY DEF OpenEvent
  <2> QED BY <2>1, <2>2, Moved
<1>5. /\ place = "init" => c # "main" \/ wayland
      /\ place # "init" => c = "main" /\ ~wayland
      /\ place = "uninit" => flag["main"]
  BY DEF Checked
<1> HIDE DEF place
<1>6. Types' BY <1>2, <1>3, <1>4 DEF Types
<1>7. Control' BY <1>1, <1>2, <1>4, <1>5 DEF Control, Contexts, Types
<1>8. Fresh'
  BY <1>1, <1>2, <1>3, <1>4, <1>5, Names
  DEF Fresh, Control, Contexts, Owners, ServiceOf
<1>9. /\ \A p \in Owners \ {c} : Held(p)' <=> Held(p)
      /\ Held(c)'
  BY <1>1, <1>2, <1>4, <1>5 DEF Held, MainUp, Contexts, Owners, Control
<1>10. Holding' /\ Released' BY <1>1, <1>2, <1>9, AfterOpen
<1>11. Taken' <=> Taken BY <1>2 DEF Taken
<1>12. Apart'
  BY <1>1, <1>2, <1>3, <1>11 DEF Apart, Fresh, Contexts, ServiceOf, Owners
<1>13. LateCallsHitNothing' BY <1>2, LateStays
<1>14. AbortsOnlyAfterFailure' BY <1>2, <1>11 DEF AbortsOnlyAfterFailure
<1>15. Quiet'
  <2> SUFFICES ASSUME ~Taken, failed = {}
      PROVE  /\ MediaLeft' => flag["media"]
             /\ MainObeyed' => flag["main"]
             /\ flag["main"] => flag["audio"] \/ AudioLeft' \/ handler
             /\ at'["audio"] = "loop" =>
                  ~poked /\ num'["audio_service"] # num'["main"]
    BY <1>2, <1>11 DEF Quiet
  <2>1. MediaLeft' => MediaLeft
    BY <1>4, <1>5 DEF MediaLeft, Contexts
  <2>2. MainObeyed' => MainObeyed \/ flag["main"]
    BY <1>2, <1>4, <1>5 DEF MainObeyed, MainLeft, MainUp, Contexts
  <2>3. AudioLeft => AudioLeft'
    BY <1>1, <1>4, <1>5 DEF AudioLeft, Contexts
  <2>4. ASSUME at'["audio"] = "loop"
        PROVE  ~poked /\ num'["audio_service"] # num'["main"]
    <3>1. at["audio"] = "loop" /\ c # "audio"
      BY <1>1, <1>4, <1>5, <2>4 DEF Contexts
    <3>2. "audio_service" \in Owners /\ Held("audio_service")
      BY <3>1 DEF Held, Owners
    <3>3. Keeps("audio_service") BY <3>2 DEF Holding
    <3> QED BY <1>3, <3>1, <3>2, <3>3 DEF Quiet, Owners, Contexts
  <2> QED BY <2>1, <2>2, <2>3, <2>4 DEF Quiet
<1> QED
  BY <1>3, <1>6, <1>7, <1>8, <1>10, <1>12, <1>13, <1>14, <1>15

LEMMA InitServiceInv ==
  ASSUME Inv, NEW c \in Contexts, InitService(c), wayland' = wayland
  PROVE  Inv'
<1> DEFINE o == ServiceOf[c]
           place == IF c = "main" THEN "accept" ELSE Checked(c)
<1> USE DEF Inv
<1>1. o \in Owners /\ num[o] = NoNumber /\ at[c] = "init"
  BY Names DEF InitService, Fresh
<1>2. /\ UNCHANGED <<flag, handler, interrupted, failed, poked, strays,
                     aborted, wayland>>
      /\ Opened(o)
  BY DEF InitService
<1>3. /\ table' \in [Numbers -> Objects \cup {Free}]
      /\ num' \in [Owners -> Numbers \cup {NoNumber}]
      /\ Table'
      /\ num'[o] \in Numbers
      /\ \A p \in Owners \ {o} : /\ num'[p] = num[p]
                                 /\ Keeps(p) => num[p] # num'[o]
  BY <1>1, <1>2, OpenedTable
<1>4. /\ place \in {"accept", "loop", "uninit"}
      /\ at' \in [Contexts -> Places]
      /\ at'[c] = place
      /\ \A d \in Contexts \ {c} : at'[d] = at[d]
  <2>1. place \in {"accept", "loop", "uninit"} /\ place \in Places
    BY CheckedPlace DEF Places
  <2>2. Go(c, place) BY DEF InitService
  <2> QED BY <2>1, <2>2, Moved
<1>5. /\ place = "accept" <=> c = "main"
      /\ place = "uninit" => flag[c]
      /\ place = "loop" => ~flag[c]
  BY DEF Checked
<1>6. /\ c = "main" => o = "server" /\ wayland
      /\ c = "audio" => o = "audio_service"
      /\ c = "media" => o = "encoder_service"
  BY <1>1 DEF ServiceOf, Control
<1> HIDE DEF place, o
<1>7. Types' BY <1>2, <1>3, <1>4 DEF Types
<1>8. Control' BY <1>1, <1>2, <1>4, <1>5, <1>6 DEF Control, Contexts, Types
<1>9. Fresh'
  BY <1>1, <1>2, <1>3, <1>4, <1>5, <1>6, Names
  DEF Fresh, Control, Contexts, Owners, ServiceOf
<1>10. /\ \A p \in Owners \ {o} : Held(p)' <=> Held(p)
       /\ Held(o)'
  BY <1>1, <1>2, <1>4, <1>5, <1>6 DEF Held, MainUp, Contexts, Owners, Control
<1>11. Holding' /\ Released' BY <1>1, <1>2, <1>10, AfterOpen
<1>12. Taken' <=> Taken BY <1>2 DEF Taken
<1>13. Apart'
  <2>1. CASE c = "media"
    <3>1. Held("media") /\ "media" \in Owners \ {o}
      BY <1>1, <1>6, <2>1 DEF Held, Owners, Contexts
    <3> QED BY <1>3, <1>6, <1>12, <2>1, <3>1 DEF Apart, Holding
  <2>2. CASE c # "media"
    BY <1>3, <1>6, <1>12, <2>2 DEF Apart, Owners, Contexts
  <2> QED BY <2>1, <2>2
<1>14. LateCallsHitNothing' BY <1>2, LateStays
<1>15. AbortsOnlyAfterFailure' BY <1>2, <1>12 DEF AbortsOnlyAfterFailure
<1>16. Quiet'
  <2> SUFFICES ASSUME ~Taken, failed = {}
      PROVE  /\ MediaLeft' => flag["media"]
             /\ MainObeyed' => flag["main"]
             /\ flag["main"] => flag["audio"] \/ AudioLeft' \/ handler
             /\ at'["audio"] = "loop" =>
                  ~poked /\ num'["audio_service"] # num'["main"]
    BY <1>2, <1>12 DEF Quiet
  <2>1. MediaLeft' => MediaLeft \/ flag["media"]
    BY <1>4, <1>5 DEF MediaLeft, Contexts
  <2>2. MainObeyed' => MainObeyed
    BY <1>1, <1>2, <1>4, <1>5 DEF MainObeyed, MainLeft, MainUp, Contexts
  <2>3. AudioLeft => AudioLeft'
    BY <1>1, <1>4, <1>5 DEF AudioLeft, Contexts
  <2>4. ASSUME at'["audio"] = "loop"
        PROVE  ~poked /\ num'["audio_service"] # num'["main"]
    <3>1. CASE c # "audio"
      BY <1>3, <1>4, <1>6, <2>4, <3>1 DEF Quiet, Owners, Contexts
    <3>2. CASE c = "audio"
      <4>1. ~flag["audio"] /\ ~AudioLeft /\ ~poked /\ o = "audio_service"
        BY <1>1, <1>4, <1>5, <1>6, <2>4, <3>2 DEF AudioLeft, Fresh
      <4>2. MainUp \/ at["main"] = "open"
        BY <4>1 DEF Quiet, MainObeyed, MainLeft, MainUp
      <4>3. "main" \in Owners \ {o} BY <4>1 DEF Owners, Contexts
      <4>4. CASE MainUp
        <5>1. Keeps("main") BY <4>3, <4>4 DEF Held, Holding
        <5> QED BY <1>3, <4>1, <4>3, <5>1
      <4>5. CASE at["main"] = "open"
        <5>1. num["main"] = NoNumber BY <4>5 DEF Fresh, Contexts
        <5> QED BY <1>3, <4>1, <4>3, <5>1, NumbersAre
      <4> QED BY <4>2, <4>4, <4>5
    <3> QED BY <3>1, <3>2
  <2> QED BY <2>1, <2>2, <2>3, <2>4 DEF Quiet
<1> QED
  BY <1>3, <1>7, <1>8, <1>9, <1>11, <1>13, <1>14, <1>15, <1>16

LEMMA AudioInitFailsInv ==
  ASSUME Inv, AudioInitFails, wayland' = wayland
  PROVE  Inv'
<1> DEFINE o == "audio_service"
<1> USE DEF Inv
<1>1. /\ o \in Owners /\ num[o] = NoNumber /\ at["audio"] = "init"
      /\ "audio" \in Contexts
  BY DEF AudioInitFails, Fresh, ServiceOf, Contexts, Owners
<1>2. /\ UNCHANGED <<flag, handler, interrupted, poked, strays,
                     aborted, wayland>>
      /\ Opened(o) /\ Go("audio", "close")
      /\ failed' = failed \cup {"audio"} /\ failed' \subseteq Failures
  BY DEF AudioInitFails, Fails, Types
<1>3. /\ table' \in [Numbers -> Objects \cup {Free}]
      /\ num' \in [Owners -> Numbers \cup {NoNumber}]
      /\ Table'
      /\ \A p \in Owners \ {o} : num'[p] = num[p]
  BY <1>1, <1>2, OpenedTable
<1>4. /\ at' \in [Contexts -> Places]
      /\ at'["audio"] = "close"
      /\ \A d \in Contexts \ {"audio"} : at'[d] = at[d]
  BY <1>1, <1>2, Moved DEF Places
<1> HIDE DEF o
<1>5. Types' BY <1>2, <1>3, <1>4 DEF Types
<1>6. Control' BY <1>1, <1>2, <1>4 DEF Control, Contexts, Types
<1>7. Fresh'
  BY <1>1, <1>2, <1>3, <1>4 DEF Fresh, Contexts, Owners, ServiceOf, o
<1>8. /\ \A p \in Owners \ {o} : Held(p)' <=> Held(p)
      /\ Leaked(o)'
  BY <1>1, <1>2, <1>4 DEF Held, MainUp, Contexts, Owners, Leaked, o
<1>9. Holding' /\ Released' BY <1>1, <1>2, <1>8, AfterOpen
<1>10. Taken' <=> Taken BY <1>2 DEF Taken
<1>11. Apart' BY <1>3, <1>10 DEF Apart, Owners, Contexts, o
<1>12. LateCallsHitNothing' BY <1>2, LateStays
<1>13. AbortsOnlyAfterFailure' /\ Quiet'
  BY <1>2 DEF AbortsOnlyAfterFailure, Quiet
<1> QED BY <1>3, <1>5, <1>6, <1>7, <1>9, <1>11, <1>12, <1>13

(* Accept and Frame open something that only main uses.                    *)
LEMMA MainOpensInv ==
  ASSUME Inv, wayland' = wayland, NEW o, NEW place,
         \/ o = "drm_socket" /\ place = "close_server" /\ Accept
         \/ o = "dma_buf" /\ place = "frame" /\ Frame
  PROVE  Inv'
<1> USE DEF Inv
<1>1. /\ o \in {"drm_socket", "dma_buf"} /\ o \in Owners
      /\ num[o] = NoNumber /\ wayland
      /\ "main" \in Contexts
      /\ o = "drm_socket" =>
           /\ at["main"] = "accept" /\ place = "close_server"
           /\ "main" \notin failed
      /\ o = "dma_buf" => at["main"] = "loop" /\ place = "frame"
  <2>1. CASE o = "drm_socket" /\ place = "close_server" /\ Accept
    BY <2>1 DEF Accept, Fresh, Contexts, Owners, Control
  <2>2. CASE o = "dma_buf" /\ place = "frame" /\ Frame
    BY <2>2 DEF Frame, Fresh, Contexts, Owners
  <2> QED BY <2>1, <2>2
<1>2. /\ UNCHANGED <<flag, handler, interrupted, failed, poked, strays,
                     aborted, wayland>>
      /\ Opened(o) /\ Go("main", place)
  BY DEF Accept, Frame
<1>3. /\ table' \in [Numbers -> Objects \cup {Free}]
      /\ num' \in [Owners -> Numbers \cup {NoNumber}]
      /\ Table'
      /\ \A p \in Owners \ {o} : num'[p] = num[p]
  BY <1>1, <1>2, OpenedTable
<1>4. /\ place \in Places
      /\ at' \in [Contexts -> Places]
      /\ at'["main"] = place
      /\ \A d \in Contexts \ {"main"} : at'[d] = at[d]
  <2>1. place \in Places BY <1>1 DEF Places
  <2> QED BY <1>1, <1>2, <2>1, Moved
<1>5. Types' BY <1>2, <1>3, <1>4 DEF Types
<1>6. Control' BY <1>1, <1>2, <1>4 DEF Control, Contexts, Types
<1>7. Fresh'
  BY <1>1, <1>2, <1>3, <1>4 DEF Fresh, Contexts, Owners, ServiceOf
<1>8. ~handler BY <1>1 DEF Control
<1>9. /\ \A p \in Owners \ {o} : Held(p)' <=> Held(p)
      /\ Held(o)'
  BY <1>1, <1>2, <1>4, <1>8 DEF Held, MainUp, Contexts, Owners
<1>10. Holding' /\ Released' BY <1>1, <1>2, <1>9, AfterOpen
<1>11. Taken' <=> Taken BY <1>2 DEF Taken
<1>12. Apart' BY <1>1, <1>3, <1>11 DEF Apart, Owners, Contexts
<1>13. LateCallsHitNothing' BY <1>2, LateStays
<1>14. AbortsOnlyAfterFailure' BY <1>2, <1>11 DEF AbortsOnlyAfterFailure
<1>15. Quiet'
  <2>1. /\ MediaLeft' <=> MediaLeft
        /\ AudioLeft' <=> AudioLeft
        /\ ~MainObeyed'
    BY <1>1, <1>4 DEF MediaLeft, AudioLeft, MainObeyed, MainLeft, MainUp,
                      Contexts
  <2>2. /\ num'["audio_service"] = num["audio_service"]
        /\ num'["main"] = num["main"]
        /\ at'["audio"] = at["audio"]
    BY <1>1, <1>3, <1>4 DEF Owners, Contexts
  <2> QED BY <1>2, <1>11, <2>1, <2>2 DEF Quiet
<1> QED
  BY <1>3, <1>5, <1>6, <1>7, <1>10, <1>12, <1>13, <1>14, <1>15

(* The closing calls, each made in the place it is named after: which      *)
(* owner's number, and where the thread goes from there.                   *)
Closing(c, op, o, place) ==
  \/ c = "main" /\ op = "close_server" /\ o = "server"
     /\ place = "destroy_server" /\ num' = num
  \/ c = "main" /\ op = "destroy_server" /\ o = "server"
     /\ place = (IF "main" \in failed THEN "close" ELSE Checked("main"))
     /\ Forgotten(o)
  \/ c = "main" /\ op = "frame" /\ o = "dma_buf" /\ place = "loop"
     /\ Forgotten(o)
  \/ c = "main" /\ op = "uninit" /\ o = "drm_socket" /\ place = "close"
     /\ num' = num
  \/ c = "audio" /\ op = "uninit" /\ o = "audio_service" /\ place = "close"
     /\ Forgotten(o)
  \/ c = "media" /\ op = "uninit" /\ o = "encoder_service"
     /\ place = "dispatch" /\ num' = num
  \/ c \in Contexts /\ op = "close" /\ o = c /\ place = "flag_main"
     /\ num' = num
  \/ c = "main" /\ op = "destroy" /\ o = "drm_socket" /\ place = "ended"
     /\ Forgotten(o)

LEMMA ClosingInv ==
  ASSUME Inv, wayland' = wayland, NEW c, NEW op, NEW o, NEW place,
         Closing(c, op, o, place), at[c] = op, Closed(op, o), Go(c, place),
         poked' \in BOOLEAN, poked' => poked,
         UNCHANGED <<flag, handler, interrupted, failed, aborted>>
  PROVE  Inv'
<1> USE DEF Inv
<1>1. /\ c \in Contexts /\ o \in Owners /\ op \in Places
      /\ place \in {"destroy_server", "dispatch", "close", "uninit", "loop",
                    "flag_main", "ended"}
      /\ place \in Places
      /\ op \in {"close_server", "destroy_server", "frame", "uninit",
                 "close", "destroy"}
  BY CheckedPlace DEF Closing, Contexts, Owners, Places
<1>2. num' = num \/ Forgotten(o) BY DEF Closing
<1>3. /\ table' \in [Numbers -> Objects \cup {Free}]
      /\ num' \in [Owners -> Numbers \cup {NoNumber}]
      /\ Table'
      /\ strays' \subseteq (Places \cup {"notify"}) \X Objects
      /\ strays \subseteq strays'
      /\ num'[o] \in {num[o], NoNumber}
      /\ \A p \in Owners \ {o} : num'[p] = num[p]
      /\ \/ Keeps(o) \/ num[o] = NoNumber \/ table[num[o]] = Free
         \/ /\ table[num[o]] \in Owners \ {o}
            /\ strays' = Noted(op, table[num[o]])
      /\ Keeps(o) \/ num[o] = NoNumber \/ table[num[o]] = Free =>
           strays' = strays
  BY <1>1, <1>2, ClosedTable
<1>4. /\ at' \in [Contexts -> Places]
      /\ at'[c] = place
      /\ \A d \in Contexts \ {c} : at'[d] = at[d]
  BY <1>1, Moved
<1>5. /\ c # "main" => op \in {"uninit", "close"}
                       /\ place \in {"dispatch", "close", "flag_main"}
      /\ op = "close_server" => place = "destroy_server" /\ o = "server"
      /\ op = "destroy_server" =>
           /\ o = "server" /\ num'[o] = NoNumber
           /\ "main" \in failed => place = "close"
           /\ "main" \notin failed => place \in {"loop", "uninit"}
           /\ place = "uninit" => flag["main"]
      /\ op = "frame" => place = "loop" /\ o = "dma_buf"
                         /\ num'[o] = NoNumber
      /\ op = "uninit" =>
           /\ c \in {"main", "audio"} => place = "close"
           /\ c = "main" => o = "drm_socket"
           /\ c = "audio" => o = "audio_service"
           /\ c = "media" => /\ place = "dispatch"
                             /\ o = "encoder_service" /\ num' = num
      /\ op = "close" => place = "flag_main" /\ o = c /\ num' = num
      /\ op = "destroy" => c = "main" /\ place = "ended" /\ o = "drm_socket"
  <2>1. CASE op = "destroy_server"
    BY <2>1, <1>1, CheckedPlace
    DEF Closing, Forgotten, Checked, Types, Contexts
  <2>2. CASE op # "destroy_server"
    BY <2>2, <1>1 DEF Closing, Forgotten, Types, Contexts
  <2> QED BY <2>1, <2>2
<1>6. Types' BY <1>3, <1>4 DEF Types
<1>7. ~handler \/ c # "main"
  BY <1>1 DEF Control
<1>8. Control'
  BY <1>1, <1>4, <1>5, <1>7 DEF Control, Contexts, Types
<1>9. Fresh'
  <2>1. \A p \in Owners : num[p] = NoNumber => num'[p] = NoNumber
    BY <1>3
  <2>2. \A d \in Contexts :
          /\ at'[d] = "open" => at[d] = "open"
          /\ at'[d] \in {"open", "init"} => at[d] \in {"open", "init"}
    BY <1>1, <1>4
  <2>3. at'["main"] \in {"open", "init", "accept"} =>
          at["main"] \in {"open", "init", "accept"}
    BY <1>1, <1>4 DEF Contexts
  <2>4. at'["main"] # "frame" => num'["dma_buf"] = NoNumber
    <3>1. CASE op = "frame" BY <3>1, <1>5
    <3>2. CASE op # "frame"
      <4>1. at'["main"] # "frame" => at["main"] # "frame"
        BY <3>2, <1>1, <1>4 DEF Contexts
      <4> QED BY <4>1, <2>1 DEF Fresh, Owners
    <3> QED BY <3>1, <3>2
  <2> QED BY <2>1, <2>2, <2>3, <2>4, Names DEF Fresh, Owners, Contexts
<1>10. /\ \A p \in Owners \ {o} : Held(p)' <=> Held(p)
       /\ ~Held(o)'
  BY <1>1, <1>4, <1>5, <1>7 DEF Held, MainUp, Contexts, Owners
<1>11. op \in {"close_server", "frame", "uninit", "close"} =>
         Held(o) \/ num[o] = NoNumber
  BY <1>1, <1>5 DEF Held, MainUp, Contexts, Owners, Fresh, Control
<1>12. op = "destroy" => \A p \in Owners : ~Held(p)
  BY <1>1, <1>5 DEF Held, MainUp, Contexts, Owners, Control
<1>13. /\ Holding' /\ Released'
       /\ Held(o) \/ num[o] = NoNumber => Taken' \/ strays' = strays
  BY <1>1, <1>2, <1>10, <1>11, <1>12, AfterClose
<1>14. Taken => Taken' BY <1>3, TakenStays
<1>15. Apart'
  <2>1. /\ num'["encoder_service"] = num["encoder_service"]
        /\ num'["media"] = num["media"]
    BY <1>1, <1>3, <1>5 DEF Owners, Contexts
  <2> QED BY <1>14, <2>1 DEF Apart
<1>16. LateCallsHitNothing'
  <2>1. CASE Held(o) \/ num[o] = NoNumber \/ strays' = strays
    BY <2>1, <1>3, <1>13, LateStays
  <2>2. CASE ~(Held(o) \/ num[o] = NoNumber \/ strays' = strays)
    <3>1. table[num[o]] \in Owners /\ strays' = Noted(op, table[num[o]])
      BY <2>2, <1>3
    <3>2. op \in {"destroy_server", "destroy"} BY <2>2, <1>1, <1>11
    <3>3. strays' = strays \cup {<<op, table[num[o]]>>}
      BY <3>1, <3>2 DEF Noted
    <3>4. op = "destroy" =>
            table[num[o]] = "audio_service" /\ "audio" \in failed
      <4>1. num[o] \in Numbers \ {0, 1}
        BY <2>2, <1>1 DEF Types, Table
      <4> QED BY <3>1, <4>1, <1>12, FoundIsHeld DEF Leaked
    <3> QED BY <1>3, <3>2, <3>3, <3>4, LateStays
  <2> QED BY <2>1, <2>2
<1>17. AbortsOnlyAfterFailure' BY <1>14 DEF AbortsOnlyAfterFailure
<1>18. Quiet'
  <2>1. MediaLeft' => MediaLeft
    BY <1>1, <1>4, <1>5 DEF MediaLeft, Contexts
  <2>2. failed = {} => (MainObeyed' => MainObeyed \/ flag["main"])
    BY <1>1, <1>4, <1>5, <1>7 DEF MainObeyed, MainLeft, MainUp, Contexts
  <2>3. AudioLeft => AudioLeft'
    BY <1>1, <1>4, <1>5 DEF AudioLeft, Contexts
  <2>4. at'["audio"] = "loop" =>
          /\ at["audio"] = "loop"
          /\ num'["audio_service"] = num["audio_service"]
          /\ num'["main"] = num["main"]
    BY <1>1, <1>3, <1>4, <1>5 DEF Owners, Contexts
  <2> QED BY <1>14, <2>1, <2>2, <2>3, <2>4 DEF Quiet
<1> QED
  BY <1>3, <1>6, <1>8, <1>9, <1>13, <1>15, <1>16, <1>17, <1>18

(* Steps that touch neither the table nor the history.                     *)

LEMMA FailingInv ==
  ASSUME Inv, wayland' = wayland, NEW c \in Contexts,
         Throw(c) \/ (c = "main" /\ AcceptFails)
  PROVE  Inv'
<1> USE DEF Inv
<1> DEFINE place == IF at[c] = "loop" THEN "uninit" ELSE "close_server"
<1>1. /\ at[c] = "loop" \/ (c = "main" /\ at[c] = "accept")
      /\ Go(c, place)
      /\ failed' = failed \cup {c} /\ failed' \subseteq Failures
      /\ UNCHANGED <<table, num, flag, handler, interrupted, poked, strays,
                     aborted>>
  BY DEF Throw, AcceptFails, Fails, Types
<1>2. /\ at' \in [Contexts -> Places]
      /\ at'[c] = place
      /\ \A d \in Contexts \ {c} : at'[d] = at[d]
  <2>1. place \in Places BY DEF Places
  <2> QED BY <1>1, <2>1, Moved
<1>3. at[c] = "loop" => at'[c] = "uninit" BY <1>2
<1>4. at[c] = "accept" => at'[c] = "close_server" BY <1>2
<1> HIDE DEF place
<1>5. Types' BY <1>1, <1>2 DEF Types
<1>6. Table' BY <1>1 DEF Table
<1>7. Control' BY <1>1, <1>2, <1>3, <1>4 DEF Control, Contexts, Types
<1>8. Fresh'
  BY <1>1, <1>2, <1>3, <1>4 DEF Fresh, Contexts, Types
<1>9. ~(handler /\ c = "main") BY <1>1 DEF Control
<1>10. \A p \in Owners : Held(p)' <=> Held(p)
  BY <1>1, <1>2, <1>3, <1>4, <1>9 DEF Held, MainUp, Contexts, Owners
<1>11. Holding' /\ Released' /\ Apart' BY <1>1, <1>10, AfterNeither
<1>12. LateCallsHitNothing' BY <1>1, LateStays
<1>13. AbortsOnlyAfterFailure' /\ Quiet'
  BY <1>1 DEF AbortsOnlyAfterFailure, Quiet
<1> QED BY <1>5, <1>6, <1>7, <1>8, <1>11, <1>12, <1>13

LEMMA ObeyInv ==
  ASSUME Inv, wayland' = wayland, NEW c \in Contexts, Obey(c)
  PROVE  Inv'
<1> USE DEF Inv
<1>1. /\ at[c] = "loop" /\ flag[c]
      /\ Go(c, "uninit")
      /\ UNCHANGED <<table, num, flag, handler, interrupted, failed, poked,
                     strays, aborted>>
  BY DEF Obey, Checked
<1>2. /\ at' \in [Contexts -> Places]
      /\ at'[c] = "uninit"
      /\ \A d \in Contexts \ {c} : at'[d] = at[d]
  BY <1>1, Moved DEF Places
<1>3. Types' BY <1>1, <1>2 DEF Types
<1>4. Table' BY <1>1 DEF Table
<1>5. Control' BY <1>1, <1>2 DEF Control, Contexts, Types
<1>6. Fresh' BY <1>1, <1>2 DEF Fresh, Contexts, Types
<1>7. ~(handler /\ c = "main") BY <1>1 DEF Control
<1>8. \A p \in Owners : Held(p)' <=> Held(p)
  BY <1>1, <1>2, <1>7 DEF Held, MainUp, Contexts, Owners
<1>9. Holding' /\ Released' /\ Apart' BY <1>1, <1>8, AfterNeither
<1>10. LateCallsHitNothing' BY <1>1, LateStays
<1>11. Taken' <=> Taken BY <1>1 DEF Taken
<1>12. AbortsOnlyAfterFailure' BY <1>1, <1>11 DEF AbortsOnlyAfterFailure
<1>13. Quiet'
  <2>1. /\ MediaLeft' => MediaLeft \/ flag["media"]
        /\ MainObeyed' => MainObeyed \/ flag["main"]
        /\ AudioLeft => AudioLeft'
        /\ at'["audio"] = "loop" => at["audio"] = "loop"
    BY <1>1, <1>2 DEF MediaLeft, AudioLeft, MainObeyed, MainLeft, MainUp,
                      Contexts
  <2> QED BY <1>1, <1>11, <2>1 DEF Quiet
<1> QED BY <1>3, <1>4, <1>5, <1>6, <1>9, <1>10, <1>12, <1>13

LEMMA HandleInterruptInv ==
  ASSUME Inv, wayland' = wayland, HandleInterrupt
  PROVE  Inv'
<1> USE DEF Inv
<1>1. /\ at["main"] = "loop" /\ "main" \in Contexts
      /\ Go("main", "flag_main") /\ handler' = TRUE /\ interrupted' = TRUE
      /\ UNCHANGED <<table, num, flag, failed, poked, strays, aborted>>
  BY DEF HandleInterrupt, Contexts
<1>2. /\ at' \in [Contexts -> Places]
      /\ at'["main"] = "flag_main"
      /\ \A d \in Contexts \ {"main"} : at'[d] = at[d]
  BY <1>1, Moved DEF Places
<1>3. Types' BY <1>1, <1>2 DEF Types
<1>4. Table' BY <1>1 DEF Table
<1>5. Control' BY <1>1, <1>2 DEF Control, Contexts, Types
<1>6. Fresh' BY <1>1, <1>2 DEF Fresh, Contexts, Types
<1>7. \A p \in Owners : Held(p)' <=> Held(p)
  BY <1>1, <1>2 DEF Held, MainUp, Contexts, Owners
<1>8. Holding' /\ Released' /\ Apart' BY <1>1, <1>7, AfterNeither
<1>9. LateCallsHitNothing' BY <1>1, LateStays
<1>10. Taken' <=> Taken BY <1>1 DEF Taken
<1>11. AbortsOnlyAfterFailure' BY <1>1, <1>10 DEF AbortsOnlyAfterFailure
<1>12. Quiet'
  <2>1. /\ MediaLeft' <=> MediaLeft
        /\ ~MainObeyed'
        /\ at'["audio"] = at["audio"]
    BY <1>1, <1>2 DEF MediaLeft, MainObeyed, MainLeft, MainUp, Contexts
  <2> QED BY <1>1, <1>10, <2>1 DEF Quiet
<1> QED BY <1>3, <1>4, <1>5, <1>6, <1>8, <1>9, <1>11, <1>12

LEMMA JoinInv ==
  ASSUME Inv, wayland' = wayland, JoinAudio \/ JoinMedia
  PROVE  Inv'
<1> USE DEF Inv
<1>1. /\ "main" \in Contexts
      /\ \/ /\ at["main"] = "join_audio" /\ Go("main", "flush")
            /\ at["audio"] = "ended"
         \/ /\ at["main"] = "join_media" /\ Go("main", "destroy")
            /\ at["media"] = "ended"
      /\ UNCHANGED <<table, num, flag, handler, interrupted, failed, poked,
                     strays, aborted>>
  BY DEF JoinAudio, JoinMedia, Contexts
<1>2. /\ at' \in [Contexts -> Places]
      /\ \/ /\ at["main"] = "join_audio" /\ at'["main"] = "flush"
            /\ at["audio"] = "ended"
         \/ /\ at["main"] = "join_media" /\ at'["main"] = "destroy"
            /\ at["media"] = "ended"
      /\ \A d \in Contexts \ {"main"} : at'[d] = at[d]
  BY <1>1, Moved DEF Places
<1>3. Types' BY <1>1, <1>2 DEF Types
<1>4. Table' BY <1>1 DEF Table
<1>5. Control' BY <1>1, <1>2 DEF Control, Contexts, Types
<1>6. Fresh' BY <1>1, <1>2 DEF Fresh, Contexts, Types
<1>7. ~handler BY <1>2 DEF Control
<1>8. \A p \in Owners : Held(p)' <=> Held(p)
  BY <1>1, <1>2, <1>7 DEF Held, MainUp, Contexts, Owners
<1>9. Holding' /\ Released' /\ Apart' BY <1>1, <1>8, AfterNeither
<1>10. LateCallsHitNothing' BY <1>1, LateStays
<1>11. Taken' <=> Taken BY <1>1 DEF Taken
<1>12. AbortsOnlyAfterFailure' BY <1>1, <1>11 DEF AbortsOnlyAfterFailure
<1>13. Quiet'
  <2>1. /\ MediaLeft' <=> MediaLeft
        /\ MainObeyed
        /\ AudioLeft' <=> AudioLeft
        /\ at'["audio"] = at["audio"]
    BY <1>1, <1>2, <1>7 DEF MediaLeft, AudioLeft, MainObeyed, MainLeft,
                            MainUp, Contexts
  <2> QED BY <1>1, <1>11, <2>1 DEF Quiet
<1> QED BY <1>3, <1>4, <1>5, <1>6, <1>9, <1>10, <1>12, <1>13

(* The audio thread in its loop has been poked only after a failure.       *)
LEMMA DispatchChunksInv ==
  ASSUME Inv, wayland' = wayland, DispatchChunks
  PROVE  Inv'
<1> USE DEF Inv
<1>1. /\ at["audio"] = "loop" /\ poked
      /\ aborted' = TRUE
      /\ UNCHANGED <<table, num, flag, at, handler, interrupted, failed,
                     poked, strays>>
  BY DEF DispatchChunks
<1>2. Taken' <=> Taken BY <1>1 DEF Taken
<1>3. Types' BY <1>1 DEF Types
<1>4. Table' BY <1>1 DEF Table
<1>5. Control' BY <1>1 DEF Control
<1>6. Fresh' BY <1>1 DEF Fresh
<1>7. \A p \in Owners : Held(p)' <=> Held(p)
  BY <1>1 DEF Held, MainUp
<1>8. Holding' /\ Released' /\ Apart' BY <1>1, <1>7, AfterNeither
<1>9. LateCallsHitNothing' BY <1>1, LateStays
<1>10. AbortsOnlyAfterFailure'
  BY <1>1, <1>2 DEF Quiet, AbortsOnlyAfterFailure
<1>11. Quiet'
  BY <1>1, <1>2 DEF Quiet, MediaLeft, AudioLeft, MainObeyed, MainLeft, MainUp
<1> QED BY <1>3, <1>4, <1>5, <1>6, <1>8, <1>9, <1>10, <1>11

(* request_stop, its store and its write.                                  *)

(* The flag of main: its handler is about to stop the audio context, or    *)
(* the audio context has been stopped already.                             *)
LEMMA StopFlagInv ==
  ASSUME Inv, wayland' = wayland, NEW c \in Contexts, NEW target, NEW place,
         NEW next, StopFlag(c, target, place, next),
         \/ target = "main" /\ place = "flag_main" /\ next = "write_main"
         \/ target = "audio" /\ place = "flag_audio" /\ next = "write_audio"
         \/ c = "main" /\ target = "media" /\ place = "flag_media"
            /\ next = "write_media"
  PROVE  Inv'
<1> USE DEF Inv
<1>1. /\ at[c] = place /\ Go(c, next)
      /\ flag' = [flag EXCEPT ![target] = TRUE]
      /\ UNCHANGED <<table, num, handler, interrupted, failed, poked,
                     strays, aborted>>
      /\ target \in Contexts /\ next \in Places
  BY DEF StopFlag, Contexts, Places
<1>2. /\ at' \in [Contexts -> Places]
      /\ at'[c] = next
      /\ \A d \in Contexts \ {c} : at'[d] = at[d]
  BY <1>1, Moved
<1>3. /\ flag' \in [Contexts -> BOOLEAN]
      /\ flag'[target] = TRUE
      /\ \A d \in Contexts \ {target} : flag'[d] = flag[d]
  BY <1>1 DEF Types
<1>4. Types' BY <1>1, <1>2, <1>3 DEF Types
<1>5. Table' BY <1>1 DEF Table
<1>6. Control'
  BY <1>1, <1>2, <1>3 DEF Control, Contexts, Types
<1>7. Fresh' BY <1>1, <1>2 DEF Fresh, Contexts, Types
<1>8. \A p \in Owners : Held(p)' <=> Held(p)
  BY <1>1, <1>2 DEF Held, MainUp, Contexts, Owners
<1>9. Holding' /\ Released' /\ Apart' BY <1>1, <1>8, AfterNeither
<1>10. LateCallsHitNothing' BY <1>1, LateStays
<1>11. Taken' <=> Taken BY <1>1 DEF Taken
<1>12. AbortsOnlyAfterFailure' BY <1>1, <1>11 DEF AbortsOnlyAfterFailure
<1>13. Quiet'
  <2> SUFFICES ASSUME ~Taken, failed = {}
      PROVE  /\ MediaLeft' => flag'["media"]
             /\ MainObeyed' => flag'["main"]
             /\ flag'["main"] => flag'["audio"] \/ AudioLeft' \/ handler
             /\ at'["audio"] = "loop" =>
                  ~poked /\ num["audio_service"] # num["main"]
    BY <1>1, <1>11 DEF Quiet
  <2>1. /\ MediaLeft' => MediaLeft
        /\ MainObeyed' => MainObeyed
        /\ AudioLeft => AudioLeft'
        /\ at'["audio"] = "loop" => at["audio"] = "loop"
    BY <1>1, <1>2 DEF MediaLeft, AudioLeft, MainObeyed, MainLeft, MainUp,
                      Contexts
  <2>2. \A d \in Contexts : flag[d] => flag'[d]
    BY <1>3
  <2>3. ASSUME target = "main"
        PROVE  flag["audio"] \/ AudioLeft \/ handler
    <3>1. at[c] = "flag_main" BY <1>1, <2>3
    <3>2. CASE c = "main"
      <4>1. handler \/ MainObeyed
        BY <3>1, <3>2 DEF MainObeyed, MainLeft, MainUp
      <4> QED BY <4>1 DEF Quiet
    <3>3. CASE c = "audio" BY <3>1, <3>3 DEF AudioLeft
    <3>4. CASE c = "media"
      <4>1. MediaLeft BY <3>1, <3>4 DEF MediaLeft
      <4>2. flag["media"] BY <4>1 DEF Quiet
      <4> QED BY <4>2 DEF Control, AudioLeft
    <3> QED BY <3>2, <3>3, <3>4 DEF Contexts
  <2>4. flag'["main"] => flag["main"] \/ target = "main"
    BY <1>3 DEF Contexts
  <2> QED BY <2>1, <2>2, <2>3, <2>4 DEF Quiet, Contexts
<1> QED BY <1>4, <1>5, <1>6, <1>7, <1>9, <1>10, <1>12, <1>13

(* Nothing but a late call leaves a trace when it hits an owner.           *)
LEMMA WriteUnnoted ==
  ASSUME Inv, NEW o \in Owners, NEW op \in Places \cup {"notify"},
         Written(op, o), op \in {"notify", "write_main", "write_audio"}
  PROVE  strays' = strays
<1>1. \/ strays' = strays
      \/ table[num[o]] \in Owners /\ strays' = Noted(op, table[num[o]])
  BY WrittenStrays DEF Inv
<1> QED BY <1>1, Names DEF Noted

LEMMA NotifyInv ==
  ASSUME Inv, wayland' = wayland, NEW c \in Contexts, Notify(c)
  PROVE  Inv'
<1> DEFINE o == "encoder_service"
<1> USE DEF Inv
<1>1. /\ Written("notify", o) /\ o \in Owners
      /\ UNCHANGED <<table, num, flag, at, handler, interrupted, failed,
                     aborted>>
  BY DEF Notify, Owners
<1>2. /\ strays' = strays
      /\ poked' \in BOOLEAN
      /\ poked' => poked \/ (num[o] # NoNumber
                             /\ num[o] = num["audio_service"])
  BY <1>1, WriteUnnoted, WrittenStrays
<1>3. Taken' <=> Taken BY <1>2 DEF Taken
<1>4. Types' BY <1>1, <1>2 DEF Types
<1>5. Table' BY <1>1, <1>2 DEF Table
<1>6. Control' BY <1>1 DEF Control
<1>7. Fresh'
  BY <1>1, <1>2 DEF Fresh, ServiceOf, Contexts
<1>8. \A p \in Owners : Held(p)' <=> Held(p)
  BY <1>1 DEF Held, MainUp
<1>9. Holding' /\ Released' /\ Apart' BY <1>1, <1>2, <1>8, AfterNeither
<1>10. LateCallsHitNothing' BY <1>1, <1>2, LateStays
<1>11. AbortsOnlyAfterFailure' BY <1>1, <1>3 DEF AbortsOnlyAfterFailure
<1>12. Quiet'
  <2>1. ASSUME ~Taken, failed = {}, at["audio"] = "loop"
        PROVE  ~poked'
    <3>1. ~poked BY <2>1 DEF Quiet
    <3>2. CASE MediaLeft
      BY <2>1, <3>2 DEF Quiet, Control
    <3>3. CASE at["media"] \in {"open", "init"}
      <4>1. num[o] = NoNumber BY <3>3 DEF Fresh, ServiceOf, Contexts
      <4> QED BY <1>2, <3>1, <4>1
    <3>4. CASE at["media"] = "loop"
      <4>1. Held(o) /\ Held("audio_service") /\ "audio_service" \in Owners
        BY <2>1, <3>4 DEF Held, Owners
      <4>2. Keeps(o) /\ Keeps("audio_service")
        BY <1>1, <2>1, <4>1 DEF Holding
      <4> QED BY <1>2, <3>1, <4>2 DEF Keeps
    <3> QED BY <3>2, <3>3, <3>4 DEF MediaLeft
  <2>2. /\ MediaLeft' <=> MediaLeft
        /\ MainObeyed' <=> MainObeyed
        /\ AudioLeft' <=> AudioLeft
    BY <1>1 DEF MediaLeft, AudioLeft, MainObeyed, MainLeft, MainUp
  <2> QED BY <1>1, <1>3, <2>1, <2>2 DEF Quiet
<1> QED BY <1>4, <1>5, <1>6, <1>7, <1>9, <1>10, <1>11, <1>12

(* The last dispatch's read: the history may grow, nothing else does.      *)
LEMMA DispatchClosedInv ==
  ASSUME Inv, wayland' = wayland, DispatchClosed
  PROVE  Inv'
<1> DEFINE o == "encoder_service"
<1> USE DEF Inv
<1>1. /\ at["media"] = "dispatch" /\ "media" \in Contexts
      /\ Read("dispatch", o) /\ o \in Owners /\ "dispatch" \in Places
      /\ Go("media", "close")
      /\ UNCHANGED <<table, num, flag, handler, interrupted, failed, aborted>>
  BY DEF DispatchClosed, Owners, Contexts, Places
<1>2. /\ at' \in [Contexts -> Places]
      /\ at'["media"] = "close"
      /\ \A d \in Contexts \ {"media"} : at'[d] = at[d]
  BY <1>1, Moved DEF Places
<1>3. /\ strays' \subseteq (Places \cup {"notify"}) \X Objects
      /\ strays \subseteq strays'
      /\ poked' \in BOOLEAN
      /\ poked' => poked
      /\ \A s \in strays' : s[2] \in Owners
      /\ \A s \in strays' \ strays : s[1] = "dispatch"
  BY <1>1, ReadStrays
<1>4. Taken => Taken' BY <1>3, TakenStays
<1>5. Types' BY <1>1, <1>2, <1>3 DEF Types
<1>6. Table' BY <1>1, <1>3 DEF Table
<1>7. Control' BY <1>1, <1>2 DEF Control, Contexts, Types
<1>8. Fresh' BY <1>1, <1>2, <1>3 DEF Fresh, Contexts, Types
<1>9. \A p \in Owners : Held(p)' <=> Held(p)
  BY <1>1, <1>2 DEF Held, MainUp, Contexts, Owners
<1>10. Holding' /\ Released' /\ Apart' BY <1>1, <1>3, <1>9, AfterNeither
<1>11. LateCallsHitNothing' BY <1>1, <1>3, LateStays
<1>12. AbortsOnlyAfterFailure' BY <1>1, <1>4 DEF AbortsOnlyAfterFailure
<1>13. Quiet'
  <2>1. /\ MediaLeft' <=> MediaLeft
        /\ MainObeyed' <=> MainObeyed
        /\ AudioLeft' <=> AudioLeft
        /\ at'["audio"] = at["audio"]
    BY <1>1, <1>2 DEF MediaLeft, AudioLeft, MainObeyed, MainLeft, MainUp,
                      Contexts
  <2> QED BY <1>1, <1>3, <1>4, <2>1 DEF Quiet
<1> QED BY <1>5, <1>6, <1>7, <1>8, <1>10, <1>11, <1>12, <1>13

(* The write to main or audio.                                             *)
LEMMA StopWriteInv ==
  ASSUME Inv, wayland' = wayland, NEW c \in Contexts, NEW target, NEW place,
         NEW next, StopWrite(c, target, place, next),
         \/ target = "main" /\ place = "write_main" /\ next = "flag_audio"
         \/ target = "audio" /\ place = "write_audio" /\ next = AfterStop(c)
  PROVE  Inv'
<1> USE DEF Inv
<1>1. /\ at[c] = place /\ Go(c, next)
      /\ Written(place, target)
      /\ handler' = (handler /\ next # "loop")
      /\ UNCHANGED <<table, num, flag, interrupted, failed, aborted>>
      /\ target \in Owners /\ place \in Places \cup {"notify"}
      /\ place \in {"write_main", "write_audio"}
  BY DEF StopWrite, Owners, Contexts, Places
<1>2. /\ next \in Places
      /\ place = "write_main" => next = "flag_audio"
      /\ place = "write_audio" =>
           /\ c # "main" => next = "ended"
           /\ c = "main" /\ handler => next = "loop"
           /\ c = "main" /\ ~handler => next = "join_audio"
  BY <1>1 DEF AfterStop, Places
<1>3. /\ at' \in [Contexts -> Places]
      /\ at'[c] = next
      /\ \A d \in Contexts \ {c} : at'[d] = at[d]
  BY <1>1, <1>2, Moved
<1>4. /\ strays' = strays
      /\ poked' \in BOOLEAN
      /\ poked' => poked \/ (num[target] # NoNumber
                             /\ num[target] = num["audio_service"])
  BY <1>1, WriteUnnoted, WrittenStrays
<1>5. /\ handler' \in BOOLEAN
      /\ handler' => handler
      /\ handler /\ ~handler' => c = "main" /\ at'["main"] = "loop"
      /\ c = "main" /\ place = "write_audio" => ~handler'
  BY <1>1, <1>2, <1>3 DEF Types
<1>6. Taken' <=> Taken BY <1>4 DEF Taken
<1>7. Types' BY <1>1, <1>3, <1>4, <1>5 DEF Types
<1>8. Table' BY <1>1, <1>4 DEF Table
<1>9. Control'
  BY <1>1, <1>2, <1>3, <1>5 DEF Control, Contexts, Types
<1>10. Fresh'
  BY <1>1, <1>2, <1>3, <1>4 DEF Fresh, Contexts, Types, ServiceOf
<1>11. \A p \in Owners : Held(p)' <=> Held(p)
  BY <1>1, <1>2, <1>3, <1>5 DEF Held, MainUp, Contexts, Owners, Types
<1>12. Holding' /\ Released' /\ Apart' BY <1>1, <1>4, <1>11, AfterNeither
<1>13. LateCallsHitNothing' BY <1>1, <1>4, LateStays
<1>14. AbortsOnlyAfterFailure' BY <1>1, <1>6 DEF AbortsOnlyAfterFailure
<1>15. Quiet'
  <2> SUFFICES ASSUME ~Taken, failed = {}
      PROVE  /\ MediaLeft' => flag["media"]
             /\ MainObeyed' => flag["main"]
             /\ flag["main"] => flag["audio"] \/ AudioLeft' \/ handler'
             /\ at'["audio"] = "loop" =>
                  ~poked' /\ num["audio_service"] # num["main"]
    BY <1>1, <1>6 DEF Quiet
  <2>1. /\ MediaLeft' => MediaLeft
        /\ MainObeyed' => MainObeyed
        /\ AudioLeft => AudioLeft'
        /\ at'["audio"] = "loop" => at["audio"] = "loop"
    BY <1>1, <1>2, <1>3, <1>5
    DEF MediaLeft, AudioLeft, MainObeyed, MainLeft, MainUp, Contexts
  <2>2. flag["audio"] \/ AudioLeft \/ handler =>
          flag["audio"] \/ AudioLeft' \/ handler'
    <3>1. handler /\ ~handler' => flag["audio"]
      BY <1>1, <1>2, <1>5 DEF Control
    <3> QED BY <2>1, <3>1
  <2>3. ASSUME at["audio"] = "loop" PROVE ~poked'
    <3>1. /\ Keeps("audio_service") /\ Keeps("audio")
          /\ ~poked /\ num["audio_service"] # num["main"]
      BY <2>3 DEF Held, Owners, Contexts, Holding, Quiet
    <3>2. num["audio"] # num["audio_service"] BY <3>1 DEF Keeps
    <3>3. target \in {"main", "audio"} OBVIOUS
    <3> QED BY <1>4, <3>1, <3>2, <3>3
  <2> QED BY <2>1, <2>2, <2>3 DEF Quiet
<1> QED BY <1>7, <1>8, <1>9, <1>10, <1>12, <1>13, <1>14, <1>15

(* After the audio thread: the last notification and the stop of media.    *)
LEMMA LateWriteInv ==
  ASSUME Inv, wayland' = wayland, NEW o, NEW op, NEW next,
         \/ o = "encoder_service" /\ op = "flush"
            /\ next \in {"flush", "flag_media"}
            /\ at["main"] = op /\ Go("main", next)
            /\ Written(op, o)
            /\ UNCHANGED <<table, num, flag, handler, interrupted, failed,
                           aborted>>
         \/ o = "media" /\ op = "write_media" /\ next = "join_media"
            /\ StopWrite("main", o, op, next)
  PROVE  Inv'
<1> USE DEF Inv
<1>1. /\ at["main"] = op /\ Go("main", next)
      /\ Written(op, o)
      /\ UNCHANGED <<table, num, flag, interrupted, failed, aborted>>
      /\ handler' = handler \/ handler' = (handler /\ next # "loop")
      /\ o \in Owners /\ op \in Places \cup {"notify"} /\ next \in Places
      /\ op \in {"flush", "write_media"}
      /\ next \in {"flush", "flag_media", "join_media"}
      /\ op = "write_media" => next = "join_media"
      /\ "main" \in Contexts
  BY DEF StopWrite, Owners, Contexts, Places
<1>2. /\ at' \in [Contexts -> Places]
      /\ at'["main"] = next
      /\ \A d \in Contexts \ {"main"} : at'[d] = at[d]
  BY <1>1, Moved
<1>3. ~handler /\ at["audio"] = "ended" BY <1>1 DEF Control
<1>4. handler' = FALSE
  <2>1. handler = FALSE BY <1>3 DEF Types
  <2> QED BY <1>1, <2>1
<1>5. /\ strays' \subseteq (Places \cup {"notify"}) \X Objects
      /\ strays \subseteq strays'
      /\ poked' \in BOOLEAN
      /\ \A s \in strays' : s[2] \in Owners
      /\ \/ strays' = strays
         \/ /\ num[o] # NoNumber /\ table[num[o]] \in Owners \ {o}
            /\ strays' = Noted(op, table[num[o]])
  BY <1>1, WrittenStrays
<1>6. Taken => Taken' BY <1>5, TakenStays
<1>7. Types' BY <1>1, <1>2, <1>4, <1>5 DEF Types
<1>8. Table' BY <1>1, <1>5 DEF Table
<1>9. Control'
  BY <1>1, <1>2, <1>3, <1>4 DEF Control, Contexts, Types
<1>10. Fresh' BY <1>1, <1>2, <1>3 DEF Fresh, Contexts, Types
<1>11. \A p \in Owners : Held(p)' <=> Held(p)
  BY <1>1, <1>2, <1>3, <1>4 DEF Held, MainUp, Contexts, Owners
<1>12. Holding' /\ Released' /\ Apart' BY <1>1, <1>5, <1>11, AfterNeither
<1>13. LateCallsHitNothing'
  <2>1. CASE strays' = strays BY <2>1, <1>1, LateStays
  <2>2. CASE strays' # strays
    <3> DEFINE p == table[num[o]]
    <3>1. /\ num[o] # NoNumber /\ p \in Owners \ {o}
          /\ strays' = strays \cup {<<op, p>>}
      BY <2>2, <1>1, <1>5 DEF Noted
    <3>2. num[o] \in Numbers \ {0, 1}
      BY <1>1, <3>1 DEF Types, Table
    <3>3. num[p] = num[o] /\ (Held(p) \/ Leaked(p))
      BY <3>1, <3>2, FoundIsHeld
    <3>4. Held(p) => p \in {"media", "encoder_service"}
      BY <1>1, <1>3 DEF Held, MainUp
    <3>5. ~Taken => p \notin {"media", "encoder_service"}
      BY <3>1, <3>3 DEF Apart
    <3>6. Taken \/ Leaked(p) BY <3>3, <3>4, <3>5
    <3> HIDE DEF p
    <3>7. \A s \in strays' \ strays : s[2] = p BY <3>1
    <3> QED BY <1>1, <1>5, <1>6, <3>6, <3>7, LateStays DEF Leaked
  <2> QED BY <2>1, <2>2
<1>14. AbortsOnlyAfterFailure' BY <1>1, <1>6 DEF AbortsOnlyAfterFailure
<1>15. Quiet'
  <2>1. /\ MediaLeft' <=> MediaLeft
        /\ MainObeyed
        /\ AudioLeft'
        /\ at'["audio"] # "loop"
    BY <1>1, <1>2, <1>3 DEF MediaLeft, AudioLeft, MainObeyed, MainLeft,
                            MainUp, Contexts
  <2> QED BY <1>1, <1>6, <2>1 DEF Quiet
<1> QED BY <1>7, <1>8, <1>9, <1>10, <1>12, <1>13, <1>14, <1>15

(* A flush that throws wrote nothing.                                      *)
LEMMA FlushInv ==
  ASSUME Inv, wayland' = wayland, Flush
  PROVE  Inv'
<1> USE DEF Inv
<1>1. PICK next \in {"flush", "flag_media"} :
        /\ at["main"] = "flush" /\ Go("main", next)
        /\ Written("flush", "encoder_service") \/ UNCHANGED <<poked, strays>>
        /\ UNCHANGED <<table, num, flag, handler, interrupted, failed,
                       aborted>>
  BY DEF Flush
<1>2. CASE Written("flush", "encoder_service")
  BY <1>1, <1>2, LateWriteInv
<1>3. CASE UNCHANGED <<poked, strays>>
  <2>1. /\ at' \in [Contexts -> Places] /\ "main" \in Contexts
        /\ at'["main"] = next
        /\ \A d \in Contexts \ {"main"} : at'[d] = at[d]
    BY <1>1, Moved DEF Contexts, Places
  <2>2. ~handler /\ at["audio"] = "ended" BY <1>1 DEF Control
  <2>3. Types' BY <1>1, <1>3, <2>1 DEF Types
  <2>4. Table' BY <1>1, <1>3 DEF Table
  <2>5. Control'
    BY <1>1, <2>1, <2>2 DEF Control, Contexts, Types
  <2>6. Fresh' BY <1>1, <1>3, <2>1, <2>2 DEF Fresh, Contexts, Types
  <2>7. \A p \in Owners : Held(p)' <=> Held(p)
    BY <1>1, <2>1, <2>2 DEF Held, MainUp, Contexts, Owners
  <2>8. Holding' /\ Released' /\ Apart' BY <1>1, <1>3, <2>7, AfterNeither
  <2>9. LateCallsHitNothing' BY <1>1, <1>3, LateStays
  <2>10. Taken' <=> Taken BY <1>3 DEF Taken
  <2>11. AbortsOnlyAfterFailure'
    BY <1>1, <2>10 DEF AbortsOnlyAfterFailure
  <2>12. Quiet'
    <3>1. /\ MediaLeft' <=> MediaLeft
          /\ MainObeyed
          /\ AudioLeft'
          /\ at'["audio"] # "loop"
      BY <1>1, <2>1, <2>2 DEF MediaLeft, AudioLeft, MainObeyed, MainLeft,
                              MainUp, Contexts
    <3> QED BY <1>1, <2>10, <3>1 DEF Quiet
  <2> QED
    BY <2>3, <2>4, <2>5, <2>6, <2>8, <2>9, <2>11, <2>12
<1> QED BY <1>1, <1>2, <1>3

-----------------------------------------------------------------------------

LEMMA InitInv == Init => Inv
<1> SUFFICES ASSUME Init PROVE Inv
  OBVIOUS
<1>1. Types
  BY NumbersAre DEF Init, Types, NeverOpened, Objects, Places, Contexts
<1>2. Table
  BY NumbersAre DEF Init, Table, NeverOpened, Free, NoNumber
<1>3. Control BY DEF Init, Control, Contexts
<1>4. Fresh
  BY Names DEF Init, Fresh, NeverOpened, Contexts, Owners
<1>5. \A o \in Owners : Gone(o) /\ ~Held(o)
  BY DEF Init, Gone, NeverOpened, Held, MainUp, Contexts
<1>6. Holding /\ Released BY <1>5 DEF Holding, Released
<1>7. Apart BY DEF Init, Apart, NeverOpened, Owners, Contexts
<1>8. LateCallsHitNothing /\ AbortsOnlyAfterFailure
  BY DEF Init, LateCallsHitNothing, AbortsOnlyAfterFailure
<1>9. Quiet
  BY DEF Init, Quiet, MediaLeft, MainObeyed, MainLeft, MainUp, AudioLeft,
         Contexts
<1> QED BY <1>1, <1>2, <1>3, <1>4, <1>6, <1>7, <1>8, <1>9 DEF Inv

(* request_stop on main and audio, whoever calls it.                       *)
LEMMA StopInv ==
  ASSUME Inv, wayland' = wayland, NEW c \in Contexts, Stop(c)
  PROVE  Inv'
<1>1. CASE StopFlag(c, "main", "flag_main", "write_main")
  BY <1>1, StopFlagInv
<1>2. CASE StopWrite(c, "main", "write_main", "flag_audio")
  BY <1>2, StopWriteInv
<1>3. CASE StopFlag(c, "audio", "flag_audio", "write_audio")
  BY <1>3, StopFlagInv
<1>4. CASE StopWrite(c, "audio", "write_audio", AfterStop(c))
  <2> DEFINE next == AfterStop(c)
  <2>1. StopWrite(c, "audio", "write_audio", next) BY <1>4
  <2> QED BY <2>1, StopWriteInv
<1> QED BY <1>1, <1>2, <1>3, <1>4 DEF Stop

LEMMA ThreadInv ==
  ASSUME Inv, wayland' = wayland, NEW c \in Contexts, Thread(c)
  PROVE  Inv'
<1>1. CASE OpenEvent(c) BY <1>1, OpenEventInv
<1>2. CASE InitService(c) BY <1>2, InitServiceInv
<1>3. CASE Notify(c) BY <1>3, NotifyInv
<1>4. CASE Obey(c) BY <1>4, ObeyInv
<1>5. CASE Throw(c) BY <1>5, FailingInv
<1>6. CASE Uninit(c)
  <2> DEFINE o == IF c = "main" THEN "drm_socket" ELSE ServiceOf[c]
             place == IF c = "media" THEN "dispatch" ELSE "close"
  <2>1. Closing(c, "uninit", o, place)
    BY <1>6 DEF Uninit, Closing, Contexts, ServiceOf
  <2>2. /\ at[c] = "uninit" /\ Closed("uninit", o) /\ Go(c, place)
        /\ UNCHANGED <<flag, handler, interrupted, failed, aborted>>
    BY <1>6 DEF Uninit
  <2>3. poked' \in BOOLEAN /\ (poked' => poked)
    BY <1>6, Zenon DEF Uninit
  <2> HIDE DEF place, o
  <2> QED BY <2>1, <2>2, <2>3, ClosingInv
<1>7. CASE CloseEvent(c)
  <2>1. Closing(c, "close", c, "flag_main")
    BY <1>7 DEF CloseEvent, Closing
  <2>2. /\ at[c] = "close" /\ Closed("close", c) /\ Go(c, "flag_main")
        /\ UNCHANGED <<flag, handler, interrupted, failed, aborted>>
        /\ poked' = poked
    BY <1>7 DEF CloseEvent
  <2> QED BY <2>1, <2>2, ClosingInv DEF Inv, Types
<1>8. CASE Stop(c) BY <1>8, StopInv
<1> QED BY <1>1, <1>2, <1>3, <1>4, <1>5, <1>6, <1>7, <1>8 DEF Thread

LEMMA MainInv ==
  ASSUME Inv, wayland' = wayland, Main
  PROVE  Inv'
<1>0. "main" \in Contexts BY DEF Contexts
<1>1. CASE Thread("main") BY <1>0, <1>1, ThreadInv
<1>2. CASE Accept BY <1>2, MainOpensInv
<1>3. CASE AcceptFails BY <1>0, <1>3, FailingInv
<1>4. CASE CloseServer
  <2>1. Closing("main", "close_server", "server", "destroy_server")
    BY <1>4 DEF CloseServer, Closing
  <2> QED BY <1>4, <2>1, ClosingInv DEF CloseServer, Inv, Types
<1>5. CASE DestroyServer
  <2> DEFINE place == IF "main" \in failed THEN "close" ELSE Checked("main")
  <2>1. Closing("main", "destroy_server", "server", place)
    BY <1>5 DEF DestroyServer, Closing
  <2>2. /\ at["main"] = "destroy_server" /\ Closed("destroy_server", "server")
        /\ Go("main", place) /\ poked' = poked
        /\ UNCHANGED <<flag, handler, interrupted, failed, aborted>>
    BY <1>5 DEF DestroyServer
  <2> HIDE DEF place
  <2> QED BY <2>1, <2>2, ClosingInv DEF Inv, Types
<1>6. CASE Frame BY <1>6, MainOpensInv
<1>7. CASE FrameEnds
  <2>1. Closing("main", "frame", "dma_buf", "loop")
    BY <1>7 DEF FrameEnds, Closing
  <2> QED BY <1>7, <2>1, ClosingInv DEF FrameEnds, Inv, Types
<1>8. CASE HandleInterrupt BY <1>8, HandleInterruptInv
<1>9. CASE JoinAudio \/ JoinMedia BY <1>9, JoinInv
<1>10. CASE Flush BY <1>10, FlushInv
<1>11. CASE StopMedia BY <1>0, <1>11, StopFlagInv, LateWriteInv DEF StopMedia
<1>12. CASE Destroy
  <2>1. Closing("main", "destroy", "drm_socket", "ended")
    BY <1>12 DEF Destroy, Closing
  <2> QED BY <1>12, <2>1, ClosingInv DEF Destroy, Inv, Types
<1> QED
  BY <1>1, <1>2, <1>3, <1>4, <1>5, <1>6, <1>7, <1>8, <1>9, <1>10, <1>11,
     <1>12 DEF Main

(* The inductive invariant holds throughout every session.                 *)
THEOREM InvHolds == Spec => []Inv
<1>1. Inv /\ [Next]_vars => Inv'
  <2> SUFFICES ASSUME Inv, [Next]_vars PROVE Inv'
    OBVIOUS
  <2>1. CASE Main /\ wayland' = wayland BY <2>1, MainInv
  <2>2. CASE Thread("audio") /\ wayland' = wayland
    BY <2>2, ThreadInv DEF Contexts
  <2>3. CASE Thread("media") /\ wayland' = wayland
    BY <2>3, ThreadInv DEF Contexts
  <2>4. CASE AudioInitFails /\ wayland' = wayland
    BY <2>4, AudioInitFailsInv
  <2>5. CASE DispatchChunks /\ wayland' = wayland
    BY <2>5, DispatchChunksInv
  <2>6. CASE DispatchClosed /\ wayland' = wayland
    BY <2>6, DispatchClosedInv
  <2>7. CASE UNCHANGED vars
    BY <2>7
    DEF vars, Inv, Types, Table, Control, Fresh, Holding, Released, Apart,
        LateCallsHitNothing, Quiet, AbortsOnlyAfterFailure, Taken, Held,
        Keeps, Gone, Leaked, MainUp, MainLeft, MainObeyed, AudioLeft,
        MediaLeft
  <2> QED
    BY <2>1, <2>2, <2>3, <2>4, <2>5, <2>6, <2>7 DEF Next, Audio, Media
<1> QED BY <1>1, InitInv, PTL DEF Spec

(* A media context that has not failed leaves its loop when main has       *)
(* stopped it, which is after everybody else has opened what they open: so *)
(* the number it has closed is still free when dispatch reads from it.     *)
MediaObeyed ==
  "media" \notin failed =>
    /\ MediaLeft => flag["media"]
    /\ at["media"] = "dispatch" =>
         LET n == num["encoder_service"] IN n = NoNumber \/ table[n] = Free

(* What a close leaves in the history has its name on it, and it only      *)
(* frees numbers.                                                          *)
LEMMA ClosedAdds ==
  ASSUME Types, NEW op, NEW o, Closed(op, o),
         num[o] \in Numbers \cup {NoNumber}
  PROVE  /\ \A s \in strays' \ strays : s[1] = op
         /\ \A k \in Numbers : table'[k] \in {table[k], Free}
         /\ num[o] # NoNumber => table'[num[o]] = Free
  BY DEF Closed, Noted, Types

(* What a write leaves in the history has its name on it.                  *)
LEMMA WrittenAdds ==
  ASSUME NEW op, NEW o, Written(op, o)
  PROVE  \A s \in strays' \ strays : s[1] = op
<1>1. strays' = strays \/ strays' = Noted(op, table[num[o]])
  BY DEF Written
<1> QED BY <1>1 DEF Noted

(* A step that opens nothing.                                              *)
LEMMA NothingOpened ==
  ASSUME Types, MediaObeyed, DispatchReadsNobody,
         failed \subseteq failed', flag["media"] => flag'["media"],
         MediaLeft' => MediaLeft \/ flag'["media"] \/ "media" \in failed',
         num'["encoder_service"] = num["encoder_service"],
         \A k \in Numbers : table'[k] \in {table[k], Free},
         at'["media"] = "dispatch" =>
           \/ at["media"] = "dispatch"
           \/ LET n == num["encoder_service"]
              IN  n = NoNumber \/ table'[n] = Free,
         \A s \in strays' \ strays : s[1] # "dispatch"
  PROVE  MediaObeyed' /\ DispatchReadsNobody'
<1>1. num["encoder_service"] \in Numbers \cup {NoNumber}
  BY DEF Types, Owners
<1>2. MediaObeyed' BY <1>1 DEF MediaObeyed
<1>3. DispatchReadsNobody' BY DEF DispatchReadsNobody
<1> QED BY <1>2, <1>3

(* After the stop of the media context nothing is opened.                  *)
LEMMA OpeningObeys ==
  ASSUME Inv, MediaObeyed, DispatchReadsNobody,
         \/ \E c \in Contexts : OpenEvent(c) \/ InitService(c)
         \/ AudioInitFails \/ Accept \/ Frame
  PROVE  MediaObeyed' /\ DispatchReadsNobody'
<1> USE DEF Inv
<1>1. flag' = flag /\ strays' = strays /\ failed \subseteq failed'
  BY DEF OpenEvent, InitService, AudioInitFails, Accept, Frame, Fails
<1>2. DispatchReadsNobody' BY <1>1 DEF DispatchReadsNobody
<1>3. "media" \notin failed =>
        /\ at'["media"] # "dispatch"
        /\ MediaLeft' => flag["media"]
  <2>1. "media" \in Contexts BY DEF Contexts
  <2>2. CASE \E c \in Contexts : OpenEvent(c) \/ InitService(c)
    <3> PICK c \in Contexts : OpenEvent(c) \/ InitService(c)
      BY <2>2
    <3>1. CASE c = "media"
      BY <3>1, <2>1, CheckedPlace
      DEF OpenEvent, InitService, Go, Types, MediaLeft, Checked
    <3>2. CASE c # "media"
      <4>1. at'["media"] = at["media"]
        BY <3>2, <2>1 DEF OpenEvent, InitService, Go, Types
      <4>2. at[c] \in {"open", "init"} BY DEF OpenEvent, InitService
      <4>3. c \in {"main", "audio"} BY <3>2 DEF Contexts
      <4>4. flag["media"] => FALSE BY <4>2, <4>3 DEF Control
      <4> QED BY <4>1, <4>4 DEF MediaObeyed, MediaLeft
    <3> QED BY <3>1, <3>2
  <2>3. CASE AudioInitFails \/ Accept \/ Frame
    <3>1. /\ at'["media"] = at["media"]
          /\ at["audio"] = "init" \/ at["main"] \in {"accept", "loop"}
      BY <2>1, <2>3 DEF AudioInitFails, Accept, Frame, Go, Types
    <3>2. flag["media"] => FALSE BY <3>1 DEF Control
    <3> QED BY <3>1, <3>2 DEF MediaObeyed, MediaLeft
  <2> QED BY <2>2, <2>3
<1>4. MediaObeyed'
  <2> SUFFICES ASSUME "media" \notin failed'
      PROVE  /\ MediaLeft' => flag'["media"]
             /\ at'["media"] # "dispatch"
    BY DEF MediaObeyed
  <2>1. "media" \notin failed /\ flag' = flag BY <1>1
  <2>2. at'["media"] # "dispatch" /\ (MediaLeft' => flag["media"])
    BY <1>3, <2>1
  <2> QED BY <2>1, <2>2
<1> QED BY <1>2, <1>4

(* Closing, the encoder service's own on_uninit included, frees numbers.   *)
LEMMA ClosingObeys ==
  ASSUME Inv, MediaObeyed, DispatchReadsNobody,
         \/ \E c \in Contexts : Uninit(c) \/ CloseEvent(c)
         \/ CloseServer \/ DestroyServer \/ FrameEnds \/ Destroy
  PROVE  MediaObeyed' /\ DispatchReadsNobody'
<1> USE DEF Inv
<1>1. PICK op \in Places, o \in Owners :
        /\ Closed(op, o) /\ op # "dispatch"
        /\ num' = num \/ (Forgotten(o) /\ o # "encoder_service")
        /\ flag' = flag /\ failed' = failed
        /\ MediaLeft' => MediaLeft
        /\ at'["media"] = "dispatch" =>
             at["media"] = "dispatch" \/ o = "encoder_service"
  <2>1. "media" \in Contexts BY DEF Contexts
  <2>2. ASSUME NEW c \in Contexts, Uninit(c)
        PROVE  \E o \in Owners :
                 /\ Closed("uninit", o)
                 /\ num' = num \/ (Forgotten(o) /\ o # "encoder_service")
                 /\ flag' = flag /\ failed' = failed
                 /\ MediaLeft' => MediaLeft
                 /\ at'["media"] = "dispatch" =>
                      at["media"] = "dispatch" \/ o = "encoder_service"
    <3> DEFINE o == IF c = "main" THEN "drm_socket" ELSE ServiceOf[c]
    <3>1. o \in Owners /\ Closed("uninit", o)
      BY <2>2 DEF Uninit, Owners, Contexts, ServiceOf
    <3>2. num' = num \/ (Forgotten(o) /\ o # "encoder_service")
      BY <2>2 DEF Uninit, ServiceOf
    <3>3. flag' = flag /\ failed' = failed BY <2>2 DEF Uninit
    <3>4. /\ MediaLeft' => MediaLeft
          /\ c # "media" => at'["media"] = at["media"]
      BY <2>1, <2>2 DEF Uninit, Go, Types, MediaLeft
    <3>5. c = "media" => o = "encoder_service" BY DEF ServiceOf
    <3> HIDE DEF o
    <3> QED BY <3>1, <3>2, <3>3, <3>4, <3>5
  <2>3. ASSUME NEW c \in Contexts, CloseEvent(c)
        PROVE  /\ c \in Owners /\ Closed("close", c) /\ num' = num
               /\ flag' = flag /\ failed' = failed
               /\ MediaLeft' => MediaLeft
               /\ at'["media"] = "dispatch" => at["media"] = "dispatch"
    BY <2>1, <2>3, Names DEF CloseEvent, Go, Types, MediaLeft
  <2>4. ASSUME CloseServer \/ DestroyServer \/ FrameEnds \/ Destroy
        PROVE  /\ flag' = flag /\ failed' = failed
               /\ at'["media"] = at["media"]
               /\ \/ Closed("close_server", "server") /\ num' = num
                  \/ Closed("destroy_server", "server") /\ Forgotten("server")
                  \/ Closed("frame", "dma_buf") /\ Forgotten("dma_buf")
                  \/ Closed("destroy", "drm_socket") /\ Forgotten("drm_socket")
    BY <2>1, <2>4 DEF CloseServer, DestroyServer, FrameEnds, Destroy, Go,
       Types
  <2>5. /\ {"uninit", "close", "close_server", "destroy_server", "frame",
            "destroy"} \subseteq Places \ {"dispatch"}
        /\ {"server", "dma_buf", "drm_socket"} \subseteq Owners
    BY DEF Places, Owners
  <2> QED BY <2>2, <2>3, <2>4, <2>5 DEF MediaLeft
<1>2. num[o] \in Numbers \cup {NoNumber} BY DEF Types
<1>3. /\ \A s \in strays' \ strays : s[1] = op
      /\ \A k \in Numbers : table'[k] \in {table[k], Free}
      /\ num[o] # NoNumber => table'[num[o]] = Free
  BY <1>1, <1>2, ClosedAdds
<1>4. num'["encoder_service"] = num["encoder_service"]
  BY <1>1 DEF Forgotten, Types, Owners
<1> QED BY <1>1, <1>3, <1>4, NothingOpened

(* Writing opens nothing, and is no read.                                  *)
LEMMA WritingObeys ==
  ASSUME Inv, MediaObeyed, DispatchReadsNobody,
         \/ \E c \in Contexts : Notify(c) \/ Stop(c)
         \/ Flush \/ StopMedia
  PROVE  MediaObeyed' /\ DispatchReadsNobody'
<1> USE DEF Inv
<1>1. "media" \in Contexts BY DEF Contexts
<1>2. /\ UNCHANGED <<table, num, failed>>
      /\ flag["media"] => flag'["media"]
  BY <1>1 DEF Notify, Stop, StopMedia, Flush, StopFlag, StopWrite, Types
<1>3. /\ MediaLeft' => MediaLeft
      /\ at'["media"] # "dispatch" \/ at'["media"] = at["media"]
  BY <1>1 DEF Notify, Stop, StopMedia, Flush, StopFlag, StopWrite, Types, Go,
     MediaLeft, AfterStop, Control
<1>4. \A s \in strays' \ strays : s[1] # "dispatch"
  <2>1. \/ strays' = strays
        \/ \E op \in {"notify", "write_main", "write_audio", "write_media",
                      "flush"}, o \in Owners : Written(op, o)
    BY DEF Notify, Stop, StopMedia, Flush, StopFlag, StopWrite, Owners,
       Contexts
  <2> QED BY <2>1, WrittenAdds
<1>5. \A k \in Numbers : table'[k] \in {table[k], Free} BY <1>2
<1> QED BY <1>2, <1>3, <1>4, <1>5, NothingOpened

(* Every step preserves both, and the read finds its number free.          *)
LEMMA MediaObeyedStep ==
  ASSUME Inv, MediaObeyed, DispatchReadsNobody, [Next]_vars
  PROVE  MediaObeyed' /\ DispatchReadsNobody'
<1>0. "media" \in Contexts /\ Types BY DEF Contexts, Inv
<1>1. CASE \/ \E c \in Contexts : Obey(c) \/ Throw(c)
           \/ AcceptFails \/ HandleInterrupt \/ JoinAudio \/ JoinMedia
           \/ DispatchChunks \/ UNCHANGED vars
  <2>1. UNCHANGED <<table, num, flag, strays>> /\ failed \subseteq failed'
    BY <1>1 DEF Obey, Throw, AcceptFails, HandleInterrupt, JoinAudio,
       JoinMedia, DispatchChunks, vars, Fails
  <2>2. CASE \E c \in Contexts : Obey(c) \/ Throw(c)
    <3>1. /\ at'["media"] = "dispatch" => at["media"] = "dispatch"
          /\ MediaLeft' => MediaLeft \/ flag["media"] \/ "media" \in failed'
      BY <1>0, <2>2 DEF Obey, Throw, Fails, Go, Types, Checked, MediaLeft
    <3> QED BY <1>0, <2>1, <3>1, NothingOpened
  <2>3. CASE ~\E c \in Contexts : Obey(c) \/ Throw(c)
    <3>1. at'["media"] = at["media"]
      BY <1>0, <1>1, <2>3
      DEF AcceptFails, HandleInterrupt, JoinAudio, JoinMedia, DispatchChunks,
          vars, Go, Types
    <3>2. MediaLeft' => MediaLeft BY <3>1 DEF MediaLeft
    <3> QED BY <1>0, <2>1, <3>1, <3>2, NothingOpened
  <2> QED BY <2>2, <2>3
<1>2. CASE DispatchClosed
  <2>1. /\ UNCHANGED <<table, num, flag, failed>>
        /\ at["media"] = "dispatch" /\ at'["media"] = "close"
    BY <1>0, <1>2 DEF DispatchClosed, Go, Types
  <2>2. MediaObeyed' BY <2>1 DEF MediaObeyed, MediaLeft
  <2>3. "media" \in failed \/ strays' = strays
    BY <1>2, <2>1 DEF DispatchClosed, Read, MediaObeyed
  <2>4. failed' = failed BY <2>1
  <2>5. DispatchReadsNobody' BY <2>3, <2>4 DEF DispatchReadsNobody
  <2> QED BY <2>2, <2>5
<1>3. CASE \E c \in Contexts : Thread(c)
  <2> PICK c \in Contexts : Thread(c) BY <1>3
  <2>1. CASE OpenEvent(c) \/ InitService(c) BY <2>1, OpeningObeys
  <2>2. CASE Uninit(c) \/ CloseEvent(c) BY <2>2, ClosingObeys
  <2>3. CASE Notify(c) \/ Stop(c) BY <2>3, WritingObeys
  <2> QED BY <1>1, <2>1, <2>2, <2>3 DEF Thread
<1>4. CASE Main
  <2>1. CASE Accept \/ Frame BY <2>1, OpeningObeys
  <2>2. CASE CloseServer \/ DestroyServer \/ FrameEnds \/ Destroy
    BY <2>2, ClosingObeys
  <2>3. CASE Flush \/ StopMedia BY <2>3, WritingObeys
  <2> QED BY <1>1, <1>3, <1>4, <2>1, <2>2, <2>3 DEF Main, Contexts
<1>5. CASE Audio
  BY <1>1, <1>3, <1>5, OpeningObeys DEF Audio, Contexts
<1> QED BY <1>0, <1>1, <1>2, <1>3, <1>4, <1>5 DEF Next, Media

LEMMA InvImpliesSafe == Inv /\ DispatchReadsNobody => NumbersAreSafe
<1> SUFFICES ASSUME Inv, DispatchReadsNobody PROVE NumbersAreSafe
  OBVIOUS
<1> USE DEF Inv
<1>1. ASSUME NEW o \in Objects
      PROVE  Cardinality({n \in Numbers : table[n] = o}) <= 1
  <2> DEFINE S == {n \in Numbers : table[n] = o}
             n == CASE o = "output" -> 0 [] o = "signalfd" -> 1
                    [] OTHER -> num[o]
  <2>1. S \subseteq {n}
    BY Names DEF Table, Objects, Free
  <2>2. IsFiniteSet({n}) /\ Cardinality({n}) = 1 BY FS_Singleton
  <2> HIDE DEF S, n
  <2>3. Cardinality(S) <= Cardinality({n})
    BY <2>1, <2>2, FS_Subset
  <2> QED BY <2>2, <2>3 DEF S
<1>2. TypeOK BY <1>1 DEF TypeOK, Types
<1>3. OutputIntact BY Names DEF OutputIntact, Table
<1>4. NumbersAreKept
  <2>1. ASSUME NEW o \in InUse PROVE o \in Owners /\ Held(o)
    BY <2>1 DEF InUse, Held, MainUp, Owners, Contexts, ServiceOf, Control
  <2> QED BY <2>1 DEF NumbersAreKept, Holding, Keeps
<1> QED BY <1>2, <1>3, <1>4 DEF NumbersAreSafe

(* Stale numbers and second closes (UnixSocket, event_fd_, notify_fd_)     *)
(* never reach the output file or the signalfd; apart from the second      *)
(* close of the server socket they take no number from its user; the late  *)
(* calls after the joins hit nothing but a leaked descriptor; and the read *)
(* of the last dispatch hits nothing unless the media context has failed.  *)
(* For any set of failing contexts.                                        *)
THEOREM StaleNumbersAreHarmless == Spec => []NumbersAreSafe
<1>1. Init => MediaObeyed /\ DispatchReadsNobody
  BY DEF Init, MediaObeyed, DispatchReadsNobody, MediaLeft, Contexts
<1> QED BY <1>1, MediaObeyedStep, InvHolds, InvImpliesSafe, PTL DEF Spec

(* SC_EXPECT in dispatch_chunks does not end the process because of a      *)
(* stale write, unless a context has failed or a number was taken.         *)
THEOREM NoAbortWithoutFailure == Spec => []AbortsOnlyAfterFailure
<1>1. Inv => AbortsOnlyAfterFailure BY DEF Inv
<1> QED BY <1>1, InvHolds, PTL
=============================================================================
