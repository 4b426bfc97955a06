---------------------------- MODULE Descriptors -----------------------------
(***************************************************************************)
(* File descriptor numbers in a session.  Three threads open and close     *)
(* descriptors, the system hands out the lowest free number, and several   *)
(* owners keep a number after closing it: a context's event_fd_, which     *)
(* request_stop still writes to (services/context.cpp), the encoder        *)
(* service's notify_fd_, which is written to and read after the close, and *)
(* UnixSocket, which closes its number again in its destructor             *)
(* (io/unix_socket.cpp).                                                   *)
(*                                                                         *)
(* The output file and the signalfd are opened before the threads start.   *)
(***************************************************************************)
EXTENDS Integers, FiniteSets, FiniteSetsExt

CONSTANTS
  Failures,    \* contexts that may throw
  MaxFailures  \* how many of them do, in one session

Contexts == {"main", "audio", "media"}
Owners == Contexts \cup {"audio_service", "encoder_service", "server",
                         "drm_socket", "dma_buf"}
Free == "free"
Objects == Owners \cup {"output", "signalfd"}
Numbers == 0 .. Cardinality(Objects) - 1
NoNumber == -1

ASSUME FailuresAssumption ==
  Failures \subseteq Contexts /\ MaxFailures \in Nat

VARIABLES
  wayland, \* the main context has the DRM service
  table,   \* what each number refers to
  num,     \* the number each owner holds
  flag,    \* stop_requested_ of each context
  at,      \* where each context's thread is
  handler, \* main runs the SIGINT handler
  interrupted, \* main has read a SIGINT
  failed,  \* contexts that threw
  poked,   \* the audio service's number was written to by a stranger
  strays,  \* history: <<operation, victim>>, the ones worth noting
  aborted  \* SC_EXPECT in dispatch_chunks has failed

vars == <<wayland, table, num, flag, at, handler, interrupted, failed,
          poked, strays, aborted>>

Places == {"open", "init", "accept", "close_server", "destroy_server", "loop",
           "frame", "uninit", "dispatch", "close", "flag_main", "write_main",
           "flag_audio", "write_audio", "join_audio", "flush", "flag_media",
           "write_media", "join_media", "destroy", "ended"}

(* Descriptors, numbers and threads are in range, and no owner has two     *)
(* descriptors open: nothing that a frame or a service opens piles up.     *)
TypeOK ==
  /\ wayland \in BOOLEAN
  /\ table \in [Numbers -> Objects \cup {Free}]
  /\ num \in [Owners -> Numbers \cup {NoNumber}]
  /\ flag \in [Contexts -> BOOLEAN]
  /\ at \in [Contexts -> Places]
  /\ handler \in BOOLEAN
  /\ interrupted \in BOOLEAN
  /\ failed \subseteq Failures
  /\ poked \in BOOLEAN
  /\ strays \subseteq (Places \cup {"notify"}) \X Objects
  /\ aborted \in BOOLEAN
  /\ \A o \in Objects : Cardinality({n \in Numbers : table[n] = o}) <= 1

(* Every member that keeps a number starts at -1.                          *)
NeverOpened == NoNumber

Init ==
  /\ wayland \in BOOLEAN
  /\ table = [n \in Numbers |-> CASE n = 0 -> "output"
                                  [] n = 1 -> "signalfd"
                                  [] OTHER -> Free]
  /\ num = [o \in Owners |-> NeverOpened]
  /\ flag = [c \in Contexts |-> FALSE]
  /\ at = [c \in Contexts |-> "open"]
  /\ handler = FALSE
  /\ interrupted = FALSE
  /\ failed = {}
  /\ poked = FALSE
  /\ strays = {}
  /\ aborted = FALSE

-----------------------------------------------------------------------------
(* The system calls.                                                       *)

Opened(o) ==
  LET n == Min({k \in Numbers : table[k] = Free})
  IN  /\ table' = [table EXCEPT ![n] = o]
      /\ num' = [num EXCEPT ![o] = n]

(* What a call on another owner's descriptor leaves in the history: its    *)
(* victim if that must never happen, or if the call comes late.            *)
Noted(operation, victim) ==
  IF victim \in {"output", "signalfd"}
     \/ operation \in {"destroy_server", "dispatch", "flush", "write_media",
                       "destroy"}
  THEN strays \cup {<<operation, victim>>} ELSE strays

(* close(num[o]), whatever the number means by now.                        *)
Closed(operation, o) ==
  LET n == num[o]
  IN  /\ table' = IF n = NoNumber THEN table
                  ELSE [table EXCEPT ![n] = Free]
      /\ strays' = IF n = NoNumber \/ table[n] \in {o, Free} THEN strays
                   ELSE Noted(operation, table[n])

(* write(num[o], ...).  The audio thread takes what its number counts for  *)
(* chunks of audio.                                                        *)
Written(operation, o) ==
  LET n == num[o]
      hits == n # NoNumber /\ table[n] # Free
  IN  /\ strays' = IF hits /\ table[n] # o
                   THEN Noted(operation, table[n]) ELSE strays
      /\ poked' = (poked \/ (hits /\ n = num["audio_service"]))

(* read(num[o], ...).  From an eventfd it takes the whole count.           *)
Read(operation, o) ==
  LET n == num[o]
      hits == n # NoNumber /\ table[n] # Free
  IN  /\ strays' = IF hits /\ table[n] # o
                   THEN Noted(operation, table[n]) ELSE strays
      /\ poked' = (poked /\ ~(hits /\ n = num["audio_service"]))

(* The object that kept the number is gone.                                *)
Forgotten(o) == num' = [num EXCEPT ![o] = NoNumber]

Fails(c) ==
  /\ c \in Failures
  /\ Cardinality(failed) < MaxFailures
  /\ failed' = failed \cup {c}

Go(c, place) == at' = [at EXCEPT ![c] = place]

(* The loop's check of the flag.  A turn it lets begin runs to its end,    *)
(* also when the flag is set meanwhile.                                    *)
Checked(c) == IF flag[c] THEN "uninit" ELSE "loop"

-----------------------------------------------------------------------------
(* Context::run.                                                           *)

OpenEvent(c) ==
  /\ at[c] = "open"
  /\ Opened(c)
  /\ Go(c, IF c = "main" /\ ~wayland THEN Checked(c) ELSE "init")
  /\ UNCHANGED <<flag, handler, interrupted, failed, poked, strays, aborted>>

(* on_init of the audio and the encoder service, and socket::bind in the   *)
(* DRM service's.                                                          *)
ServiceOf == [main |-> "server", audio |-> "audio_service",
              media |-> "encoder_service"]

InitService(c) ==
  /\ at[c] = "init"
  /\ Opened(ServiceOf[c])
  /\ Go(c, IF c = "main" THEN "accept" ELSE Checked(c))
  /\ UNCHANGED <<flag, handler, interrupted, failed, poked, strays, aborted>>

(* start_pipewire throws after the descriptor is open; nothing closes it.  *)
AudioInitFails ==
  /\ at["audio"] = "init"
  /\ Opened("audio_service")
  /\ Fails("audio")
  /\ Go("audio", "close")
  /\ UNCHANGED <<flag, handler, interrupted, poked, strays, aborted>>

(* The helper connects, or on_init is about to throw.                      *)
Accept ==
  /\ at["main"] = "accept"
  /\ Opened("drm_socket")
  /\ Go("main", "close_server")
  /\ UNCHANGED <<flag, handler, interrupted, failed, poked, strays, aborted>>

AcceptFails ==
  /\ at["main"] = "accept"
  /\ Fails("main")
  /\ Go("main", "close_server")
  /\ UNCHANGED <<table, num, flag, handler, interrupted, poked, strays,
                 aborted>>

(* The guard closes the server socket and unlinks its path ...             *)
CloseServer ==
  /\ at["main"] = "close_server"
  /\ Closed("close_server", "server")
  /\ Go("main", "destroy_server")
  /\ UNCHANGED <<num, flag, handler, interrupted, failed, poked, aborted>>

(* ... and its destructor closes the number again.                         *)
DestroyServer ==
  /\ at["main"] = "destroy_server"
  /\ Closed("destroy_server", "server")
  /\ Forgotten("server")
  /\ Go("main", IF "main" \in failed THEN "close" ELSE Checked("main"))
  /\ UNCHANGED <<flag, handler, interrupted, failed, poked, aborted>>

(* A descriptor that came with a reply, closed by the frame's guard.       *)
Frame ==
  /\ at["main"] = "loop"
  /\ wayland
  /\ Opened("dma_buf")
  /\ Go("main", "frame")
  /\ UNCHANGED <<flag, handler, interrupted, failed, poked, strays, aborted>>

FrameEnds ==
  /\ at["main"] = "frame"
  /\ Closed("frame", "dma_buf")
  /\ Forgotten("dma_buf")
  /\ Go("main", "loop")
  /\ UNCHANGED <<flag, handler, interrupted, failed, poked, aborted>>

(* EncoderService::write_frame from a handler of c.                        *)
Notify(c) ==
  /\ c \in {"main", "audio"}
  /\ at[c] = "loop"
  /\ Written("notify", "encoder_service")
  /\ UNCHANGED <<table, num, flag, at, handler, interrupted, failed, aborted>>

(* A turn ends.                                                            *)
Obey(c) ==
  /\ at[c] = "loop"
  /\ flag[c]
  /\ Go(c, Checked(c))
  /\ UNCHANGED <<table, num, flag, handler, interrupted, failed, poked, strays,
                 aborted>>

Throw(c) ==
  /\ at[c] = "loop"
  /\ Fails(c)
  /\ Go(c, "uninit")
  /\ UNCHANGED <<table, num, flag, handler, interrupted, poked, strays,
                 aborted>>

(* dispatch_chunks believes the count: there are not that many samples.    *)
DispatchChunks ==
  /\ at["audio"] = "loop"
  /\ poked
  /\ aborted' = TRUE
  /\ UNCHANGED <<table, num, flag, at, handler, interrupted, failed, poked,
                 strays>>

(* on_uninit; only the audio service forgets its number.  What its         *)
(* descriptor counted goes with it.                                        *)
Uninit(c) ==
  /\ at[c] = "uninit"
  /\ Closed("uninit", IF c = "main" THEN "drm_socket" ELSE ServiceOf[c])
  /\ IF c = "audio" THEN Forgotten("audio_service") ELSE UNCHANGED num
  /\ Go(c, IF c = "media" THEN "dispatch" ELSE "close")
  /\ poked' = (poked /\ c # "audio")
  /\ UNCHANGED <<flag, handler, interrupted, failed, aborted>>

(* The encoder service's on_uninit then calls dispatch, which reads from   *)
(* the number it has closed.                                               *)
DispatchClosed ==
  /\ at["media"] = "dispatch"
  /\ Read("dispatch", "encoder_service")
  /\ Go("media", "close")
  /\ UNCHANGED <<table, num, flag, handler, interrupted, failed, aborted>>

(* run()'s guard.                                                          *)
CloseEvent(c) ==
  /\ at[c] = "close"
  /\ Closed("close", c)
  /\ Go(c, "flag_main")
  /\ UNCHANGED <<num, flag, handler, interrupted, failed, poked, aborted>>

-----------------------------------------------------------------------------
(* Stopping.                                                               *)

(* dispatch_signal reads a SIGINT and calls run_loop's handler, which      *)
(* stops main and audio.  One that waits in the signalfd has no effect.    *)
HandleInterrupt ==
  /\ at["main"] = "loop"
  /\ ~interrupted
  /\ interrupted' = TRUE
  /\ handler' = TRUE
  /\ Go("main", "flag_main")
  /\ UNCHANGED <<table, num, flag, failed, poked, strays, aborted>>

(* request_stop on main and then on audio, by the handler or by the scope  *)
(* guard of a thread that has left run().                                  *)
StopFlag(c, target, place, next) ==
  /\ at[c] = place
  /\ flag' = [flag EXCEPT ![target] = TRUE]
  /\ Go(c, next)
  /\ UNCHANGED <<table, num, handler, interrupted, failed, poked, strays,
                 aborted>>

StopWrite(c, target, place, next) ==
  /\ at[c] = place
  /\ Written(place, target)
  /\ Go(c, next)
  /\ handler' = (handler /\ next # "loop")
  /\ UNCHANGED <<table, num, flag, interrupted, failed, aborted>>

AfterStop(c) ==
  IF c # "main" THEN "ended" ELSE IF handler THEN "loop" ELSE "join_audio"

(* Fault: the handler stops main only.                                     *)
StopOnlyMain(c) ==
  \/ StopFlag(c, "main", "flag_main", "write_main")
  \/ StopWrite(c, "main", "write_main",
               IF handler THEN "loop" ELSE "flag_audio")
  \/ StopFlag(c, "audio", "flag_audio", "write_audio")
  \/ StopWrite(c, "audio", "write_audio", AfterStop(c))

Stop(c) ==
  \/ StopFlag(c, "main", "flag_main", "write_main")
  \/ StopWrite(c, "main", "write_main", "flag_audio")
  \/ StopFlag(c, "audio", "flag_audio", "write_audio")
  \/ StopWrite(c, "audio", "write_audio", AfterStop(c))

-----------------------------------------------------------------------------
(* The end of run_loop, and the destructors of run_wayland.                *)

JoinAudio ==
  /\ at["main"] = "join_audio"
  /\ at["audio"] = "ended"
  /\ Go("main", "flush")
  /\ UNCHANGED <<table, num, flag, handler, interrupted, failed, poked, strays,
                 aborted>>

(* Each Encoder::flush ends in write_frame, unless it throws.              *)
Flush ==
  /\ at["main"] = "flush"
  /\ Written("flush", "encoder_service") \/ UNCHANGED <<poked, strays>>
  /\ \E next \in {"flush", "flag_media"} : Go("main", next)
  /\ UNCHANGED <<table, num, flag, handler, interrupted, failed, aborted>>

StopMedia ==
  \/ StopFlag("main", "media", "flag_media", "write_media")
  \/ StopWrite("main", "media", "write_media", "join_media")

(* Fault: the services are destroyed while the media thread still runs.    *)
JoinMediaEarly ==
  /\ at["main"] = "join_media"
  /\ Go("main", "destroy")
  /\ UNCHANGED <<table, num, flag, handler, interrupted, failed, poked, strays,
                 aborted>>

JoinMedia ==
  /\ at["main"] = "join_media"
  /\ at["media"] = "ended"
  /\ Go("main", "destroy")
  /\ UNCHANGED <<table, num, flag, handler, interrupted, failed, poked, strays,
                 aborted>>

(* ~DRMVideoService closes drm_socket_, a second time unless on_init threw.*)
Destroy ==
  /\ at["main"] = "destroy"
  /\ Closed("destroy", "drm_socket")
  /\ Forgotten("drm_socket")
  /\ Go("main", "ended")
  /\ UNCHANGED <<flag, handler, interrupted, failed, poked, aborted>>

-----------------------------------------------------------------------------

Thread(c) ==
  \/ OpenEvent(c) \/ InitService(c) \/ Notify(c) \/ Obey(c) \/ Throw(c)
  \/ Uninit(c) \/ CloseEvent(c) \/ Stop(c)

Main ==
  \/ Thread("main")
  \/ Accept \/ AcceptFails \/ CloseServer \/ DestroyServer
  \/ Frame \/ FrameEnds \/ HandleInterrupt
  \/ JoinAudio \/ Flush \/ StopMedia \/ JoinMedia \/ Destroy

Audio == Thread("audio") \/ AudioInitFails \/ DispatchChunks

Media == Thread("media") \/ DispatchClosed

Next ==
  /\ ~aborted
  /\ Main \/ Audio \/ Media
  /\ UNCHANGED wayland

Spec == Init /\ [][Next]_vars

-----------------------------------------------------------------------------

(* Neither a stale number nor a second close ever reaches the output file  *)
(* or the signalfd, and both stay open until the threads are joined.       *)
OutputIntact ==
  /\ table[0] = "output"
  /\ table[1] = "signalfd"
  /\ \A s \in strays : s[2] \notin {"output", "signalfd"}

(* The descriptors an owner is using.                                      *)
InUse ==
  {c \in Contexts : at[c] \in {"init", "accept", "loop", "frame"}}
    \cup {ServiceOf[c] : c \in {d \in {"audio", "media"} : at[d] = "loop"}}

(* The destructor of the DRM service's server socket has closed a number   *)
(* that was given to another thread since the first close.                 *)
Taken == \E s \in strays : s[1] = "destroy_server"

(* That second close is the only way a number in use is taken from its     *)
(* owner, in whatever order the threads start, fail and stop.              *)
NumbersAreKept ==
  ~Taken => \A o \in InUse : num[o] # NoNumber /\ table[num[o]] = o

(* The second close of drm_socket_, the encoder's last notification and    *)
(* the stop of the media context come when nobody can have been given      *)
(* their numbers, except for the descriptor that an audio service leaks    *)
(* when its on_init throws.                                                *)
LateCallsHitNothing ==
  ~Taken => \A s \in strays : s[1] \in {"destroy", "write_media", "flush"} =>
                               s[2] = "audio_service" /\ "audio" \in failed

(* The last dispatch's read from a closed number takes nobody's data, no   *)
(* stop and no SIGINT, unless the media context itself has failed: after a *)
(* stop nobody opens anything between the close and the read.              *)
DispatchReadsNobody ==
  \A s \in strays : s[1] = "dispatch" => "media" \in failed

(* A stale write can make the audio thread count chunks that do not exist, *)
(* and SC_EXPECT then ends the process with the output unfinished.  Unless *)
(* a number was taken that needs a context that failed: Ctrl-C alone never *)
(* does it.                                                                *)
AbortsOnlyAfterFailure == aborted => Taken \/ failed # {}

(* What stale numbers and second closes can do: nothing to the output, and *)
(* nothing to a number in use but for the one case of Taken.               *)
NumbersAreSafe ==
  /\ TypeOK
  /\ OutputIntact
  /\ NumbersAreKept
  /\ LateCallsHitNothing
  /\ DispatchReadsNobody
=============================================================================
