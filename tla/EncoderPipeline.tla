--------------------------- MODULE EncoderPipeline ---------------------------
(***************************************************************************)
(* From captured frames to packets in the file: Encoder and EncoderService *)
(* (services/encoder.cpp, encoder_service.cpp), the pool of StreamPoll     *)
(* items (utils/pool.hpp), the frame handlers that write to them and the   *)
(* end of run_loop (main.cpp) that flushes the codecs.                     *)
(*                                                                         *)
(* Three threads: "main" captures video and, when capture is over, flushes *)
(* both codecs; "audio" captures audio; the media thread dispatches.       *)
(* data_mutex_ makes write_frame's send and push, dispatch's splice and    *)
(* each avcodec_receive_packet one step each; the pool's mutex does so for *)
(* get() and put().                                                        *)
(*                                                                         *)
(* A frame is its pts.  A codec (external) is the queue of the frames it   *)
(* has accepted and not yet given back: it keeps up to Delay frames until  *)
(* it is drained, holds one finished packet and one frame more, and        *)
(* refuses what is sent to it then.                                        *)
(***************************************************************************)
EXTENDS Integers, Sequences, FiniteSets

CONSTANTS
  PoolSize,      \* kInitialPoolSize
  Delay,         \* frames a codec holds back
  MaxFrames,     \* bound: frames captured of each stream
  MediaMayFail   \* eventfd, codec or muxer calls of the media thread may fail

ASSUME ConstantsAssumption ==
  /\ PoolSize \in Nat
  /\ Delay \in Nat
  /\ MaxFrames \in [{"video", "audio"} -> Nat]
  /\ MediaMayFail \in BOOLEAN

Streams == {"video", "audio"}
Writers == {"main", "audio"}
NoPoll == <<>>

VARIABLES
  phase,      \* what main and audio are doing with their lives
  hand,       \* step of write_frame each writer is in
  held,       \* the StreamPoll each writer has from prepare_frame
  produced,   \* frames captured per stream (the next pts)
  ex,         \* ex of run_loop: the first exception's kind, or "none"
  allocated,  \* StreamPoll objects constructed so far: 1 .. allocated
  freed,      \* those that pool_.clear() has destroyed
  pool,       \* pool_list_
  pending,    \* pending_
  tmp,        \* dispatch's local list
  cursor,     \* dispatch's place in it
  packet,     \* packet_: none (<<>>) or <<stream, pts>>
  notify_fd,  \* "none", "open" or "closed"
  counter,    \* value of its eventfd
  unheard,    \* history: pending items whose event went to no eventfd
  media,      \* where the media thread is
  closing,    \* it is in on_uninit
  thrown,     \* the current dispatch has thrown
  failed,     \* history: some dispatch or on_init has thrown
  media_stop, \* media.request_stop() was called
  codec,      \* accepted frames each codec still has
  draining,   \* codecs that have taken a flush
  accepted,   \* history: frames each codec has accepted
  file,       \* packets written per stream
  trailer     \* av_write_trailer was called

writerVars == <<phase, hand, held, produced, ex>>
itemVars   == <<allocated, freed, pool>>
mediaVars  == <<media, tmp, cursor, packet, closing, thrown, failed>>
eventVars  == <<notify_fd, counter, unheard>>
codecVars  == <<codec, draining, accepted>>
vars == <<writerVars, itemVars, mediaVars, eventVars, codecVars,
          pending, media_stop, file, trailer>>

Items == 1 .. allocated
Elements(s) == {s[i] : i \in 1 .. Len(s)}

(* A StreamPoll in use: which object it is, and its stream and codec.      *)
Polls == [item : Items, stream : Streams]
ItemsOf(polls) == [i \in 1 .. Len(polls) |-> polls[i].item]

TypeOK ==
  /\ phase \in [Writers -> {"capture", "joining", "flush_video",
                            "flush_audio", "done"}]
  /\ hand \in [Writers -> {"idle", "held", "pushed"}]
  /\ held \in [Writers -> Polls \cup {NoPoll}]
  /\ produced \in [Streams -> Nat]
  /\ ex \in {"none", "std", "pointer"}
  /\ allocated \in Nat
  /\ freed \subseteq Items
  /\ pool \in Seq(Items) /\ pending \in Seq(Polls) /\ tmp \in Seq(Polls)
  /\ cursor \in 1 .. Len(tmp) + 1
  /\ packet = <<>> \/ packet \in Streams \X Nat
  /\ notify_fd \in {"none", "open", "closed"}
  /\ counter \in Nat
  /\ unheard \subseteq Polls
  /\ media \in {"start", "polling", "splice", "drain", "write", "return",
                "clear", "ended"}
  /\ {closing, thrown, failed, media_stop, trailer} \subseteq BOOLEAN
  /\ draining \subseteq Streams
  /\ \A f \in {codec, accepted, file} : f \in [Streams -> Seq(Nat)]

Init ==
  /\ phase = [w \in Writers |-> "capture"]
  /\ hand = [w \in Writers |-> "idle"]
  /\ held = [w \in Writers |-> NoPoll]
  /\ produced = [s \in Streams |-> 0]
  /\ ex = "none"
  /\ allocated = 0
  /\ freed = {}
  /\ pool = <<>> /\ pending = <<>> /\ tmp = <<>>
  /\ cursor = 1
  /\ packet = <<>>
  /\ notify_fd = "none"
  /\ counter = 0
  /\ unheard = {}
  /\ media = "start"
  /\ closing = FALSE /\ thrown = FALSE /\ failed = FALSE
  /\ media_stop = FALSE
  /\ codec = [s \in Streams |-> <<>>]
  /\ draining = {}
  /\ accepted = [s \in Streams |-> <<>>]
  /\ file = [s \in Streams |-> <<>>]
  /\ trailer = FALSE

-----------------------------------------------------------------------------
(* The codecs (libavcodec).                                                *)

CodecCanTake(s) == s \notin draining /\ Len(codec[s]) < Delay + 2

CodecHasPacket(s) ==
  IF s \in draining THEN codec[s] # <<>> ELSE Len(codec[s]) > Delay

-----------------------------------------------------------------------------
(* The writers: frame handlers during capture, Encoder::flush after it.    *)

(* A catch block of run_loop: the first exception stays.  It is noted here *)
(* when it is thrown; what is thrown meanwhile could have come first.      *)
Kept(kind) == IF ex = "none" THEN kind ELSE ex

Capturing(w) == phase[w] = "capture"
Flushing(w)  == phase[w] \in {"flush_video", "flush_audio"}

StreamOf(w) ==
  IF w = "audio" \/ phase[w] = "flush_audio" THEN "audio" ELSE "video"

(* Encoder::prepare_frame: Pool::get takes the front of the list, or       *)
(* constructs an item when it is empty.                                    *)
PrepareFrame(w) ==
  /\ \/ Capturing(w) /\ produced[StreamOf(w)] < MaxFrames[StreamOf(w)]
     \/ Flushing(w)
  /\ hand[w] = "idle"
  /\ hand' = [hand EXCEPT ![w] = "held"]
  /\ \/ /\ pool # <<>>
        /\ held' = [held EXCEPT ![w] =
                       [item |-> Head(pool), stream |-> StreamOf(w)]]
        /\ pool' = Tail(pool)
        /\ UNCHANGED allocated
     \/ /\ pool = <<>>
        /\ held' = [held EXCEPT ![w] =
                       [item |-> allocated + 1, stream |-> StreamOf(w)]]
        /\ allocated' = allocated + 1
        /\ UNCHANGED pool
  /\ UNCHANGED <<phase, produced, ex, freed, mediaVars, eventVars, codecVars,
                 pending, media_stop, file, trailer>>

(* A handler throws before write_frame (no hardware frame, failed copy):   *)
(* the item's deleter puts it back, the context's loop ends.               *)
HandlerThrows(w) ==
  /\ Capturing(w)
  /\ hand[w] = "held"
  /\ pool' = Append(pool, held[w].item)
  /\ held' = [held EXCEPT ![w] = NoPoll]
  /\ hand' = [hand EXCEPT ![w] = "idle"]
  /\ phase' = [phase EXCEPT ![w] = IF w = "main" THEN "joining" ELSE "done"]
  /\ ex' = Kept("std")
  /\ UNCHANGED <<produced, allocated, freed, mediaVars, eventVars,
                 codecVars, pending, media_stop, file, trailer>>

(* EncoderService::write_frame under data_mutex_.  What the codec says to  *)
(* the frame, or to the flush, is ignored.                                 *)
WriteFrame(w) ==
  LET s == held[w].stream IN
  /\ hand[w] = "held"
  /\ hand' = [hand EXCEPT ![w] = "pushed"]
  /\ IF Flushing(w)
     THEN /\ draining' =
               IF CodecCanTake(s) THEN draining \cup {s} ELSE draining
          /\ UNCHANGED <<codec, accepted, produced>>
     ELSE /\ produced' = [produced EXCEPT ![s] = @ + 1]
          /\ codec' = IF CodecCanTake(s)
                      THEN [codec EXCEPT ![s] = Append(@, produced[s])]
                      ELSE codec
          /\ accepted' = IF CodecCanTake(s)
                         THEN [accepted EXCEPT ![s] = Append(@, produced[s])]
                         ELSE accepted
          /\ UNCHANGED draining
  /\ pending' = Append(pending, held[w])
  /\ UNCHANGED <<phase, held, ex, itemVars, mediaVars, eventVars, media_stop,
                 file, trailer>>

(* Fault: the session is over without a stop for the media context.        *)
StopNever(w) == FALSE

(* run_loop calls media.request_stop() once both flushes are written.      *)
StopsMedia(w) == phase[w] = "flush_audio"

AfterFlush(p) == CASE p = "flush_video" -> "flush_audio"
                   [] p = "flush_audio" -> "done"
                   [] OTHER -> p

(* The rest of write_frame: the event.  Without an open eventfd the write  *)
(* fails, and is ignored.  After the last flush run_loop stops the media   *)
(* context.                                                                *)
NotifyEncoder(w) ==
  /\ hand[w] = "pushed"
  /\ hand' = [hand EXCEPT ![w] = "idle"]
  /\ held' = [held EXCEPT ![w] = NoPoll]
  /\ IF notify_fd = "open"
     THEN counter' = counter + 1 /\ UNCHANGED unheard
     ELSE unheard' = unheard \cup (Elements(pending) \cap {held[w]})
          /\ UNCHANGED counter
  /\ phase' = [phase EXCEPT ![w] = AfterFlush(@)]
  /\ media_stop' = (media_stop \/ StopsMedia(w))
  /\ UNCHANGED <<produced, ex, itemVars, mediaVars, notify_fd, codecVars,
                 pending, file, trailer>>

(* Encoder::flush throws: the pool is empty and there is no memory for an  *)
(* item.  run_loop goes on behind its try block, past the other flush.     *)
FlushThrows ==
  /\ Flushing("main")
  /\ hand["main"] = "idle"
  /\ pool = <<>>
  /\ ex' = Kept("std")
  /\ phase' = [phase EXCEPT !["main"] = "done"]
  /\ media_stop' = TRUE
  /\ UNCHANGED <<hand, held, produced, itemVars, mediaVars, eventVars,
                 codecVars, pending, file, trailer>>

(* A capture context leaves its loop: a stop was requested, something else *)
(* than a frame handler has thrown, or DRMVideoService::on_init has, a     *)
(* pointer, before the first frame.                                        *)
EndCapture(w) ==
  /\ Capturing(w)
  /\ hand[w] = "idle"
  /\ phase' = [phase EXCEPT ![w] = IF w = "main" THEN "joining" ELSE "done"]
  /\ \/ ex' = ex
     \/ ex' = Kept("std")
     \/ w = "main" /\ produced["video"] = 0 /\ ex' = Kept("pointer")
  /\ UNCHANGED <<hand, held, produced, itemVars, mediaVars, eventVars,
                 codecVars, pending, media_stop, file, trailer>>

(* Fault: run_loop flushes without joining the audio thread.               *)
JoinNobody ==
  /\ phase["main"] = "joining"
  /\ phase' = [phase EXCEPT !["main"] = "flush_video"]
  /\ UNCHANGED <<hand, held, produced, ex, itemVars, mediaVars, eventVars,
                 codecVars, pending, media_stop, file, trailer>>

(* audio_thread.join() returns.                                            *)
JoinAudio ==
  /\ phase["main"] = "joining"
  /\ phase["audio"] = "done"
  /\ phase' = [phase EXCEPT !["main"] = "flush_video"]
  /\ UNCHANGED <<hand, held, produced, ex, itemVars, mediaVars, eventVars,
                 codecVars, pending, media_stop, file, trailer>>

(* media_thread.join() returns; the scope guard of run or run_wayland      *)
(* writes the trailer on the way out, with or without a std::exception.    *)
(* A pointer is rethrown too and caught by nobody: the process terminates  *)
(* without unwinding, and that guard never runs.                           *)
WriteTrailer ==
  /\ phase["main"] = "done"
  /\ media = "ended"
  /\ ex # "pointer"
  /\ ~trailer
  /\ trailer' = TRUE
  /\ UNCHANGED <<writerVars, itemVars, mediaVars, eventVars, codecVars,
                 pending, media_stop, file>>

-----------------------------------------------------------------------------
(* The media thread.                                                       *)

(* on_init: the eventfd, then pool_.fill.  A get() between two put() calls *)
(* of fill takes an item or constructs one, as it does before or after.    *)
OnInit ==
  LET new == [i \in 1 .. PoolSize |-> allocated + i] IN
  /\ media = "start"
  /\ media' = "polling"
  /\ notify_fd' = "open"
  /\ allocated' = allocated + PoolSize
  /\ pool' = pool \o new
  /\ UNCHANGED <<writerVars, freed, tmp, cursor, packet, closing, thrown,
                 failed, counter, unheard, codecVars, pending, media_stop,
                 file, trailer>>

(* eventfd fails in on_init, which throws a pointer: Context::run rethrows *)
(* it without uninitialising the service.                                  *)
OnInitThrows ==
  /\ MediaMayFail
  /\ media = "start"
  /\ media' = "ended"
  /\ failed' = TRUE
  /\ ex' = Kept("pointer")
  /\ UNCHANGED <<phase, hand, held, produced, itemVars, tmp, cursor, packet,
                 closing, thrown, eventVars, codecVars, pending, media_stop,
                 file, trailer>>

(* ppoll reports notify_fd_; dispatch reads it.                            *)
DispatchRead ==
  /\ media = "polling"
  /\ counter > 0
  /\ counter' = 0
  /\ media' = "splice"
  /\ UNCHANGED <<writerVars, itemVars, tmp, cursor, packet, closing, thrown,
                 failed, notify_fd, unheard, codecVars, pending, media_stop,
                 file, trailer>>

(* dispatch takes all of pending_, in order, under data_mutex_.            *)
DispatchSplice ==
  /\ media = "splice"
  /\ media' = "drain"
  /\ tmp' = pending
  /\ pending' = <<>>
  /\ cursor' = 1
  /\ unheard' = {}
  /\ UNCHANGED <<writerVars, itemVars, packet, closing, thrown, failed,
                 notify_fd, counter, codecVars, media_stop, file, trailer>>

(* avcodec_receive_packet under data_mutex_, for the item at the cursor.   *)
DispatchReceive ==
  LET s == tmp[cursor].stream IN
  /\ media = "drain"
  /\ cursor <= Len(tmp)
  /\ CodecHasPacket(s)
  /\ packet' = <<s, Head(codec[s])>>
  /\ codec' = [codec EXCEPT ![s] = Tail(@)]
  /\ media' = "write"
  /\ UNCHANGED <<writerVars, itemVars, tmp, cursor, closing, thrown, failed,
                 eventVars, draining, accepted, pending, media_stop, file,
                 trailer>>

(* Fault: a packet is dropped on its way out.                              *)
WriteMayDrop ==
  /\ media = "write"
  /\ \/ file' = [file EXCEPT ![packet[1]] = Append(@, packet[2])]
     \/ media_stop /\ UNCHANGED file
  /\ packet' = <<>>
  /\ media' = "drain"
  /\ UNCHANGED <<writerVars, itemVars, tmp, cursor, closing, thrown, failed,
                 eventVars, codecVars, pending, media_stop, trailer>>

(* EAGAIN or end of file: the next item.                                   *)
DispatchAgain ==
  /\ media = "drain"
  /\ cursor <= Len(tmp)
  /\ ~CodecHasPacket(tmp[cursor].stream)
  /\ cursor' = cursor + 1
  /\ UNCHANGED <<writerVars, itemVars, media, tmp, packet, closing, thrown,
                 failed, eventVars, codecVars, pending, media_stop, file,
                 trailer>>

(* av_interleaved_write_frame; a successful receive repeats the loop.      *)
DispatchWrite ==
  /\ media = "write"
  /\ file' = [file EXCEPT ![packet[1]] = Append(@, packet[2])]
  /\ packet' = <<>>
  /\ media' = "drain"
  /\ UNCHANGED <<writerVars, itemVars, tmp, cursor, closing, thrown, failed,
                 eventVars, codecVars, pending, media_stop, trailer>>

(* The codec or the muxer reports an error: dispatch throws, and           *)
(* ReturnToPoolGuard runs.  on_uninit swallows what its dispatch throws.   *)
DispatchThrows ==
  /\ MediaMayFail
  /\ (media = "drain" /\ cursor <= Len(tmp)) \/ media = "write"
  /\ media' = "return"
  /\ thrown' = TRUE
  /\ failed' = TRUE
  /\ ex' = IF closing THEN ex ELSE Kept("std")
  /\ UNCHANGED <<phase, hand, held, produced, itemVars, tmp, cursor, packet,
                 closing, eventVars, codecVars, pending, media_stop, file,
                 trailer>>

(* Fault: the eventfd is read when dispatch is done with the items.        *)
DoneReads ==
  /\ media = "drain"
  /\ cursor > Len(tmp)
  /\ media' = "return"
  /\ counter' = 0
  /\ UNCHANGED <<writerVars, itemVars, tmp, cursor, packet, closing, thrown,
                 failed, notify_fd, unheard, codecVars, pending, media_stop,
                 file, trailer>>

(* All items seen.                                                         *)
DispatchDone ==
  /\ media = "drain"
  /\ cursor > Len(tmp)
  /\ media' = "return"
  /\ UNCHANGED <<writerVars, itemVars, tmp, cursor, packet, closing, thrown,
                 failed, eventVars, codecVars, pending, media_stop, file,
                 trailer>>

(* ReturnToPoolGuard, one put() at a time.                                 *)
ReturnItem ==
  /\ media = "return"
  /\ tmp # <<>>
  /\ pool' = Append(pool, Head(tmp).item)
  /\ tmp' = Tail(tmp)
  /\ cursor' = 1
  /\ UNCHANGED <<writerVars, allocated, freed, media, packet, closing,
                 thrown, failed, eventVars, codecVars, pending, media_stop,
                 file, trailer>>

(* dispatch is over: back to the loop; or out of it with the exception,    *)
(* into on_uninit; or on with on_uninit, which skips clear() after one.    *)
DispatchReturns ==
  /\ media = "return"
  /\ tmp = <<>>
  /\ packet' = <<>>
  /\ thrown' = FALSE
  /\ IF ~closing /\ thrown
     THEN /\ closing' = TRUE
          /\ notify_fd' = "closed"
          /\ counter' = 0
          /\ media' = "splice"
     ELSE /\ media' = IF ~closing THEN "polling"
                      ELSE IF thrown THEN "ended" ELSE "clear"
          /\ UNCHANGED <<closing, notify_fd, counter>>
  /\ UNCHANGED <<writerVars, itemVars, tmp, cursor, failed, unheard,
                 codecVars, pending, media_stop, file, trailer>>

(* Fault: on_uninit goes on to clear() without a last dispatch.            *)
UninitWithoutDispatch ==
  /\ media = "polling"
  /\ media_stop
  /\ closing' = TRUE
  /\ notify_fd' = "closed"
  /\ counter' = 0
  /\ media' = "clear"
  /\ UNCHANGED <<writerVars, itemVars, tmp, cursor, packet, thrown, failed,
                 unheard, codecVars, pending, media_stop, file, trailer>>

(* The loop sees the stop and leaves; on_uninit closes notify_fd_ and      *)
(* dispatches what is left.                                                *)
OnUninit ==
  /\ media = "polling"
  /\ media_stop
  /\ closing' = TRUE
  /\ notify_fd' = "closed"
  /\ counter' = 0
  /\ media' = "splice"
  /\ UNCHANGED <<writerVars, itemVars, tmp, cursor, packet, thrown, failed,
                 unheard, codecVars, pending, media_stop, file, trailer>>

(* pool_.clear() destroys what is in the pool.                             *)
PoolClear ==
  /\ media = "clear"
  /\ media' = "ended"
  /\ freed' = freed \cup Elements(pool)
  /\ pool' = <<>>
  /\ UNCHANGED <<writerVars, allocated, tmp, cursor, packet, closing,
                 thrown, failed, eventVars, codecVars, pending, media_stop,
                 file, trailer>>

-----------------------------------------------------------------------------

Writing(w) ==
  PrepareFrame(w) \/ HandlerThrows(w) \/ WriteFrame(w) \/ NotifyEncoder(w)

Media ==
  \/ OnInit \/ OnInitThrows
  \/ DispatchRead \/ DispatchSplice
  \/ DispatchReceive \/ DispatchAgain \/ DispatchWrite \/ DispatchThrows
  \/ DispatchDone \/ ReturnItem \/ DispatchReturns
  \/ OnUninit \/ PoolClear

Next ==
  \/ \E w \in Writers : Writing(w) \/ EndCapture(w)
  \/ JoinAudio
  \/ FlushThrows
  \/ WriteTrailer
  \/ Media

(* Every thread that can go on does so.  That capture ends is not assumed, *)
(* except that the audio context stops once main is past its loop: main's  *)
(* scope guard has called audio.request_stop().                            *)
Fairness ==
  /\ \A w \in Writers : WF_vars(Writing(w))
  /\ WF_vars(phase["main"] # "capture" /\ EndCapture("audio"))
  /\ WF_vars(JoinAudio)
  /\ WF_vars(WriteTrailer)
  /\ WF_vars(Media)

Spec == Init /\ [][Next]_vars
FairSpec == Spec /\ Fairness

-----------------------------------------------------------------------------

(* A StreamPoll item is in one place at a time: the pool, a writer's hand, *)
(* pending_ or dispatch's list; it is never reached after pool_.clear()    *)
(* has destroyed it.                                                       *)
ItemsInOnePlace ==
  LET lists == pool \o ItemsOf(pending) \o ItemsOf(tmp)
      inHand == {held[w].item : w \in {v \in Writers : hand[v] = "held"}}
  IN
  /\ \A i, j \in 1 .. Len(lists) : lists[i] = lists[j] => i = j
  /\ Elements(lists) \cap inHand = {}
  /\ hand["main"] = "held" /\ hand["audio"] = "held" =>
       held["main"].item # held["audio"].item
  /\ (Elements(lists) \cup inHand) \cap freed = {}

(* Each stream's packets reach the file in the order its codec accepted    *)
(* the frames, with none lost or repeated on the way through packet_,      *)
(* unless the media thread has thrown.                                     *)
PacketsInOrder ==
  ~failed =>
    \A s \in Streams :
      LET inPacket == IF packet # <<>> /\ packet[1] = s
                      THEN <<packet[2]>> ELSE <<>>
      IN  file[s] \o inPacket \o codec[s] = accepted[s]

(* No lost wake-up: while the media thread sleeps in its loop, an item in  *)
(* pending_ has an event in the eventfd, or its writer is about to write   *)
(* one.  Items written before on_init has made the eventfd are the         *)
(* exception: they wait for the next event.                                *)
PendingIsSignalled ==
  media = "polling" /\ ~(Elements(pending) \subseteq unheard) =>
    counter > 0 \/ \E w \in Writers : hand[w] = "pushed"

(* When the trailer is written and nothing has thrown, nothing is left in  *)
(* pending_, every stream whose codec took the flush is complete in the    *)
(* file, and one whose codec refused it (write_frame does not look) lacks  *)
(* no more than what the codec was holding back; so does one whose flush   *)
(* was thrown out of or skipped.                                           *)
FinalizedComplete ==
  trailer /\ ~failed =>
    /\ pending = <<>>
    /\ \A s \in Streams :
         Len(accepted[s]) - Len(file[s]) <= IF s \in draining THEN 0 ELSE Delay

(* Pool::clear's contract, as many put() as get() calls before it: when    *)
(* the media thread has not thrown, every item is back in the pool by the  *)
(* time it is cleared, and none is left behind.                            *)
ClearIsBalanced ==
  media = "clear" /\ ~failed => Elements(pool) = Items \ freed

(* run_loop is over and rethrows the pointer that was thrown first.        *)
Terminated == ex = "pointer" /\ phase["main"] = "done" /\ media = "ended"

(* Once main has left its loop the output is finalised, whatever the audio *)
(* and media threads are in the middle of and whatever they, a frame       *)
(* handler or a flush throw, with one exception: a pointer that an on_init *)
(* throws before anyone else throws ends the process instead.              *)
StopFinalizes == phase["main"] # "capture" ~> trailer \/ Terminated

(* Every item is in exactly one of the pool, a writer, pending_ and        *)
(* dispatch's list, in the state its place implies, and clear() finds      *)
(* them all.                                                               *)
ItemsAccountedFor == TypeOK /\ ItemsInOnePlace /\ ClearIsBalanced
=============================================================================
