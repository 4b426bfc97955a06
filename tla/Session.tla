------------------------------- MODULE Session -------------------------------
(***************************************************************************)
(* A capture session: run_loop (main.cpp) with its three contexts and      *)
(* threads, the SIGINT handler, the scope guards that pass a stop on, the  *)
(* first exception kept for rethrowing, and the end of run or run_wayland  *)
(* and of main.                                                            *)
(*                                                                         *)
(* Each context's run() is a StoppableLoop, which EventLoop implements;    *)
(* its services come up and go down together here.  What the handlers do   *)
(* with frames is EncoderPipeline's and AudioCapture's subject.            *)
(***************************************************************************)
EXTENDS Naturals, FiniteSets

CONSTANTS
  Failures,    \* sources that may throw a std::exception
  PtrFailures  \* contexts whose on_init may throw a pointer (throw new)

Contexts == {"main", "media", "audio"}
Threads == {"media", "audio"}

(* Where ex may come from: a context's run(), or the flush of the encoder. *)
Sources == Contexts \cup {"flush"}

ASSUME ConstantsAssumption ==
  /\ Failures \subseteq Sources
  /\ PtrFailures \subseteq Contexts

NoException == [from |-> "none", kind |-> "none"]
Exceptions == [from : Sources, kind : {"std", "pointer"}]

VARIABLES
  loop,     \* "fresh", "running", "closing" or "left": each context's run()
  up,       \* contexts whose services are up
  flag,     \* stop_requested_ of each context
  thread,   \* where each of the two threads is
  main,     \* where run_loop and its callers are
  raised,   \* the exception each source throws
  ex,       \* ex: the first exception
  sigint,   \* "none", "pending" or "taken"
  flushed,  \* Encoder::flush calls made
  trailers, \* av_write_trailer calls
  exit      \* "none", the exit status, or "terminated"

loopVars == <<loop, up, raised>>
vars == <<loopVars, flag, thread, main, ex, sigint, flushed, trailers,
          exit>>

MainSteps == {"spawn", "run", "note", "stop_main", "stop_audio", "join_audio",
              "flush", "stop_media", "join_media", "leave", "end"}

TypeOK ==
  /\ loop \in [Contexts -> {"fresh", "running", "closing", "left"}]
  /\ up \subseteq Contexts
  /\ flag \in [Contexts -> BOOLEAN]
  /\ thread \in [Threads -> {"none", "run", "note", "stop_main", "stop_audio",
                             "ended"}]
  /\ main \in MainSteps
  /\ raised \in [Sources -> Exceptions \cup {NoException}]
  /\ ex \in Exceptions \cup {NoException}
  /\ sigint \in {"none", "pending", "taken"}
  /\ flushed \in 0 .. 2
  /\ trailers \in 0 .. 1
  /\ exit \in {"none", "ok", "error", "terminated"}

Init ==
  /\ loop = [c \in Contexts |-> "fresh"]
  /\ up = {}
  /\ flag = [c \in Contexts |-> FALSE]
  /\ thread = [t \in Threads |-> "none"]
  /\ main = "spawn"
  /\ raised = [s \in Sources |-> NoException]
  /\ ex = NoException
  /\ sigint = "none"
  /\ flushed = 0
  /\ trailers = 0
  /\ exit = "none"

-----------------------------------------------------------------------------
(* Context::run.                                                           *)

(* A context's thread has got as far as its run() call.                    *)
CanRun(c) == IF c = "main" THEN main = "run" ELSE thread[c] = "run"

(* Fault: run() forgets a stop that came before it.                        *)
StartForgets(c) ==
  /\ CanRun(c)
  /\ loop[c] = "fresh"
  /\ loop' = [loop EXCEPT ![c] = "running"]
  /\ flag' = [flag EXCEPT ![c] = FALSE]
  /\ UNCHANGED <<up, raised, thread, main, ex, sigint, flushed, trailers,
                 exit>>

Start(c) ==
  /\ CanRun(c)
  /\ loop[c] = "fresh"
  /\ loop' = [loop EXCEPT ![c] = "running"]
  /\ UNCHANGED <<up, raised, flag, thread, main, ex, sigint, flushed,
                 trailers, exit>>

BringUp(c) ==
  /\ loop[c] = "running"
  /\ c \notin up
  /\ up' = up \cup {c}
  /\ UNCHANGED <<loop, raised, flag, thread, main, ex, sigint, flushed,
                 trailers, exit>>

Obey(c) ==
  /\ loop[c] = "running"
  /\ c \in up
  /\ flag[c]
  /\ flag' = [flag EXCEPT ![c] = FALSE]
  /\ loop' = [loop EXCEPT ![c] = "closing"]
  /\ UNCHANGED <<up, raised, thread, main, ex, sigint, flushed, trailers,
                 exit>>

(* An on_init, a handler or ppoll throws.                                  *)
Throw(c) ==
  /\ loop[c] = "running"
  /\ \E kind \in {"std", "pointer"} :
       /\ \/ kind = "std" /\ c \in Failures
          \/ kind = "pointer" /\ c \in PtrFailures \ up
       /\ raised' = [raised EXCEPT ![c] = [from |-> c, kind |-> kind]]
  /\ loop' = [loop EXCEPT ![c] = "closing"]
  /\ UNCHANGED <<up, flag, thread, main, ex, sigint, flushed, trailers, exit>>

TakeDown(c) ==
  /\ loop[c] = "closing"
  /\ c \in up
  /\ up' = up \ {c}
  /\ UNCHANGED <<loop, raised, flag, thread, main, ex, sigint, flushed,
                 trailers, exit>>

(* run() is left; the thread goes on behind its try block, into the catch  *)
(* block if there is an exception.                                         *)
Left(c) ==
  LET next == IF raised[c] = NoException THEN "stop_main" ELSE "note" IN
  /\ loop[c] = "closing"
  /\ c \notin up
  /\ loop' = [loop EXCEPT ![c] = "left"]
  /\ IF c = "main"
     THEN main' = next /\ UNCHANGED thread
     ELSE thread' = [thread EXCEPT ![c] = next] /\ UNCHANGED main
  /\ UNCHANGED <<up, raised, flag, ex, sigint, flushed, trailers, exit>>

(* SIGINT is blocked in every thread and waits for main's signalfd (the    *)
(* ppolls that let it in are DrmHelper's subject).                         *)
Interrupt ==
  /\ sigint = "none"
  /\ exit = "none"
  /\ sigint' = "pending"
  /\ UNCHANGED <<loopVars, flag, thread, main, ex, flushed, trailers, exit>>

(* dispatch_signal runs the handler: stop().                               *)
DispatchSignal ==
  /\ sigint = "pending"
  /\ loop["main"] = "running"
  /\ "main" \in up
  /\ sigint' = "taken"
  /\ flag' = [flag EXCEPT !["main"] = TRUE, !["audio"] = TRUE]
  /\ UNCHANGED <<loopVars, thread, main, ex, flushed, trailers, exit>>

-----------------------------------------------------------------------------
(* The threads of run_loop.                                                *)

(* Faults: the test for a first exception is inverted; a thread ends       *)
(* without stop().                                                         *)
NotedInverted(c) == IF ex # NoException THEN raised[c] ELSE ex
StoppedNobody(c, target) == flag

(* catch (...) under exception_mutex: the first exception stays.           *)
Noted(c) == IF ex = NoException THEN raised[c] ELSE ex

(* request_stop() of one context, from the scope guard of thread c.        *)
Stopped(c, target) == [flag EXCEPT ![target] = TRUE]

Spawn ==
  /\ main = "spawn"
  /\ thread' = [t \in Threads |-> "run"]
  /\ main' = "run"
  /\ UNCHANGED <<loopVars, flag, ex, sigint, flushed, trailers, exit>>

ThreadNotes(t) ==
  /\ thread[t] = "note"
  /\ thread' = [thread EXCEPT ![t] = "stop_main"]
  /\ ex' = Noted(t)
  /\ UNCHANGED <<loopVars, flag, main, sigint, flushed, trailers, exit>>

ThreadStopsMain(t) ==
  /\ thread[t] = "stop_main"
  /\ thread' = [thread EXCEPT ![t] = "stop_audio"]
  /\ flag' = Stopped(t, "main")
  /\ UNCHANGED <<loopVars, main, ex, sigint, flushed, trailers, exit>>

ThreadStopsAudio(t) ==
  /\ thread[t] = "stop_audio"
  /\ thread' = [thread EXCEPT ![t] = "ended"]
  /\ flag' = Stopped(t, "audio")
  /\ UNCHANGED <<loopVars, main, ex, sigint, flushed, trailers, exit>>

MainNotes ==
  /\ main = "note"
  /\ main' = "stop_main"
  /\ ex' = Noted("main")
  /\ UNCHANGED <<loopVars, flag, thread, sigint, flushed, trailers, exit>>

MainStopsMain ==
  /\ main = "stop_main"
  /\ main' = "stop_audio"
  /\ flag' = Stopped("main", "main")
  /\ UNCHANGED <<loopVars, thread, ex, sigint, flushed, trailers, exit>>

MainStopsAudio ==
  /\ main = "stop_audio"
  /\ main' = "join_audio"
  /\ flag' = Stopped("main", "audio")
  /\ UNCHANGED <<loopVars, thread, ex, sigint, flushed, trailers, exit>>

JoinAudio ==
  /\ main = "join_audio"
  /\ thread["audio"] = "ended"
  /\ main' = "flush"
  /\ UNCHANGED <<loopVars, flag, thread, ex, sigint, flushed, trailers, exit>>

(* encoder.flush of the video codec, then of the audio codec.  One that    *)
(* throws skips the other, and the catch block notes it in the same way.   *)
Flush ==
  /\ main = "flush"
  /\ flushed' = flushed + 1
  /\ main' = IF flushed = 1 THEN "stop_media" ELSE "flush"
  /\ UNCHANGED <<loopVars, flag, thread, ex, sigint, trailers, exit>>

FlushThrows ==
  LET exception == [from |-> "flush", kind |-> "std"] IN
  /\ main = "flush"
  /\ "flush" \in Failures
  /\ main' = "stop_media"
  /\ raised' = [raised EXCEPT !["flush"] = exception]
  /\ ex' = IF ex = NoException THEN exception ELSE ex
  /\ UNCHANGED <<loop, up, flag, thread, sigint, flushed, trailers, exit>>

StopMedia ==
  /\ main = "stop_media"
  /\ main' = "join_media"
  /\ flag' = [flag EXCEPT !["media"] = TRUE]
  /\ UNCHANGED <<loopVars, thread, ex, sigint, flushed, trailers, exit>>

(* Fault: no wait for the media thread.                                    *)
JoinMediaNobody ==
  /\ main = "join_media"
  /\ main' = "leave"
  /\ UNCHANGED <<loopVars, flag, thread, ex, sigint, flushed, trailers, exit>>

JoinMedia ==
  /\ main = "join_media"
  /\ thread["media"] = "ended"
  /\ main' = "leave"
  /\ UNCHANGED <<loopVars, flag, thread, ex, sigint, flushed, trailers, exit>>

(* Out of run_loop, with ex if there is one: the guard of run or           *)
(* run_wayland writes the trailer, main reports a std::exception.  Nothing *)
(* catches a pointer: the process is terminated without unwinding.         *)
Leave ==
  /\ main = "leave"
  /\ main' = "end"
  /\ IF ex.kind = "pointer"
     THEN exit' = "terminated" /\ UNCHANGED trailers
     ELSE /\ trailers' = trailers + 1
          /\ exit' = IF ex = NoException THEN "ok" ELSE "error"
  /\ UNCHANGED <<loopVars, flag, thread, ex, sigint, flushed>>

-----------------------------------------------------------------------------

Running(c) ==
  Start(c) \/ BringUp(c) \/ Obey(c) \/ Throw(c) \/ TakeDown(c) \/ Left(c)

ThreadEnds(t) == ThreadNotes(t) \/ ThreadStopsMain(t) \/ ThreadStopsAudio(t)

MainEnds ==
  \/ MainNotes \/ MainStopsMain \/ MainStopsAudio
  \/ JoinAudio \/ Flush \/ FlushThrows \/ StopMedia \/ JoinMedia \/ Leave

Next ==
  \/ Spawn
  \/ \E c \in Contexts : Running(c)
  \/ Interrupt \/ DispatchSignal
  \/ \E t \in Threads : ThreadEnds(t)
  \/ MainEnds

(* Threads are scheduled, a loop polls its descriptors, and a started      *)
(* run() makes progress; nobody has to press Ctrl+C or to fail.            *)
Fairness ==
  /\ WF_vars(Spawn)
  /\ \A c \in Contexts :
       WF_vars(Start(c) \/ BringUp(c) \/ Obey(c) \/ TakeDown(c) \/ Left(c))
  /\ WF_vars(DispatchSignal)
  /\ \A t \in Threads : WF_vars(ThreadEnds(t))
  /\ WF_vars(MainEnds)

Spec == Init /\ [][Next]_vars
FairSpec == Spec /\ Fairness

-----------------------------------------------------------------------------

(* The encoder's context outlives everyone who writes to it: unless it has *)
(* thrown, it leaves its loop only when both capture loops are left and    *)
(* both codecs are flushed, or a flush has thrown.                         *)
MediaOutlivesCapture ==
  loop["media"] \in {"closing", "left"} /\ raised["media"] = NoException =>
    /\ flushed = 2 \/ raised["flush"] # NoException
    /\ loop["main"] = "left"
    /\ loop["audio"] = "left"

(* The trailer is the last thing written: every loop is left, every        *)
(* service is down and both threads have ended.                            *)
TrailerIsLast ==
  trailers > 0 =>
    /\ \A c \in Contexts : loop[c] = "left"
    /\ up = {}
    /\ \A t \in Threads : thread[t] = "ended"

(* No failure is swallowed on its way across threads: the process reports  *)
(* success exactly when no run() has thrown and no flush has.              *)
ExitTellsFailure ==
  exit # "none" =>
    (exit = "ok" <=> \A s \in Sources : raised[s] = NoException)

(* The session is over and the output finalised, unless the exception is   *)
(* one that nobody catches.                                                *)
Over == exit # "none" /\ (trailers = 1 \/ ex.kind = "pointer")

(* Ctrl+C ends the session, in whatever state the threads are.             *)
SigintEnds == sigint = "pending" ~> Over

(* A context that ends or fails does not leave the others running, nor     *)
(* main waiting for a thread nobody has stopped: the session ends.         *)
FailureEnds == (\E c \in Contexts : loop[c] = "left") ~> Over

LoopStatus(c) == IF loop[c] \in {"fresh", "left"} THEN "idle" ELSE loop[c]

MainLoop == INSTANCE StoppableLoop WITH
  Services <- {"main"}, status <- LoopStatus("main"), asked <- flag["main"],
  up <- up \cap {"main"}

MediaLoop == INSTANCE StoppableLoop WITH
  Services <- {"media"}, status <- LoopStatus("media"), asked <- flag["media"],
  up <- up \cap {"media"}

AudioLoop == INSTANCE StoppableLoop WITH
  Services <- {"audio"}, status <- LoopStatus("audio"), asked <- flag["audio"],
  up <- up \cap {"audio"}

(* Each context is used as a StoppableLoop, so that what EventLoop shows   *)
(* of one context holds of the three: a stop passed on by a guard or by    *)
(* the SIGINT handler is not lost, however early it comes.                 *)
ContextsAreLoops == MainLoop!Spec /\ MediaLoop!Spec /\ AudioLoop!Spec

(* The order of the shutdown: captures end before the media context is     *)
(* stopped, and every thread has ended before the trailer.                 *)
ShutdownInOrder == TypeOK /\ MediaOutlivesCapture /\ TrailerIsLast

(* Whatever ends a session, Ctrl+C or the end or failure of a context,     *)
(* ends all of it.                                                         *)
SessionEnds == SigintEnds /\ FailureEnds
=============================================================================
