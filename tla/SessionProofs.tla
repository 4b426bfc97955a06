---------------------------- MODULE SessionProofs ----------------------------
(***************************************************************************)
(* Proofs about Session, for any set of contexts that may fail, in either  *)
(* way, and for a flush that may fail.                                     *)
(*                                                                         *)
(* MediaOutlivesCapture is about the loops, and what makes it true is the  *)
(* order of run_loop: only the inductive invariant's LoopInPlace ties a    *)
(* thread's place to its loop, and JoinsInOrder ties the stop of the media *)
(* context to the join of the audio thread.  ExitTellsFailure needs that   *)
(* an exception is in ex as soon as the catch block is left (RaisedIsKept) *)
(* and that ex never comes from nowhere.                                   *)
(***************************************************************************)
EXTENDS Session, TLAPS

AfterLoop == MainSteps \ {"spawn", "run"}
AfterJoin == {"flush", "stop_media", "join_media", "leave", "end"}
AfterFlush == {"stop_media", "join_media", "leave", "end"}

(* Where a thread is says where its loop is.                               *)
LoopInPlace ==
  /\ main = "spawn" => loop["main"] = "fresh"
  /\ main = "run" => loop["main"] # "left"
  /\ main \in AfterLoop => loop["main"] = "left"
  /\ \A t \in Threads :
       /\ thread[t] = "none" <=> main = "spawn"
       /\ thread[t] = "none" => loop[t] = "fresh"
       /\ thread[t] = "run" => loop[t] # "left"
       /\ thread[t] \notin {"none", "run"} => loop[t] = "left"

(* Services are up, and exceptions raised, in the loop's own time only.    *)
UpAndRaised ==
  \A c \in Contexts :
    /\ c \in up => loop[c] \in {"running", "closing"}
    /\ raised[c] # NoException => loop[c] \in {"closing", "left"}

(* run_loop joins audio before it flushes, flushes before it stops the     *)
(* media context, and joins media before it leaves.                        *)
JoinsInOrder ==
  /\ main \in AfterJoin => thread["audio"] = "ended"
  /\ main \in AfterFlush => flushed = 2 \/ raised["flush"] # NoException
  /\ main = "flush" => flushed \in {0, 1}
  /\ raised["flush"] # NoException => main \in AfterFlush
  /\ main \notin AfterJoin => flushed = 0
  /\ flag["media"] => main \in {"join_media", "leave", "end"}
  /\ main \in {"leave", "end"} => thread["media"] = "ended"
  /\ exit # "none" \/ trailers > 0 => main = "end"

(* What is thrown is in ex once its catch block is left.                   *)
Handled(s) ==
  IF s = "main" THEN main \in AfterLoop \ {"note"}
  ELSE IF s = "flush" THEN main \in AfterFlush
  ELSE thread[s] \in {"stop_main", "stop_audio", "ended"}

RaisedIsKept ==
  /\ \A s \in Sources :
       raised[s] # NoException /\ Handled(s) => ex # NoException
  /\ ex # NoException => \E s \in Sources : raised[s] # NoException
  /\ main = "note" => raised["main"] # NoException
  /\ \A t \in Threads : thread[t] = "note" => raised[t] # NoException
  /\ exit # "none" => (exit = "ok" <=> ex = NoException)

Inv ==
  /\ TypeOK
  /\ MediaOutlivesCapture
  /\ LoopInPlace
  /\ UpAndRaised
  /\ JoinsInOrder
  /\ RaisedIsKept

(* The inductive invariant holds initially.                                *)
LEMMA InvInit == Init => Inv
<1> SUFFICES ASSUME Init PROVE Inv
  OBVIOUS
<1> USE DEF Init, Contexts, Threads, Sources, NoException,
            Exceptions, MainSteps
<1>1. TypeOK
  BY DEF TypeOK
<1>2. MediaOutlivesCapture /\ LoopInPlace /\ UpAndRaised
  BY DEF MediaOutlivesCapture, LoopInPlace, UpAndRaised, AfterLoop
<1>3. JoinsInOrder
  BY DEF JoinsInOrder, AfterJoin, AfterFlush
<1>4. RaisedIsKept
  BY DEF RaisedIsKept
<1> QED
  BY <1>1, <1>2, <1>3, <1>4 DEF Inv

(* Steps of a context's run() preserve the inductive invariant.            *)
LEMMA RunningPreserves ==
  ASSUME Inv, NEW c \in Contexts, Running(c)
  PROVE  Inv'
<1> USE ConstantsAssumption
        DEF Inv, TypeOK, MediaOutlivesCapture, LoopInPlace, UpAndRaised,
            JoinsInOrder, RaisedIsKept, Handled, AfterLoop, AfterJoin,
            AfterFlush, MainSteps, Contexts, Threads, Sources, NoException,
            Exceptions
<1>1. CASE Start(c)
  BY <1>1 DEF Start, CanRun
<1>2. CASE BringUp(c)
  BY <1>2 DEF BringUp
<1>3. CASE Obey(c)
  BY <1>3 DEF Obey
<1>4. CASE Throw(c)
  BY <1>4 DEF Throw
<1>5. CASE TakeDown(c)
  BY <1>5 DEF TakeDown
<1>6. CASE Left(c)
  BY <1>6 DEF Left
<1> QED
  BY <1>1, <1>2, <1>3, <1>4, <1>5, <1>6 DEF Running

(* Steps of the two threads behind their loops preserve it.                *)
LEMMA ThreadPreserves ==
  ASSUME Inv, NEW t \in Threads, ThreadEnds(t)
  PROVE  Inv'
<1> USE DEF Inv, TypeOK, MediaOutlivesCapture, LoopInPlace, UpAndRaised,
            JoinsInOrder, RaisedIsKept, Handled, AfterLoop, AfterJoin,
            AfterFlush, MainSteps, Contexts, Threads, Sources, NoException,
            Exceptions,
            loopVars
<1>1. CASE ThreadNotes(t)
  BY <1>1 DEF ThreadNotes, Noted
<1>2. CASE ThreadStopsMain(t)
  BY <1>2 DEF ThreadStopsMain, Stopped
<1>3. CASE ThreadStopsAudio(t)
  BY <1>3 DEF ThreadStopsAudio, Stopped
<1> QED
  BY <1>1, <1>2, <1>3 DEF ThreadEnds

(* Steps of run_loop behind its loop, and of its callers, preserve it.     *)
LEMMA MainPreserves ==
  ASSUME Inv, MainEnds
  PROVE  Inv'
<1> USE DEF Inv, TypeOK, MediaOutlivesCapture, LoopInPlace, UpAndRaised,
            JoinsInOrder, RaisedIsKept, Handled, AfterLoop, AfterJoin,
            AfterFlush, MainSteps, Contexts, Threads, Sources, NoException,
            Exceptions,
            loopVars
<1>1. CASE MainNotes
  BY <1>1 DEF MainNotes, Noted
<1>2. CASE MainStopsMain
  BY <1>2 DEF MainStopsMain, Stopped
<1>3. CASE MainStopsAudio
  BY <1>3 DEF MainStopsAudio, Stopped
<1>4. CASE JoinAudio
  BY <1>4 DEF JoinAudio
<1>5. CASE Flush
  BY <1>5 DEF Flush
<1>6. CASE FlushThrows
  BY <1>6 DEF FlushThrows
<1>7. CASE StopMedia
  BY <1>7 DEF StopMedia
<1>8. CASE JoinMedia
  BY <1>8 DEF JoinMedia
<1>9. CASE Leave
  BY <1>9 DEF Leave
<1> QED
  BY <1>1, <1>2, <1>3, <1>4, <1>5, <1>6, <1>7, <1>8, <1>9 DEF MainEnds

(* Every step preserves the inductive invariant.                           *)
LEMMA InvStep == Inv /\ [Next]_vars => Inv'
<1> SUFFICES ASSUME Inv, [Next]_vars PROVE Inv'
  OBVIOUS
<1> USE DEF Inv, TypeOK, MediaOutlivesCapture, LoopInPlace, UpAndRaised,
            JoinsInOrder, RaisedIsKept, Handled, AfterLoop, AfterJoin,
            AfterFlush, MainSteps, Contexts, Threads, Sources, NoException,
            Exceptions,
            loopVars
<1>1. CASE Spawn
  BY <1>1 DEF Spawn
<1>2. CASE \E c \in Contexts : Running(c)
  BY <1>2, RunningPreserves
<1>3. CASE Interrupt
  BY <1>3 DEF Interrupt
<1>4. CASE DispatchSignal
  BY <1>4 DEF DispatchSignal
<1>5. CASE \E t \in Threads : ThreadEnds(t)
  BY <1>5, ThreadPreserves
<1>6. CASE MainEnds
  BY <1>6, MainPreserves
<1>7. CASE UNCHANGED vars
  BY <1>7 DEF vars
<1> QED
  BY <1>1, <1>2, <1>3, <1>4, <1>5, <1>6, <1>7 DEF Next

-----------------------------------------------------------------------------

(* The inductive invariant holds in every state of a session.              *)
THEOREM InvHolds == Spec => []Inv
BY InvInit, InvStep, PTL DEF Spec

(* The order of the shutdown, whichever contexts fail and whenever: the    *)
(* media context outlives capture and both flushes, or the flush that      *)
(* throws, unless it throws itself, and av_write_trailer is called when    *)
(* every loop is left, every service down and every thread joined.         *)
THEOREM ShutdownIsOrderly == Spec => []ShutdownInOrder
<1>1. Inv => TrailerIsLast
  <2> SUFFICES ASSUME Inv, trailers > 0 PROVE TrailerIsLast
    BY DEF TrailerIsLast
  <2> USE DEF Inv, TypeOK, Contexts, Threads
  <2>1. main = "end"
    BY DEF JoinsInOrder
  <2>2. \A t \in Threads : thread[t] = "ended"
    BY <2>1 DEF JoinsInOrder, AfterJoin
  <2>3. \A c \in Contexts : loop[c] = "left"
    BY <2>1, <2>2 DEF LoopInPlace, AfterLoop, MainSteps
  <2>4. up = {}
    BY <2>3 DEF UpAndRaised
  <2> QED
    BY <2>2, <2>3, <2>4 DEF TrailerIsLast
<1>2. Inv => ShutdownInOrder
  BY <1>1 DEF Inv, ShutdownInOrder
<1> QED
  BY <1>2, InvHolds, PTL

(* No failure is swallowed on its way from a context's run(), or from the  *)
(* flush, through exception_mutex and ex to the exit status, and none is   *)
(* made up.                                                                *)
THEOREM FailuresAreReported == Spec => []ExitTellsFailure
<1>1. Inv => ExitTellsFailure
  <2> SUFFICES ASSUME Inv, exit # "none" PROVE ExitTellsFailure
    BY DEF ExitTellsFailure
  <2> USE DEF Inv, TypeOK, Contexts, Threads, Sources
  <2>1. \A s \in Sources : Handled(s)
    BY DEF JoinsInOrder, Handled, AfterLoop, AfterJoin, AfterFlush, MainSteps
  <2>2. exit = "ok" <=> ex = NoException
    BY DEF RaisedIsKept
  <2>3. ex # NoException <=> \E s \in Sources : raised[s] # NoException
    BY <2>1 DEF RaisedIsKept
  <2> QED
    BY <2>2, <2>3 DEF ExitTellsFailure
<1> QED
  BY <1>1, InvHolds, PTL

-----------------------------------------------------------------------------
(* The refinement of StoppableLoop, for each of the three contexts.        *)

Loop(c) == INSTANCE StoppableLoop WITH
  Services <- {c}, status <- LoopStatus(c), asked <- flag[c],
  up <- up \cap {c}

(* A step of the session is, for one context, a step of a StoppableLoop or *)
(* leaves it alone.                                                        *)
LEMMA StepImplements ==
  ASSUME Inv, [Next]_vars, NEW c \in Contexts
  PROVE  [Loop(c)!Next]_(Loop(c)!vars)
<1> USE DEF Inv, TypeOK, Contexts, Threads, NoException, loopVars, LoopStatus,
            Stopped, Loop!Next, Loop!vars
<1>1. CASE Spawn \/ Interrupt \/ UNCHANGED vars
  BY <1>1 DEF Spawn, Interrupt, vars
<1>2. CASE \E d \in Contexts \ {c} : Running(d)
  BY <1>2 DEF Running, Start, BringUp, Obey, Throw, TakeDown, Left
<1>3. CASE Running(c)
  <2>1. CASE Start(c)
    BY <2>1 DEF Start, Loop!Start
  <2>2. CASE BringUp(c)
    BY <2>2 DEF BringUp, Loop!Bring
  <2>3. CASE Obey(c)
    BY <2>3 DEF Obey, Loop!Obey
  <2>4. CASE Throw(c)
    BY <2>4 DEF Throw, Loop!Leave
  <2>5. CASE TakeDown(c)
    BY <2>5 DEF TakeDown, Loop!Drop
  <2>6. CASE Left(c)
    BY <2>6 DEF Left, Loop!Return
  <2> QED
    BY <1>3, <2>1, <2>2, <2>3, <2>4, <2>5, <2>6 DEF Running
<1>4. CASE DispatchSignal
  BY <1>4 DEF DispatchSignal, Loop!Ask
<1>5. CASE \E t \in Threads : ThreadEnds(t)
  BY <1>5 DEF ThreadEnds, ThreadNotes, ThreadStopsMain, ThreadStopsAudio,
              Loop!Ask
<1>6. CASE MainEnds
  BY <1>6 DEF MainEnds, MainNotes, MainStopsMain, MainStopsAudio, JoinAudio,
              Flush, FlushThrows, StopMedia, JoinMedia, Leave, Loop!Ask
<1> QED
  BY <1>1, <1>2, <1>3, <1>4, <1>5, <1>6 DEF Next

(* Each context of a session is, as far as safety goes, a StoppableLoop:   *)
(* it obeys a stop only if one was asked for, forgets none, and returns    *)
(* with every service down.  EventLoopProofs shows that Context::run is    *)
(* one; this shows that the steps around it in run_loop use it as one.     *)
THEOREM ContextsRefine ==
  Spec => MainLoop!Safe /\ MediaLoop!Safe /\ AudioLoop!Safe
<1>1. Init => MainLoop!Init /\ MediaLoop!Init /\ AudioLoop!Init
  BY DEF Init, Contexts, LoopStatus, MainLoop!Init, MediaLoop!Init,
         AudioLoop!Init
<1>2. ASSUME Inv, [Next]_vars
      PROVE  /\ [MainLoop!Next]_(MainLoop!vars)
             /\ [MediaLoop!Next]_(MediaLoop!vars)
             /\ [AudioLoop!Next]_(AudioLoop!vars)
  <2> USE DEF Loop!Next, Loop!vars, Loop!Ask, Loop!Start, Loop!Bring,
              Loop!Obey, Loop!Leave, Loop!Drop, Loop!Return
  <2>1. \A c \in {"main", "media", "audio"} : [Loop(c)!Next]_(Loop(c)!vars)
    BY <1>2, StepImplements DEF Contexts
  <2>2. [MainLoop!Next]_(MainLoop!vars)
    BY <2>1 DEF MainLoop!Next, MainLoop!vars, MainLoop!Ask, MainLoop!Start,
       MainLoop!Bring, MainLoop!Obey, MainLoop!Leave, MainLoop!Drop,
       MainLoop!Return
  <2>3. [MediaLoop!Next]_(MediaLoop!vars)
    BY <2>1 DEF MediaLoop!Next, MediaLoop!vars, MediaLoop!Ask,
       MediaLoop!Start, MediaLoop!Bring, MediaLoop!Obey, MediaLoop!Leave,
       MediaLoop!Drop, MediaLoop!Return
  <2>4. [AudioLoop!Next]_(AudioLoop!vars)
    BY <2>1 DEF AudioLoop!Next, AudioLoop!vars, AudioLoop!Ask,
       AudioLoop!Start, AudioLoop!Bring, AudioLoop!Obey, AudioLoop!Leave,
       AudioLoop!Drop, AudioLoop!Return
  <2> QED
    BY <2>2, <2>3, <2>4
<1> QED
  BY <1>1, <1>2, InvHolds, PTL
     DEF Spec, MainLoop!Safe, MediaLoop!Safe, AudioLoop!Safe
=============================================================================
