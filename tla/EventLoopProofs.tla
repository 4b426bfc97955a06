--------------------------- MODULE EventLoopProofs ---------------------------
(***************************************************************************)
(* Proofs about EventLoop, for any number of services with any mix of      *)
(* registrations, any stopping threads and any number of runs.             *)
(*                                                                         *)
(* UninitOncePerInit needs to know what is up in every phase of run()      *)
(* (UpInPhase).  StopWakesPoll needs the promise from the moment the flag  *)
(* has been found clear (StopWakes), and that the eventfd a stopping       *)
(* thread writes to is open for as long as run() lasts (FdInPhase).  The   *)
(* refinement needs that the flag is the memory of what was asked          *)
(* (FlagIsMemory) and that nothing is up when run() returns.               *)
(***************************************************************************)
EXTENDS EventLoop, TLAPS

UpInPhase ==
  /\ pc = "init" => pos >= 1 /\ \A s \in Services : s \in up <=> s < pos
  /\ pc \in {"check", "tick", "poll", "dispatch"} => up = Services
  /\ pc = "uninit" => /\ 1 <= pos /\ pos <= last
                      /\ \A s \in Services : s >= pos => uninits[s] = 0
  /\ pc \notin {"idle", "uninit"} => \A s \in Services : uninits[s] = 0

FdInPhase == pc # "idle" => event_fd = "open"

StopWakes ==
  pc \in {"tick", "poll"} /\ flag =>
    counter > 0 \/ \E t \in Stoppers : stopper[t] = "flagged"

FlagIsMemory == flag = asked

Inv ==
  /\ TypeOK
  /\ UninitOncePerInit
  /\ UpInPhase
  /\ FdInPhase
  /\ StopWakes
  /\ FlagIsMemory

(* The inductive invariant holds initially.                                *)
LEMMA InvInit == Init => Inv
<1> SUFFICES ASSUME Init PROVE Inv
  OBVIOUS
<1> USE ConstantsAssumption DEF Init, Services
<1>1. TypeOK
  <2>1. flag \in BOOLEAN /\ asked \in BOOLEAN /\ locked \in BOOLEAN
    OBVIOUS
  <2>2. uninits \in [Services -> Nat]
    OBVIOUS
  <2>3. stopper \in [Stoppers -> {"idle", "flagged", "done"}]
    OBVIOUS
  <2> QED
    BY <2>1, <2>2, <2>3 DEF TypeOK
<1>2. UninitOncePerInit
  BY DEF UninitOncePerInit
<1>3. UpInPhase /\ FdInPhase /\ StopWakes /\ FlagIsMemory
  BY DEF UpInPhase, FdInPhase, StopWakes, FlagIsMemory
<1> QED
  BY <1>1, <1>2, <1>3 DEF Inv

(* Steps of request_stop preserve the inductive invariant.                 *)
LEMMA StopperPreserves ==
  ASSUME Inv, NEW t \in Stoppers, RequestStop(t)
  PROVE  Inv'
<1> USE ConstantsAssumption
        DEF Inv, TypeOK, UninitOncePerInit, UpInPhase, FdInPhase, StopWakes,
            FlagIsMemory, Services, vars, loopVars, svcVars, regVars, fdVars,
            stopVars
<1>1. CASE SetFlag(t)
  BY <1>1 DEF SetFlag
<1>2. CASE WriteEvent(t)
  BY <1>2 DEF WriteEvent
<1> QED
  BY <1>1, <1>2 DEF RequestStop

(* Steps of run() before its teardown preserve the inductive invariant.    *)
LEMMA LoopPreserves ==
  ASSUME Inv, Loop
  PROVE  Inv'
<1> USE ConstantsAssumption
        DEF Inv, TypeOK, UninitOncePerInit, UpInPhase, FdInPhase, StopWakes,
            FlagIsMemory, Services, vars, loopVars, svcVars, regVars, fdVars,
            stopVars, Uninit
<1>1. CASE InitService
  BY <1>1 DEF InitService
<1>2. CASE InitThrows
  <2>1. /\ \A s \in Services : s \in up <=> s < pos
        /\ up \subseteq Services
    BY <1>2 DEF InitThrows
  <2>2. \A s \in Services : 1 <= s
    OBVIOUS
  <2>3. up = {s \in Services : 1 <= s /\ s < pos}
    BY ONLY <2>1, <2>2
  <2> QED
    BY <1>2, <2>3 DEF InitThrows
<1>3. CASE InitDone
  <2> USE <1>3 DEF InitDone
  <2>1. \A s \in Services : s < pos /\ 1 <= s /\ s < NumServices + 1
    OBVIOUS
  <2>2. /\ up = Services
        /\ up = {s \in Services : 1 <= s /\ s < NumServices + 1}
    BY <2>1
  <2>3. TypeOK'
    OBVIOUS
  <2>4. UninitOncePerInit'
    BY <2>2
  <2>5. UpInPhase'
    BY <2>2
  <2>6. FdInPhase' /\ StopWakes' /\ FlagIsMemory'
    OBVIOUS
  <2> QED
    BY <2>3, <2>4, <2>5, <2>6
<1>4. CASE CheckStop
  <2> USE <1>4 DEF CheckStop
  <2>1. TypeOK'
    <3>1. flag' \in BOOLEAN /\ asked' \in BOOLEAN
      OBVIOUS
    <3> QED
      BY <3>1
  <2>2. UninitOncePerInit'
    OBVIOUS
  <2>3. UpInPhase'
    OBVIOUS
  <2>4. FdInPhase' /\ StopWakes' /\ FlagIsMemory'
    OBVIOUS
  <2> QED
    BY <2>1, <2>2, <2>3, <2>4
<1>5. CASE TickSkip
  BY <1>5 DEF TickSkip
<1>6. CASE TickFires
  <2>1. CASE HandlerReturns
    BY <1>6, <2>1 DEF TickFires, HandlerReturns
  <2>2. CASE HandlerStops
    BY <1>6, <2>2 DEF TickFires, HandlerStops
  <2>3. CASE HandlerThrows
    BY <1>6, <2>3 DEF TickFires, HandlerThrows
  <2> QED
    BY <1>6, <2>1, <2>2, <2>3 DEF TickFires
<1>7. CASE TickDone
  BY <1>7 DEF TickDone
<1>8. CASE PollReturns
  BY <1>8 DEF PollReturns
<1>9. CASE PollThrows
  BY <1>9 DEF PollThrows
<1>10. CASE DispatchEvent
  BY <1>10 DEF DispatchEvent
<1>11. CASE DispatchSkip
  BY <1>11 DEF DispatchSkip
<1>12. CASE DispatchService
  <2>1. CASE HandlerReturns
    BY <1>12, <2>1 DEF DispatchService, HandlerReturns
  <2>2. CASE HandlerStops
    BY <1>12, <2>2 DEF DispatchService, HandlerStops
  <2>3. CASE HandlerThrows
    BY <1>12, <2>3 DEF DispatchService, HandlerThrows
  <2> QED
    BY <1>12, <2>1, <2>2, <2>3 DEF DispatchService
<1>13. CASE DispatchDone
  BY <1>13 DEF DispatchDone
<1>14. CASE UninitService
  BY <1>14 DEF UninitService
<1>15. CASE RunReturns
  <2> USE <1>15 DEF RunReturns
  <2>1. TypeOK'
    OBVIOUS
  <2>2. UninitOncePerInit'
    OBVIOUS
  <2>3. UpInPhase'
    OBVIOUS
  <2>4. FdInPhase' /\ StopWakes' /\ FlagIsMemory'
    OBVIOUS
  <2> QED
    BY <2>1, <2>2, <2>3, <2>4
<1> QED
  BY <1>1, <1>2, <1>3, <1>4, <1>5, <1>6, <1>7, <1>8, <1>9, <1>10, <1>11,
     <1>12, <1>13, <1>14, <1>15 DEF Loop

(* Every step preserves the inductive invariant.                           *)
LEMMA InvStep == Inv /\ [Next]_vars => Inv'
<1> SUFFICES ASSUME Inv, [Next]_vars PROVE Inv'
  OBVIOUS
<1> USE ConstantsAssumption
        DEF Inv, TypeOK, UninitOncePerInit, UpInPhase, FdInPhase, StopWakes,
            FlagIsMemory, Services, vars, loopVars, svcVars, regVars, fdVars,
            stopVars
<1>1. CASE Run
  <2> USE <1>1 DEF Run
  <2>1. TypeOK'
    OBVIOUS
  <2>2. UninitOncePerInit'
    OBVIOUS
  <2>3. UpInPhase'
    <3>1. \A s \in Services : s \notin up' /\ ~(s < pos')
      OBVIOUS
    <3> QED
      BY <3>1
  <2>4. FdInPhase' /\ StopWakes' /\ FlagIsMemory'
    OBVIOUS
  <2> QED
    BY <2>1, <2>2, <2>3, <2>4
<1>2. CASE RunThrows
  BY <1>2 DEF RunThrows
<1>3. CASE Loop
  BY <1>3, LoopPreserves
<1>4. CASE \E s \in Services : Readable(s)
  BY <1>4 DEF Readable
<1>5. CASE \E t \in Stoppers : RequestStop(t)
  BY <1>5, StopperPreserves
<1>6. CASE UNCHANGED vars
  BY <1>6
<1> QED
  BY <1>1, <1>2, <1>3, <1>4, <1>5, <1>6 DEF Next

-----------------------------------------------------------------------------

(* The inductive invariant holds of every behaviour of Context::run and    *)
(* request_stop.                                                           *)
THEOREM InvHolds == Spec => []Inv
BY InvInit, InvStep, PTL DEF Spec

(* Type correctness of the loop's iterators, flags and descriptors.        *)
THEOREM TypeCorrect == Spec => []TypeOK
<1>1. Inv => TypeOK
  BY DEF Inv
<1> QED
  BY <1>1, InvHolds, PTL

(* No stop waits for ppoll's timeout, whatever thread asks for it and      *)
(* whenever: request_stop's order, flag then event, is enough.             *)
THEOREM StopIsPrompt == Spec => []StopWakesPoll
<1>1. Inv => StopWakesPoll
  BY DEF Inv, StopWakes, StopWakesPoll
<1> QED
  BY <1>1, InvHolds, PTL

(* Every service that came up goes down once and no other does, on the     *)
(* rollback path and on every way out of the loop.                         *)
THEOREM TeardownIsExact == Spec => []UninitOncePerInit
<1>1. Inv => UninitOncePerInit
  BY DEF Inv
<1> QED
  BY <1>1, InvHolds, PTL

(* Every step of the loop is a step of StoppableLoop or leaves it alone.   *)
LEMMA StepImplements ==
  ASSUME Inv, Inv', [Next]_vars
  PROVE  [Abstract!Next]_(Abstract!vars)
<1> USE ConstantsAssumption
        DEF Inv, TypeOK, UninitOncePerInit, UpInPhase, FlagIsMemory, Services,
            vars, loopVars, svcVars, regVars, fdVars, stopVars, Uninit,
            Abstract!Next, Abstract!vars, Abstract!Ask, Abstract!Start,
            Abstract!Bring, Abstract!Obey, Abstract!Leave, Abstract!Drop,
            Abstract!Return
<1>1. CASE Run
  BY <1>1 DEF Run
<1>2. CASE RunThrows
  BY <1>2 DEF RunThrows
<1>3. CASE InitService
  <2>1. Abstract!Bring(pos)
    BY <1>3 DEF InitService
  <2> QED
    BY <2>1, <1>3 DEF InitService
<1>4. CASE InitThrows \/ InitDone \/ PollThrows
  BY <1>4 DEF InitThrows, InitDone, PollThrows
<1>5. CASE CheckStop
  BY <1>5 DEF CheckStop
<1>6. CASE TickFires
  BY <1>6 DEF TickFires, HandlerReturns, HandlerStops, HandlerThrows
<1>7. CASE DispatchService
  BY <1>7 DEF DispatchService, HandlerReturns, HandlerStops, HandlerThrows
<1>8. CASE TickSkip \/ TickDone \/ PollReturns
  BY <1>8 DEF TickSkip, TickDone, PollReturns
<1>9. CASE DispatchEvent \/ DispatchSkip \/ DispatchDone
  BY <1>9 DEF DispatchEvent, DispatchSkip, DispatchDone
<1>10. CASE UninitService
  <2>1. Abstract!Drop(pos)
    BY <1>10 DEF UninitService
  <2> QED
    BY <2>1, <1>10 DEF UninitService
<1>11. CASE RunReturns
  BY <1>11 DEF RunReturns
<1>12. CASE \E s \in Services : Readable(s)
  BY <1>12 DEF Readable
<1>13. CASE \E t \in Stoppers : RequestStop(t)
  BY <1>13 DEF RequestStop, SetFlag, WriteEvent
<1>14. CASE UNCHANGED vars
  BY <1>14
<1> QED
  BY <1>1, <1>2, <1>3, <1>4, <1>5, <1>6, <1>7, <1>8, <1>9, <1>10, <1>11,
     <1>12, <1>13, <1>14 DEF Next, Loop

(* The safety part of the refinement: Context::run behaves as a            *)
(* StoppableLoop whatever its services, handlers and stopping threads do.  *)
THEOREM LoopRefines == Spec => Abstract!Safe
<1>1. Init => Abstract!Init
  BY DEF Init, Abstract!Init
<1> QED
  BY <1>1, StepImplements, InvHolds, PTL DEF Spec, Abstract!Safe
=============================================================================
