------------------------------ MODULE EventLoop ------------------------------
(***************************************************************************)
(* Context::run and Context::request_stop (services/context.cpp) over a    *)
(* ServiceRegistry: initialisation with rollback, the ppoll loop, and      *)
(* teardown, with other threads asking for a stop at any moment.           *)
(*                                                                         *)
(* Services are numbered in the registry's iteration order; timers and     *)
(* descriptors, which the code visits by expiry and by number, are visited *)
(* in the same order, since no handler is told from another.  A handler's  *)
(* work is abstracted to how it ends: it returns, it asks for a stop, or   *)
(* it throws.  When timers fire is FramePacing's subject; here each may    *)
(* fire or not at each tick.                                               *)
(***************************************************************************)
EXTENDS Naturals, FiniteSets

CONSTANTS
  NumServices,  \* services in the registry
  Stoppers,     \* other threads that call request_stop, once each
  MayFail,      \* eventfd, on_init, ppoll and handlers may throw
  MaxRuns       \* bound: calls of run()

Services == 1 .. NumServices

ASSUME ConstantsAssumption ==
  /\ NumServices \in Nat
  /\ MayFail \in BOOLEAN
  /\ MaxRuns \in Nat

VARIABLES
  pc,        \* where run() is
  pos,       \* its iterator over the registry or over poll_events
  last,      \* where an uninit loop ends
  up,        \* initialised services
  notifications, \* services that have registered a descriptor
  timers,    \* services that have registered a timer
  uninits,   \* history: uninit() calls of this run on each service
  flag,      \* stop_requested_
  event_fd,  \* event_fd_: "none", "open", or "closed" once run() has left
  counter,   \* value of the eventfd
  ready,     \* services whose descriptor is readable
  revents,   \* what the last ppoll reported; 0 stands for event_fd_
  locked,    \* the registry's lock_
  runs,      \* calls of run() so far
  stopper,   \* step of request_stop each other thread is in
  asked      \* history: a stop was asked for that no run has obeyed

regVars == <<notifications, timers>>
svcVars == <<up, regVars, uninits, locked, runs>>
loopVars == <<pc, pos, last, svcVars>>
fdVars == <<event_fd, counter, ready, revents>>
stopVars == <<flag, stopper, asked>>
vars == <<loopVars, fdVars, stopVars>>

TypeOK ==
  /\ pc \in {"idle", "init", "check", "tick", "poll", "dispatch", "uninit"}
  /\ pos \in 0 .. NumServices + 1
  /\ last \in 1 .. NumServices + 1
  /\ up \subseteq Services
  /\ notifications \subseteq Services /\ timers \subseteq Services
  /\ uninits \in [Services -> Nat]
  /\ event_fd \in {"none", "open", "closed"}
  /\ counter \in Nat
  /\ ready \subseteq Services
  /\ revents \subseteq Services \cup {0}
  /\ runs \in 0 .. MaxRuns
  /\ stopper \in [Stoppers -> {"idle", "flagged", "done"}]
  /\ flag \in BOOLEAN /\ asked \in BOOLEAN /\ locked \in BOOLEAN

Init ==
  /\ pc = "idle" /\ pos = 1 /\ last = 1
  /\ up = {}
  /\ notifications = {} /\ timers = {}
  /\ uninits = [s \in Services |-> 0]
  /\ flag = FALSE
  /\ event_fd = "none" /\ counter = 0
  /\ ready = {} /\ revents = {}
  /\ locked = FALSE
  /\ runs = 0
  /\ stopper = [t \in Stoppers |-> "idle"]
  /\ asked = FALSE

-----------------------------------------------------------------------------
(* request_stop: the flag, then the event.  event_fd_ keeps its number     *)
(* after run() has closed it; a write to it then reaches no context.       *)

(* Fault: the event before the flag.                                       *)
WriteFirst(t) ==
  /\ stopper[t] = "idle"
  /\ stopper' = [stopper EXCEPT ![t] = "flagged"]
  /\ counter' = IF event_fd = "open" THEN counter + 1 ELSE counter
  /\ UNCHANGED <<loopVars, flag, asked, event_fd, ready, revents>>

FlagSecond(t) ==
  /\ stopper[t] = "flagged"
  /\ stopper' = [stopper EXCEPT ![t] = "done"]
  /\ flag' = TRUE
  /\ asked' = TRUE
  /\ UNCHANGED <<loopVars, fdVars>>

RequestStopSwapped(t) == WriteFirst(t) \/ FlagSecond(t)

SetFlag(t) ==
  /\ stopper[t] = "idle"
  /\ stopper' = [stopper EXCEPT ![t] = "flagged"]
  /\ flag' = TRUE
  /\ asked' = TRUE
  /\ UNCHANGED <<loopVars, fdVars>>

WriteEvent(t) ==
  /\ stopper[t] = "flagged"
  /\ stopper' = [stopper EXCEPT ![t] = "done"]
  /\ counter' = IF event_fd = "open" THEN counter + 1 ELSE counter
  /\ UNCHANGED <<loopVars, flag, asked, event_fd, ready, revents>>

RequestStop(t) == SetFlag(t) \/ WriteEvent(t)

-----------------------------------------------------------------------------
(* run().                                                                  *)

(* Leave for the uninit loop over the services before position end.        *)
Uninit(end) == pc' = "uninit" /\ pos' = 1 /\ last' = end

(* Fault: every run starts with the flag cleared.                          *)
RunClearsFlag ==
  /\ pc = "idle"
  /\ runs < MaxRuns
  /\ runs' = runs + 1
  /\ event_fd' = "open" /\ counter' = 0
  /\ locked' = TRUE
  /\ pc' = "init" /\ pos' = 1
  /\ uninits' = [s \in Services |-> 0]
  /\ flag' = FALSE
  /\ UNCHANGED <<last, up, regVars, ready, revents, stopper, asked>>

(* The eventfd and the registry lock.                                      *)
Run ==
  /\ pc = "idle"
  /\ runs < MaxRuns
  /\ runs' = runs + 1
  /\ event_fd' = "open" /\ counter' = 0
  /\ locked' = TRUE
  /\ pc' = "init" /\ pos' = 1
  /\ uninits' = [s \in Services |-> 0]
  /\ UNCHANGED <<last, up, regVars, ready, revents, stopVars>>

(* eventfd fails: run() throws at once, event_fd_ is -1.                   *)
RunThrows ==
  /\ MayFail
  /\ pc = "idle"
  /\ runs < MaxRuns
  /\ runs' = runs + 1
  /\ event_fd' = "none"
  /\ UNCHANGED <<pc, pos, last, up, regVars, uninits, locked, counter, ready,
                 revents, stopVars>>

(* on_init registers a descriptor, a timer, both, or nothing.              *)
InitService ==
  /\ pc = "init"
  /\ pos <= NumServices
  /\ up' = up \cup {pos}
  /\ notifications' \in {notifications, notifications \cup {pos}}
  /\ timers' \in {timers, timers \cup {pos}}
  /\ pos' = pos + 1
  /\ UNCHANGED <<pc, last, uninits, locked, runs, fdVars, stopVars>>

(* Fault: the service that failed to initialise is uninitialised too.      *)
InitThrowsInclusive ==
  /\ MayFail
  /\ pc = "init"
  /\ pos <= NumServices
  /\ Uninit(pos + 1)
  /\ UNCHANGED <<svcVars, fdVars, stopVars>>

(* on_init throws: the services before it are rolled back.                 *)
InitThrows ==
  /\ MayFail
  /\ pc = "init"
  /\ pos <= NumServices
  /\ Uninit(pos)
  /\ UNCHANGED <<svcVars, fdVars, stopVars>>

(* With nothing registered there is nothing to wait for.                   *)
InitDone ==
  /\ pc = "init"
  /\ pos > NumServices
  /\ IF notifications \cup timers = {}
     THEN Uninit(NumServices + 1)
     ELSE pc' = "check" /\ UNCHANGED <<pos, last>>
  /\ UNCHANGED <<svcVars, fdVars, stopVars>>

(* while (!stop_requested_); the flag is cleared on the way out.           *)
CheckStop ==
  /\ pc = "check"
  /\ IF flag
     THEN /\ Uninit(NumServices + 1)
          /\ flag' = FALSE
          /\ asked' = FALSE
     ELSE /\ pc' = "tick" /\ pos' = 1
          /\ UNCHANGED <<last, flag, asked>>
  /\ UNCHANGED <<svcVars, fdVars, stopper>>

(* The ways a handler ends, in a step that leaves the rest to the caller.  *)
HandlerReturns ==
  /\ pos' = pos + 1
  /\ UNCHANGED <<pc, last, flag, asked, counter>>

HandlerStops ==
  /\ flag' = TRUE
  /\ asked' = TRUE
  /\ counter' = counter + 1
  /\ pos' = pos + 1
  /\ UNCHANGED <<pc, last>>

HandlerThrows ==
  /\ MayFail
  /\ Uninit(NumServices + 1)
  /\ UNCHANGED <<flag, asked, counter>>

(* Fault: the iteration over the timers goes past the end.                 *)
TickSkipPast ==
  /\ pc = "tick"
  /\ pos <= NumServices + 1
  /\ pos' = pos + 1
  /\ UNCHANGED <<pc, last, svcVars, fdVars, stopVars>>

(* A timer that has not expired, or a service without one.                 *)
TickSkip ==
  /\ pc = "tick"
  /\ pos <= NumServices
  /\ pos' = pos + 1
  /\ UNCHANGED <<pc, last, svcVars, fdVars, stopVars>>

TickFires ==
  /\ pc = "tick"
  /\ pos \in timers
  /\ HandlerReturns \/ HandlerStops \/ HandlerThrows
  /\ UNCHANGED <<svcVars, event_fd, ready, revents, stopper>>

TickDone ==
  /\ pc = "tick"
  /\ pos > NumServices
  /\ pc' = "poll"
  /\ UNCHANGED <<pos, last, svcVars, fdVars, stopVars>>

(* A descriptor becomes readable.                                          *)
Readable(s) ==
  /\ s \in (notifications \cap up) \ ready
  /\ ready' = ready \cup {s}
  /\ UNCHANGED <<loopVars, event_fd, counter, revents, stopVars>>

(* ppoll returns: with everything that is readable, or, after next_timeout *)
(* or a signal, with nothing.                                              *)
PollReturns ==
  /\ pc = "poll"
  /\ revents' = ready \cup (IF counter > 0 THEN {0} ELSE {})
  /\ pc' = "dispatch" /\ pos' = 0
  /\ UNCHANGED <<last, svcVars, event_fd, counter, ready,
                 stopVars>>

PollThrows ==
  /\ MayFail
  /\ pc = "poll"
  /\ Uninit(NumServices + 1)
  /\ UNCHANGED <<svcVars, fdVars, stopVars>>

(* event_fd_ is first among poll_events: its event is read and dropped.    *)
DispatchEvent ==
  /\ pc = "dispatch"
  /\ pos = 0
  /\ counter' = IF 0 \in revents THEN 0 ELSE counter
  /\ pos' = 1
  /\ UNCHANGED <<pc, last, svcVars, event_fd, ready,
                 revents, stopVars>>

DispatchSkip ==
  /\ pc = "dispatch"
  /\ pos \in Services \ revents
  /\ pos' = pos + 1
  /\ UNCHANGED <<pc, last, svcVars, fdVars, stopVars>>

(* The handler of a readable descriptor, which reads it empty.             *)
DispatchService ==
  /\ pc = "dispatch"
  /\ pos \in Services \cap revents
  /\ ready' = ready \ {pos}
  /\ HandlerReturns \/ HandlerStops \/ HandlerThrows
  /\ UNCHANGED <<svcVars, event_fd, revents, stopper>>

DispatchDone ==
  /\ pc = "dispatch"
  /\ pos > NumServices
  /\ pc' = "check"
  /\ UNCHANGED <<pos, last, svcVars, fdVars, stopVars>>

(* The catch block's rollback, or UninitGuard.                             *)
UninitService ==
  /\ pc = "uninit"
  /\ pos < last
  /\ up' = up \ {pos}
  /\ uninits' = [uninits EXCEPT ![pos] = @ + 1]
  /\ ready' = ready \ {pos}
  /\ pos' = pos + 1
  /\ UNCHANGED <<pc, last, regVars, locked, runs, event_fd, counter, revents,
                 stopVars>>

(* The registry is unlocked, the eventfd closed, and run() returns or      *)
(* throws.                                                                 *)
RunReturns ==
  /\ pc = "uninit"
  /\ pos = last
  /\ pc' = "idle"
  /\ locked' = FALSE
  /\ event_fd' = "closed" /\ counter' = 0
  /\ revents' = {}
  /\ notifications' = {} /\ timers' = {}
  /\ UNCHANGED <<pos, last, up, uninits, runs, ready, stopVars>>

-----------------------------------------------------------------------------

Loop ==
  \/ InitService \/ InitThrows \/ InitDone
  \/ CheckStop
  \/ TickSkip \/ TickFires \/ TickDone
  \/ PollReturns \/ PollThrows
  \/ DispatchEvent \/ DispatchSkip \/ DispatchService \/ DispatchDone
  \/ UninitService \/ RunReturns

Next ==
  \/ Run \/ RunThrows \/ Loop
  \/ \E s \in Services : Readable(s)
  \/ \E t \in Stoppers : RequestStop(t)

(* A run that has begun goes on: handlers return and ppoll has a timeout.  *)
(* A thread that is in request_stop finishes it.                           *)
Fairness ==
  /\ WF_vars(Loop)
  /\ \A t \in Stoppers : WF_vars(WriteEvent(t))

Spec == Init /\ [][Next]_vars
FairSpec == Spec /\ Fairness

-----------------------------------------------------------------------------

(* A stop never waits for ppoll's timeout: when the loop is about to sleep *)
(* and the flag is set, the eventfd is readable, or the thread that set    *)
(* the flag is about to make it so.                                        *)
StopWakesPoll ==
  pc = "poll" /\ flag =>
    counter > 0 \/ \E t \in Stoppers : stopper[t] = "flagged"

(* Every service that was initialised is uninitialised once, and a service *)
(* whose on_init was not reached, or threw, never is: at any point of the  *)
(* teardown the services uninitialised so far and those still up are those *)
(* that came up.                                                           *)
UninitOncePerInit ==
  /\ \A s \in Services : uninits[s] <= 1
  /\ pc = "uninit" => up = {s \in Services : pos <= s /\ s < last}
  /\ pc = "idle" => up = {}

(* The loop implements StoppableLoop: no stop is lost, whenever it is      *)
(* asked, every asked run ends, and every service goes down before run()   *)
(* is left.                                                                *)
Abstract == INSTANCE StoppableLoop WITH
  status <- CASE pc = "idle" -> "idle"
              [] pc = "uninit" -> "closing"
              [] OTHER -> "running"

ImplementsLoop == Abstract!Spec
=============================================================================
