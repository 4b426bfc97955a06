----------------------------- MODULE FramePacing -----------------------------
(***************************************************************************)
(* The frame clock of Context::run (services/context.cpp): one turn of the *)
(* loop reads the elapsed time, ticks every timer that the services have   *)
(* registered (tick_timers) and sleeps in ppoll until the next one is due. *)
(*                                                                         *)
(* A turn is late by up to MaxLag: the time spent in dispatch functions    *)
(* and the scheduler's delay.  It is early when a descriptor becomes       *)
(* readable first.  Both come out of ppoll and are the same to the timers, *)
(* which only see dt, the time since the previous turn.                    *)
(***************************************************************************)
EXTENDS Integers, FiniteSetsExt

CONSTANTS
  Timers,        \* the registered timers
  Period,        \* frame_time of each timer
  MaxFrameTime,  \* frame_time_ of the context: the longest sleep
  MaxLag,        \* the longest a turn may start late
  MaxElapsed     \* bound: time covered by a behaviour

ASSUME ConstantsAssumption ==
  /\ Period \in [Timers -> Nat \ {0}]
  /\ MaxFrameTime \in Nat
  /\ MaxLag \in Nat
  /\ MaxElapsed \in Nat

VARIABLES
  remaining,   \* FrameTickReadiness::remaining of each timer
  dispatched,  \* history: dispatches of each timer
  last,        \* history: time of each timer's latest dispatch
  penult,      \* history: time of the dispatch before it
  elapsed      \* time since the loop started

clockVars == <<remaining, dispatched, last, penult, elapsed>>

Lesser(a, b) == IF a <= b THEN a ELSE b

ClockTypeOK ==
  /\ remaining \in [Timers -> Nat]
  /\ dispatched \in [Timers -> Nat]
  /\ last \in [Timers -> Nat]
  /\ penult \in [Timers -> Nat]
  /\ elapsed \in Nat

(* ReadinessRegister gives a timer no time to wait before its first tick.  *)
ClockInit ==
  /\ remaining = [t \in Timers |-> 0]
  /\ dispatched = [t \in Timers |-> 0]
  /\ last = [t \in Timers |-> 0]
  /\ penult = [t \in Timers |-> 0]
  /\ elapsed = 0

Due(t, dt) == dt >= remaining[t]

(* Faults: a late timer fires again at once; the overshoot is taken off    *)
(* twice.                                                                  *)
RemainingFiresAgain(t, dt) ==
  IF Due(t, dt) THEN IF dt > remaining[t] THEN 0 ELSE Period[t]
                ELSE remaining[t] - dt
RemainingTwice(t, dt) ==
  IF Due(t, dt) THEN Period[t] - Lesser(2 * (dt - remaining[t]), Period[t])
                ELSE remaining[t] - dt

(* tick_timers for one timer.                                              *)
Remaining(t, dt) ==
  IF Due(t, dt) THEN Period[t] - Lesser(dt - remaining[t], Period[t])
                ELSE remaining[t] - dt

(* Fault: the sleep ignores the timers.                                    *)
TimeoutFixed == MaxFrameTime

(* What tick_timers returned at the end of the previous turn: the sleep    *)
(* given to ppoll.                                                         *)
NextTimeout == Min({MaxFrameTime} \cup {remaining[t] : t \in Timers})

(* One turn of the loop.                                                   *)
LoopTurn(dt) ==
  /\ dt <= NextTimeout + MaxLag
  /\ elapsed + dt <= MaxElapsed
  /\ elapsed' = elapsed + dt
  /\ remaining' = [t \in Timers |-> Remaining(t, dt)]
  /\ dispatched' = [t \in Timers |->
                      IF Due(t, dt) THEN dispatched[t] + 1 ELSE dispatched[t]]
  /\ last' = [t \in Timers |-> IF Due(t, dt) THEN elapsed + dt ELSE last[t]]
  /\ penult' = [t \in Timers |-> IF Due(t, dt) THEN last[t] ELSE penult[t]]

ClockNext == \E dt \in 0 .. MaxElapsed : LoopTurn(dt)

ClockSpec == ClockInit /\ [][ClockNext]_clockVars

-----------------------------------------------------------------------------

(* tick_timers never runs a timer faster than its period: n dispatches     *)
(* take at least n - 1 periods, however late or early the turns are.       *)
NeverFast ==
  \A t \in Timers :
    /\ remaining[t] <= Period[t]
    /\ dispatched[t] * Period[t] <= elapsed + remaining[t]

(* Lateness does not accumulate: as long as turns are never more than one  *)
(* period late, the n-th dispatch stays within a period of its ideal time  *)
(* for ever.                                                               *)
NoDrift ==
  \A t \in Timers :
    MaxLag <= Period[t] =>
      dispatched[t] * Period[t] = elapsed + remaining[t]

(* Frames missed in a stall are dropped, not replayed: a dispatch comes at *)
(* least a period after the one before the previous one, so a stall of any *)
(* length is followed by at most one frame out of turn.                    *)
NoBurst ==
  \A t \in Timers :
    dispatched[t] >= 2 => elapsed + remaining[t] >= penult[t] + Period[t]
=============================================================================
