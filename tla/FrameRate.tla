------------------------------ MODULE FrameRate ------------------------------
(***************************************************************************)
(* FrameTime (utils/frame_time.cpp).                                       *)
(*                                                                         *)
(* Times are nanoseconds.  fps() and a timer's expiry are computed in      *)
(* float: the operators below are IEEE single precision on the values that *)
(* occur, rounding to nearest, ties to even, in integer arithmetic.        *)
(***************************************************************************)
EXTENDS Integers

kNsPerSec == 1000000000
kNsPerMs == 1000000

-----------------------------------------------------------------------------
(* Single precision.                                                       *)

(* Neighbouring floats are at most 64 apart here, and quotients below 128. *)
PowersOfTwo == {2^k : k \in 0 .. 6}

(* Distance of neighbouring floats at the integer n.                       *)
Spacing(n) == CHOOSE s \in PowersOfTwo :
                /\ n < s * 2^24
                /\ s > 1 => n >= (s \div 2) * 2^24

(* static_cast<float>(n), for n below 2^30.                                *)
Float(n) ==
  LET s == Spacing(n)
      below == n \div s
      rest == n % s
  IN IF 2 * rest < s \/ (2 * rest = s /\ below % 2 = 0)
     THEN below * s
     ELSE (below + 1) * s

(* The integer part of the float quotient of floats a and b, where it has  *)
(* an integer part: the exact quotient's, unless that is within half a     *)
(* float's distance of the next integer.  A quotient has neighbours        *)
(* p * 2^-23 apart when p is the power of two below it.                    *)
TruncatedQuotient(a, b) ==
  LET q == a \div b
      p == CHOOSE p \in PowersOfTwo : p <= q /\ q < 2 * p
  IN IF (q + 1) * b - a <= b \div (2^24 \div p) THEN q + 1 ELSE q

-----------------------------------------------------------------------------

from_fps(fps) == kNsPerSec \div fps

value_in_milliseconds(ft) == (ft + kNsPerMs \div 2) \div kNsPerMs

(* static_cast<int>(fps()), the denominator of fps_ratio().                *)
fps_ratio(ft) == TruncatedQuotient(Float(kNsPerSec), Float(ft))

truncate_to_millisecond(ft) == (ft \div kNsPerMs) * kNsPerMs

(* ReadinessRegister: FrameTimeRatio(1) times the frame time, in float.    *)
TimerExpiry(ft) == Float(ft)
=============================================================================
