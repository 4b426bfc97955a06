---------------------------- MODULE MCFramePacing ----------------------------
(* FramePacing with two timers: one on every frame and one, faster, at     *)
(* half the frame time, so that the shorter one decides the sleep.         *)
EXTENDS FramePacing

MCPeriod == [t \in Timers |-> IF t = "video" THEN 4 ELSE 2]
=============================================================================
