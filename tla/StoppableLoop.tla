---------------------------- MODULE StoppableLoop ----------------------------
(***************************************************************************)
(* What Context::run promises its callers (doc/architecture.md, section    *)
(* 1), without descriptors, flags or iterators: services come up while it  *)
(* runs and all go down before it returns; a stop asked at any time, also  *)
(* before run() is entered, is remembered until it has ended a run.        *)
(***************************************************************************)

CONSTANT Services

VARIABLES
  status,  \* "idle", "running" or "closing"
  asked,   \* a stop has been asked for that no run has obeyed yet
  up       \* services that are initialised

vars == <<status, asked, up>>

Init == status = "idle" /\ asked = FALSE /\ up = {}

(* request_stop().                                                         *)
Ask ==
  /\ asked' = TRUE
  /\ UNCHANGED <<status, up>>

(* run() is entered.                                                       *)
Start ==
  /\ status = "idle"
  /\ status' = "running"
  /\ UNCHANGED <<asked, up>>

Bring(s) ==
  /\ status = "running"
  /\ s \notin up
  /\ up' = up \cup {s}
  /\ UNCHANGED <<status, asked>>

(* The run ends because it was asked to.                                   *)
Obey ==
  /\ status = "running"
  /\ asked
  /\ status' = "closing"
  /\ asked' = FALSE
  /\ UNCHANGED up

(* The run ends by itself: an exception, or nothing to wait for.           *)
Leave ==
  /\ status = "running"
  /\ status' = "closing"
  /\ UNCHANGED <<asked, up>>

Drop(s) ==
  /\ status = "closing"
  /\ s \in up
  /\ up' = up \ {s}
  /\ UNCHANGED <<status, asked>>

Return ==
  /\ status = "closing"
  /\ up = {}
  /\ status' = "idle"
  /\ UNCHANGED <<asked, up>>

Next ==
  \/ Ask \/ Start \/ Obey \/ Leave \/ Return
  \/ \E s \in Services : Bring(s) \/ Drop(s)

Safe == Init /\ [][Next]_vars

(* An asked stop ends the run, and a run that ends returns.                *)
Spec ==
  /\ Safe
  /\ WF_vars(Obey)
  /\ WF_vars(Return \/ \E s \in Services : Drop(s))
=============================================================================
