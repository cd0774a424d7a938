------------------------------ MODULE LaneCalls ------------------------------
(***************************************************************************)
(* What execution_lanes promises its callers: a call of run(n, f, context) *)
(* executes f once for every lane below n before it returns success, in    *)
(* any order; a call that fails may have executed some of them; nothing    *)
(* executes between calls, so the caller's context may die when run()      *)
(* returns.                                                                *)
(***************************************************************************)
EXTENDS Naturals

CONSTANT LaneCount      \* lane_count given to start()

VARIABLES
  phase,   \* "idle", "running" or "gone"
  active,  \* active_lanes of the current or the last call
  done,    \* lanes the current or the last call has executed
  status   \* what the last call returned; "none" before that

vars == <<phase, active, done, status>>

Init == phase = "idle" /\ active = 0 /\ done = {} /\ status = "none"

Begin(n) ==
  /\ phase = "idle"
  /\ phase' = "running" /\ active' = n /\ done' = {} /\ status' = "none"

Execute(lane) ==
  /\ phase = "running"
  /\ lane < active /\ lane \notin done
  /\ done' = done \cup {lane}
  /\ UNCHANGED <<phase, active, status>>

Succeed ==
  /\ phase = "running" /\ done = 0..(active - 1)
  /\ phase' = "idle" /\ status' = "ok"
  /\ UNCHANGED <<active, done>>

\* An error is returned only when some lane was not executed.
Fail ==
  /\ phase = "running" /\ done # 0..(active - 1)
  /\ phase' = "idle" /\ status' = "failed"
  /\ UNCHANGED <<active, done>>

Destroy ==
  /\ phase = "idle"
  /\ phase' = "gone"
  /\ UNCHANGED <<active, done, status>>

Next ==
  \/ \E n \in 1..LaneCount : Begin(n)
  \/ \E lane \in 0..(LaneCount - 1) : Execute(lane)
  \/ Succeed \/ Fail \/ Destroy

Spec == Init /\ [][Next]_vars

=============================================================================
