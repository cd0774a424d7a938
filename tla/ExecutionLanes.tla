--------------------------- MODULE ExecutionLanes ---------------------------
(***************************************************************************)
(* execution_lanes (construction/execution_lanes_posix.cpp): a pool of     *)
(* LaneCount - 1 worker threads, each with a start and a done semaphore,   *)
(* and the thread that owns the pool and executes lane 0 itself.           *)
(* sem_wait() on a valid semaphore fails only with EINTR, which wait_sem() *)
(* retries, so a wait never fails here.  A failed start post has a path of *)
(* its own and is modelled; a failed done post has none (the owner would   *)
(* wait forever) and cannot happen to a valid semaphore below its maximum. *)
(***************************************************************************)
EXTENDS Naturals

CONSTANTS
  LaneCount,   \* lane_count given to start()
  CallBudget   \* bound: calls of run()

ASSUME LaneAssumption == LaneCount \in Nat \ {0}
ASSUME BudgetAssumption == CallBudget \in Nat

Workers == 1..(LaneCount - 1)
Lanes == 0..(LaneCount - 1)

VARIABLES
  pc,        \* the owner: start(), run() or the destructor
  next,      \* its loop index
  started,   \* workers run() has posted to
  active,    \* active_lanes
  function,  \* state.function is set
  stopping,  \* state.stopping
  ok,        \* the status of the last call
  wpc,       \* the workers: "none" is a thread that was never created
  startSem, doneSem,
  ran,       \* how often the current call has executed each lane
  calls

ownerVars == <<pc, next, started, active, function, stopping, ok, calls>>
workerVars == <<wpc, startSem, doneSem, ran>>
vars == <<ownerVars, workerVars>>

\* The type invariant; a semaphore never holds two tokens.
TypeOK ==
  /\ pc \in {"start", "idle", "post", "lane0", "wait", "unwind", "stop", "join", "gone"}
  /\ next \in 1..LaneCount
  /\ started \in 0..(LaneCount - 1)
  /\ active \in 0..LaneCount
  /\ function \in BOOLEAN /\ stopping \in BOOLEAN /\ ok \in BOOLEAN
  /\ wpc \in [Workers -> {"none", "waiting", "woken", "running", "exited"}]
  /\ startSem \in [Workers -> 0..1]
  /\ doneSem \in [Workers -> 0..1]
  /\ ran \in [Lanes -> Nat]
  /\ calls \in Nat

Init ==
  /\ pc = "start"
  /\ next = 1
  /\ started = 0
  /\ active = 0
  /\ function = FALSE /\ stopping = FALSE /\ ok = TRUE
  /\ wpc = [w \in Workers |-> "none"]
  /\ startSem = [w \in Workers |-> 0]
  /\ doneSem = [w \in Workers |-> 0]
  /\ ran = [l \in Lanes |-> 0]
  /\ calls = 0

-----------------------------------------------------------------------------
(***************************************************************************)
(* The owner                                                               *)
(***************************************************************************)

\* start(): one worker; a failure destroys the candidate pool.
StartWorker ==
  /\ pc = "start" /\ next < LaneCount
  /\ \/ /\ wpc' = [wpc EXCEPT ![next] = "waiting"]
        /\ next' = next + 1
        /\ UNCHANGED <<pc, ok>>
     \/ pc' = "stop" /\ next' = 1 /\ ok' = FALSE /\ UNCHANGED wpc
  /\ UNCHANGED <<started, active, function, stopping, calls, startSem, doneSem, ran>>

StartDone ==
  /\ pc = "start" /\ next = LaneCount
  /\ pc' = "idle"
  /\ next' = 1
  /\ UNCHANGED <<started, active, function, stopping, ok, calls, workerVars>>

\* run(n, f, context) begins.
Begin(n) ==
  /\ pc = "idle" /\ calls < CallBudget
  /\ calls' = calls + 1
  /\ function' = TRUE
  /\ active' = n
  /\ started' = 0
  /\ next' = 1
  /\ ok' = TRUE
  /\ ran' = [l \in Lanes |-> 0]
  /\ pc' = "post"
  /\ UNCHANGED <<stopping, wpc, startSem, doneSem>>

\* sem_post(start_sem) for lane next, or its failure.
Post ==
  /\ pc = "post" /\ next < active
  /\ \/ /\ startSem' = [startSem EXCEPT ![next] = @ + 1]
        /\ started' = started + 1
        /\ next' = next + 1
        /\ UNCHANGED <<pc, ok>>
     \/ /\ pc' = "unwind" /\ next' = 1 /\ ok' = FALSE
        /\ UNCHANGED <<startSem, started>>
  /\ UNCHANGED <<active, function, stopping, calls, wpc, doneSem, ran>>

PostDone ==
  /\ pc = "post" /\ next >= active
  /\ pc' = "lane0"
  /\ UNCHANGED <<next, started, active, function, stopping, ok, calls, workerVars>>

\* The owner executes lane 0.
RunLane0 ==
  /\ pc = "lane0"
  /\ ran' = [ran EXCEPT ![0] = @ + 1]
  /\ next' = 1
  /\ pc' = "wait"
  /\ UNCHANGED <<started, active, function, stopping, ok, calls, wpc, startSem, doneSem>>

\* wait_sem(done_sem) for the workers that were posted, after lane 0 or after
\* a failed post.
WaitDone ==
  /\ pc \in {"wait", "unwind"} /\ next <= started
  /\ doneSem[next] > 0
  /\ doneSem' = [doneSem EXCEPT ![next] = @ - 1]
  /\ next' = next + 1
  /\ UNCHANGED <<pc, started, active, function, stopping, ok, calls, wpc, startSem, ran>>

\* Mutant: a failed post returns without waiting for the workers it started.
Return_WithoutUnwind ==
  /\ \/ pc = "wait" /\ next > started
     \/ pc = "unwind"
  /\ function' = FALSE
  /\ next' = 1
  /\ pc' = "idle"
  /\ UNCHANGED <<started, active, stopping, ok, calls, workerVars>>

\* run() returns.
Return ==
  /\ pc \in {"wait", "unwind"} /\ next > started
  /\ function' = FALSE
  /\ next' = 1
  /\ pc' = "idle"
  /\ UNCHANGED <<started, active, stopping, ok, calls, workerVars>>

\* The destructor: stopping is set, then every thread is woken ...
Destroy ==
  /\ pc = "idle"
  /\ pc' = "stop" /\ next' = 1
  /\ UNCHANGED <<started, active, function, stopping, ok, calls, workerVars>>

Stop ==
  /\ pc = "stop"
  /\ stopping' = TRUE
  /\ startSem' = [w \in Workers |-> IF wpc[w] = "none" THEN 0 ELSE startSem[w] + 1]
  /\ next' = 1
  /\ pc' = "join"
  /\ UNCHANGED <<started, active, function, ok, calls, wpc, doneSem, ran>>

\* ... and joined.
Join ==
  /\ pc = "join" /\ next < LaneCount
  /\ wpc[next] \in {"none", "exited"}
  /\ next' = next + 1
  /\ UNCHANGED <<pc, started, active, function, stopping, ok, calls, workerVars>>

Deleted ==
  /\ pc = "join" /\ next = LaneCount
  /\ pc' = "gone"
  /\ UNCHANGED <<next, started, active, function, stopping, ok, calls, workerVars>>

Owner ==
  \/ StartWorker \/ StartDone \/ Post \/ PostDone \/ RunLane0 \/ WaitDone \/ Return
  \/ Stop \/ Join \/ Deleted

-----------------------------------------------------------------------------
(***************************************************************************)
(* The workers: lane_entry                                                 *)
(***************************************************************************)

Wake(w) ==
  /\ wpc[w] = "waiting" /\ startSem[w] > 0
  /\ startSem' = [startSem EXCEPT ![w] = @ - 1]
  /\ wpc' = [wpc EXCEPT ![w] = "woken"]
  /\ UNCHANGED <<ownerVars, doneSem, ran>>

\* Mutant: a woken worker spins until there is a function, whatever stopping says.
Decide_Spins(w) ==
  /\ wpc[w] = "woken"
  /\ wpc' = IF function THEN [wpc EXCEPT ![w] = "running"] ELSE wpc
  /\ UNCHANGED <<ownerVars, startSem, doneSem, ran>>

Decide(w) ==
  /\ wpc[w] = "woken"
  /\ wpc' = [wpc EXCEPT ![w] = IF stopping \/ ~function THEN "exited" ELSE "running"]
  /\ UNCHANGED <<ownerVars, startSem, doneSem, ran>>

\* Mutant: the done semaphore is posted before the function has run.
Finish_PostsFirst(w) ==
  /\ wpc[w] = "running"
  /\ IF doneSem[w] = 0 /\ ran[w] = 0
     THEN doneSem' = [doneSem EXCEPT ![w] = 1] /\ UNCHANGED <<ran, wpc>>
     ELSE /\ ran' = [ran EXCEPT ![w] = @ + 1]
          /\ wpc' = [wpc EXCEPT ![w] = "waiting"]
          /\ UNCHANGED doneSem
  /\ UNCHANGED <<ownerVars, startSem>>

\* The function returns and the worker posts its done semaphore.
Finish(w) ==
  /\ wpc[w] = "running"
  /\ ran' = [ran EXCEPT ![w] = @ + 1]
  /\ doneSem' = [doneSem EXCEPT ![w] = @ + 1]
  /\ wpc' = [wpc EXCEPT ![w] = "waiting"]
  /\ UNCHANGED <<ownerVars, startSem>>

Worker(w) == Wake(w) \/ Decide(w) \/ Finish(w)

Gone == pc = "gone" /\ UNCHANGED vars

Next ==
  \/ Owner \/ Destroy
  \/ \E n \in 1..LaneCount : Begin(n)
  \/ \E w \in Workers : Worker(w)
  \/ Gone

Spec == Init /\ [][Next]_vars

\* Every thread keeps running; the functions given to run() return.
FairSpec == Spec /\ WF_vars(Owner) /\ \A w \in Workers : WF_vars(Worker(w))

-----------------------------------------------------------------------------
(***************************************************************************)
(* Properties                                                              *)
(***************************************************************************)

\* Between calls, and after the destructor, no worker is inside the caller's
\* function and no semaphore holds a token that would let the next call start
\* or finish a lane early (run, lane_entry, destroy_state).
Quiescent ==
  /\ pc = "idle" => \A w \in Workers : wpc[w] = "waiting" /\ startSem[w] = 0 /\ doneSem[w] = 0
  /\ pc = "gone" => \A w \in Workers : wpc[w] \in {"none", "exited"}

\* A call that was begun returns and a destructor that was entered ends: owner
\* and workers never wait for each other.
CallsEnd == pc \notin {"idle", "gone"} ~> pc \in {"idle", "gone"}

\* The refinement mapping to LaneCalls.
Phase ==
  CASE pc \in {"start", "idle"} -> "idle"
    [] pc \in {"stop", "join", "gone"} -> "gone"
    [] OTHER -> "running"

Executed == {l \in Lanes : ran[l] > 0}

Status ==
  IF Phase = "running" \/ calls = 0 THEN "none" ELSE IF ok THEN "ok" ELSE "failed"

Calls == INSTANCE LaneCalls WITH phase <- Phase, done <- Executed, status <- Status

\* The pool keeps the promise of LaneCalls: each lane exactly once in a call
\* that returns success, an error only if some lane was not executed, and
\* nothing executes outside of a call.
KeepsLaneContract == Calls!Spec

=============================================================================
