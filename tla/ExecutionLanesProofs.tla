------------------------ MODULE ExecutionLanesProofs ------------------------
(***************************************************************************)
(* Proofs about execution_lanes, for every number of lanes and every bound *)
(* on the calls: the types, the quiescence between calls and after the     *)
(* destructor, and the refinement of LaneCalls.                            *)
(***************************************************************************)
EXTENDS ExecutionLanes, TLAPS

(***************************************************************************)
(* The inductive invariant.  It says where the single token of each worker *)
(* is: in the worker's start semaphore, in the worker itself, in its done  *)
(* semaphore, or already collected by run().                               *)
(***************************************************************************)

\* The worker sleeps and holds no token.
Rests(w) == wpc[w] = "waiting" /\ startSem[w] = 0 /\ doneSem[w] = 0

\* The worker has been posted to and has not been waited for.
Busy(w) ==
  \/ wpc[w] = "waiting" /\ startSem[w] = 1 /\ doneSem[w] = 0 /\ ran[w] = 0
  \/ wpc[w] \in {"woken", "running"} /\ startSem[w] = 0 /\ doneSem[w] = 0 /\ ran[w] = 0
  \/ wpc[w] = "waiting" /\ startSem[w] = 0 /\ doneSem[w] = 1 /\ ran[w] = 1

InCall == pc \in {"post", "lane0", "wait", "unwind"}

\* run() waits for the workers one by one: those below next are done with.
Collected(w) == pc \in {"wait", "unwind"} /\ w < next

StartInv ==
  pc = "start" =>
    /\ active = 0 /\ calls = 0 /\ ~function /\ ~stopping
    /\ \A l \in Lanes : ran[l] = 0
    /\ \A w \in Workers : /\ startSem[w] = 0 /\ doneSem[w] = 0
                          /\ wpc[w] = IF w < next THEN "waiting" ELSE "none"

IdleInv == pc = "idle" => ~function /\ ~stopping /\ \A w \in Workers : Rests(w)

CallInv ==
  InCall =>
    /\ function /\ ~stopping /\ calls > 0
    /\ active \in 1..LaneCount /\ started < active
    /\ ran[0] = IF pc = "wait" THEN 1 ELSE 0
    /\ pc = "post" => next = started + 1
    /\ pc \in {"lane0", "wait"} => started = active - 1
    /\ pc = "unwind" => started < active - 1
    /\ pc \in {"wait", "unwind"} => next <= started + 1

\* The status run() will return.
StatusInv ==
  /\ pc = "unwind" => ~ok
  /\ pc \in {"post", "lane0", "wait"} => ok

TokenInv ==
  InCall =>
    \A w \in Workers :
      IF w <= started /\ ~Collected(w)
      THEN Busy(w)
      ELSE Rests(w) /\ ran[w] = IF w <= started THEN 1 ELSE 0

StopInv ==
  /\ pc = "stop" => /\ ~function /\ ~stopping
                    /\ \A w \in Workers : /\ wpc[w] \in {"none", "waiting"}
                                          /\ startSem[w] = 0 /\ doneSem[w] = 0
  /\ pc \in {"join", "gone"} =>
       /\ stopping
       /\ \A w \in Workers :
            /\ doneSem[w] = 0
            /\ wpc[w] \in {"none", "waiting", "woken", "exited"}
            /\ wpc[w] # "waiting" => startSem[w] = 0
  /\ pc = "join" => \A w \in Workers : w < next => wpc[w] \in {"none", "exited"}
  /\ pc = "gone" => \A w \in Workers : wpc[w] \in {"none", "exited"}

LaneInv ==
  /\ TypeOK
  /\ StartInv /\ IdleInv /\ CallInv /\ StatusInv /\ TokenInv /\ StopInv

-----------------------------------------------------------------------------
(***************************************************************************)
(* Every step preserves it: one lemma per action                           *)
(***************************************************************************)

LEMMA StartWorkerStep ==
  ASSUME LaneInv, StartWorker PROVE LaneInv'
<1> USE LaneAssumption DEF LaneInv, TypeOK, Workers, Lanes, StartWorker, workerVars, ownerVars
<1>1. TypeOK'
  <2>1. pc' \in {"start", "stop"} /\ next' \in 1..LaneCount
    OBVIOUS
  <2>3. ok' \in BOOLEAN
    BY Zenon
  <2>2. wpc' \in [Workers -> {"none", "waiting", "woken", "running", "exited"}]
    OBVIOUS
  <2> QED
    BY <2>1, <2>2, <2>3
<1>2. StartInv' /\ IdleInv'
  BY DEF StartInv, IdleInv, CallInv, TokenInv, Rests, Collected, InCall
<1>3. CallInv'
  BY DEF StartInv, CallInv, InCall
<1>4. TokenInv'
  BY DEF IdleInv, CallInv, TokenInv, InCall, Rests, Busy, Collected
<1>5. StopInv'
  BY DEF StartInv, IdleInv, StopInv, Rests
<1>6. StatusInv'
  BY DEF StatusInv
<1> QED
  BY <1>1, <1>2, <1>3, <1>4, <1>5, <1>6

LEMMA StartDoneStep ==
  ASSUME LaneInv, StartDone PROVE LaneInv'
<1> USE LaneAssumption DEF LaneInv, TypeOK, Workers, Lanes, StartDone, workerVars, ownerVars
<1>1. TypeOK'
  OBVIOUS
<1>2. StartInv' /\ IdleInv'
  BY DEF StartInv, IdleInv, CallInv, TokenInv, Rests, Collected, InCall
<1>3. CallInv'
  BY DEF StartInv, CallInv, InCall
<1>4. TokenInv'
  BY DEF IdleInv, CallInv, TokenInv, InCall, Rests, Busy, Collected
<1>5. StopInv'
  BY DEF StartInv, IdleInv, StopInv, Rests
<1>6. StatusInv'
  BY DEF StatusInv
<1> QED
  BY <1>1, <1>2, <1>3, <1>4, <1>5, <1>6

LEMMA BeginStep ==
  ASSUME NEW n \in 1..LaneCount, LaneInv, Begin(n) PROVE LaneInv'
<1> USE LaneAssumption DEF LaneInv, TypeOK, Workers, Lanes, Begin, workerVars, ownerVars
<1>1. TypeOK'
  OBVIOUS
<1>2. StartInv' /\ IdleInv'
  BY DEF StartInv, IdleInv, CallInv, TokenInv, Rests, Collected, InCall
<1>3. CallInv'
  <2>1. ran'[0] = 0
    OBVIOUS
  <2> QED
    BY <2>1 DEF IdleInv, CallInv, InCall
<1>4. TokenInv'
  BY DEF IdleInv, CallInv, TokenInv, InCall, Rests, Busy, Collected
<1>5. StopInv'
  BY DEF StartInv, IdleInv, StopInv, Rests
<1>6. StatusInv'
  BY DEF StatusInv
<1> QED
  BY <1>1, <1>2, <1>3, <1>4, <1>5, <1>6

LEMMA PostStep ==
  ASSUME LaneInv, Post PROVE LaneInv'
<1> USE LaneAssumption DEF LaneInv, TypeOK, Workers, Lanes, Post, workerVars, ownerVars
<1>1. TypeOK'
  <2>1. next \in Workers /\ startSem[next] = 0
    BY DEF CallInv, TokenInv, InCall, Rests, Collected
  <2>2. startSem' \in [Workers -> 0..1]
    BY <2>1
  <2>3. pc' \in {"post", "unwind"} /\ next' \in 1..LaneCount /\ started' \in 0..(LaneCount - 1)
    BY DEF CallInv, InCall
  <2>4. ok' \in BOOLEAN
    OBVIOUS
  <2> QED
    BY <2>2, <2>3, <2>4
<1>2. StartInv' /\ IdleInv'
  BY DEF StartInv, IdleInv, CallInv, TokenInv, Rests, Collected, InCall
<1>3. CallInv'
  BY DEF StartInv, CallInv, InCall
<1>4. TokenInv'
  BY DEF IdleInv, CallInv, TokenInv, InCall, Rests, Busy, Collected
<1>5. StopInv'
  BY DEF StartInv, IdleInv, StopInv, Rests
<1>6. StatusInv'
  <2>1. CASE pc' = "post" /\ UNCHANGED ok
    BY <2>1 DEF StatusInv
  <2>2. CASE pc' = "unwind" /\ ok' = FALSE
    BY <2>2 DEF StatusInv
  <2> QED
    BY <2>1, <2>2
<1> QED
  BY <1>1, <1>2, <1>3, <1>4, <1>5, <1>6

LEMMA PostDoneStep ==
  ASSUME LaneInv, PostDone PROVE LaneInv'
<1> USE LaneAssumption DEF LaneInv, TypeOK, Workers, Lanes, PostDone, workerVars, ownerVars
<1>1. TypeOK'
  OBVIOUS
<1>2. StartInv' /\ IdleInv'
  BY DEF StartInv, IdleInv, CallInv, TokenInv, Rests, Collected, InCall
<1>3. CallInv'
  BY DEF StartInv, CallInv, InCall
<1>4. TokenInv'
  BY DEF IdleInv, CallInv, TokenInv, InCall, Rests, Busy, Collected
<1>5. StopInv'
  BY DEF StartInv, IdleInv, StopInv, Rests
<1>6. StatusInv'
  BY DEF StatusInv
<1> QED
  BY <1>1, <1>2, <1>3, <1>4, <1>5, <1>6

LEMMA RunLane0Step ==
  ASSUME LaneInv, RunLane0 PROVE LaneInv'
<1> USE LaneAssumption DEF LaneInv, TypeOK, Workers, Lanes, RunLane0, workerVars, ownerVars
<1>1. TypeOK'
  OBVIOUS
<1>2. StartInv' /\ IdleInv'
  BY DEF StartInv, IdleInv, CallInv, TokenInv, Rests, Collected, InCall
<1>3. CallInv'
  BY DEF StartInv, CallInv, InCall
<1>4. TokenInv'
  BY DEF IdleInv, CallInv, TokenInv, InCall, Rests, Busy, Collected
<1>5. StopInv'
  BY DEF StartInv, IdleInv, StopInv, Rests
<1>6. StatusInv'
  BY DEF StatusInv
<1> QED
  BY <1>1, <1>2, <1>3, <1>4, <1>5, <1>6

LEMMA WaitDoneStep ==
  ASSUME LaneInv, WaitDone PROVE LaneInv'
<1> USE LaneAssumption DEF LaneInv, TypeOK, Workers, Lanes, WaitDone, workerVars, ownerVars
<1>1. TypeOK'
  OBVIOUS
<1>2. StartInv' /\ IdleInv'
  BY DEF StartInv, IdleInv, CallInv, TokenInv, Rests, Collected, InCall
<1>3. CallInv'
  BY DEF StartInv, CallInv, InCall
<1>4. TokenInv'
  BY DEF IdleInv, CallInv, TokenInv, InCall, Rests, Busy, Collected
<1>5. StopInv'
  BY DEF StartInv, IdleInv, StopInv, Rests
<1>6. StatusInv'
  BY DEF StatusInv
<1> QED
  BY <1>1, <1>2, <1>3, <1>4, <1>5, <1>6

LEMMA ReturnStep ==
  ASSUME LaneInv, Return PROVE LaneInv'
<1> USE LaneAssumption DEF LaneInv, TypeOK, Workers, Lanes, Return, workerVars, ownerVars
<1>1. TypeOK'
  <2>1. next' \in 1..LaneCount
    OBVIOUS
  <2> QED
    BY <2>1
<1>2. StartInv' /\ IdleInv'
  BY DEF StartInv, IdleInv, CallInv, TokenInv, Rests, Collected, InCall
<1>3. CallInv'
  BY DEF StartInv, CallInv, InCall
<1>4. TokenInv'
  BY DEF IdleInv, CallInv, TokenInv, InCall, Rests, Busy, Collected
<1>5. StopInv'
  BY DEF StartInv, IdleInv, StopInv, Rests
<1>6. StatusInv'
  BY DEF StatusInv
<1> QED
  BY <1>1, <1>2, <1>3, <1>4, <1>5, <1>6

LEMMA DestroyStep ==
  ASSUME LaneInv, Destroy PROVE LaneInv'
<1> USE LaneAssumption DEF LaneInv, TypeOK, Workers, Lanes, Destroy, workerVars, ownerVars
<1>1. TypeOK'
  OBVIOUS
<1>2. StartInv' /\ IdleInv'
  BY DEF StartInv, IdleInv, CallInv, TokenInv, Rests, Collected, InCall
<1>3. CallInv'
  BY DEF StartInv, CallInv, InCall
<1>4. TokenInv'
  BY DEF IdleInv, CallInv, TokenInv, InCall, Rests, Busy, Collected
<1>5. StopInv'
  BY DEF StartInv, IdleInv, StopInv, Rests
<1>6. StatusInv'
  BY DEF StatusInv
<1> QED
  BY <1>1, <1>2, <1>3, <1>4, <1>5, <1>6

LEMMA StopStep ==
  ASSUME LaneInv, Stop PROVE LaneInv'
<1> USE LaneAssumption DEF LaneInv, TypeOK, Workers, Lanes, Stop, workerVars, ownerVars
<1>1. TypeOK'
  BY DEF StopInv
<1>2. StartInv' /\ IdleInv'
  BY DEF StartInv, IdleInv, CallInv, TokenInv, Rests, Collected, InCall
<1>3. CallInv'
  BY DEF StartInv, CallInv, InCall
<1>4. TokenInv'
  BY DEF IdleInv, CallInv, TokenInv, InCall, Rests, Busy, Collected
<1>5. StopInv'
  BY DEF StartInv, IdleInv, StopInv, Rests
<1>6. StatusInv'
  BY DEF StatusInv
<1> QED
  BY <1>1, <1>2, <1>3, <1>4, <1>5, <1>6

LEMMA JoinStep ==
  ASSUME LaneInv, Join PROVE LaneInv'
<1> USE LaneAssumption DEF LaneInv, TypeOK, Workers, Lanes, Join, workerVars, ownerVars
<1>1. TypeOK'
  OBVIOUS
<1>2. StartInv' /\ IdleInv'
  BY DEF StartInv, IdleInv, CallInv, TokenInv, Rests, Collected, InCall
<1>3. CallInv'
  BY DEF StartInv, CallInv, InCall
<1>4. TokenInv'
  BY DEF IdleInv, CallInv, TokenInv, InCall, Rests, Busy, Collected
<1>5. StopInv'
  BY DEF StartInv, IdleInv, StopInv, Rests
<1>6. StatusInv'
  BY DEF StatusInv
<1> QED
  BY <1>1, <1>2, <1>3, <1>4, <1>5, <1>6

LEMMA DeletedStep ==
  ASSUME LaneInv, Deleted PROVE LaneInv'
<1> USE LaneAssumption DEF LaneInv, TypeOK, Workers, Lanes, Deleted, workerVars, ownerVars
<1>1. TypeOK'
  OBVIOUS
<1>2. StartInv' /\ IdleInv'
  BY DEF StartInv, IdleInv, CallInv, TokenInv, Rests, Collected, InCall
<1>3. CallInv'
  BY DEF StartInv, CallInv, InCall
<1>4. TokenInv'
  BY DEF IdleInv, CallInv, TokenInv, InCall, Rests, Busy, Collected
<1>5. StopInv'
  BY DEF StartInv, IdleInv, StopInv, Rests
<1>6. StatusInv'
  BY DEF StatusInv
<1> QED
  BY <1>1, <1>2, <1>3, <1>4, <1>5, <1>6

LEMMA WakeStep ==
  ASSUME NEW w \in Workers, LaneInv, Wake(w) PROVE LaneInv'
<1> USE LaneAssumption DEF LaneInv, TypeOK, Workers, Lanes, Wake, workerVars, ownerVars
<1>1. TypeOK'
  OBVIOUS
<1>2. StartInv' /\ IdleInv'
  BY DEF StartInv, IdleInv, CallInv, TokenInv, Rests, Collected, InCall
<1>3. CallInv'
  BY DEF StartInv, CallInv, InCall
<1>4. TokenInv'
  BY DEF IdleInv, CallInv, TokenInv, InCall, Rests, Busy, Collected
<1>5. StopInv'
  BY DEF StartInv, IdleInv, StopInv, Rests
<1>6. StatusInv'
  BY DEF StatusInv
<1> QED
  BY <1>1, <1>2, <1>3, <1>4, <1>5, <1>6

LEMMA DecideStep ==
  ASSUME NEW w \in Workers, LaneInv, Decide(w) PROVE LaneInv'
<1> USE LaneAssumption DEF LaneInv, TypeOK, Workers, Lanes, Decide, workerVars, ownerVars
<1>1. TypeOK'
  OBVIOUS
<1>2. StartInv' /\ IdleInv'
  BY DEF StartInv, IdleInv, CallInv, TokenInv, Rests, Collected, InCall
<1>3. CallInv'
  BY DEF StartInv, CallInv, InCall
<1>4. TokenInv'
  BY DEF IdleInv, CallInv, TokenInv, InCall, Rests, Busy, Collected
<1>5. StopInv'
  BY DEF StartInv, IdleInv, StopInv, Rests
<1>6. StatusInv'
  BY DEF StatusInv
<1> QED
  BY <1>1, <1>2, <1>3, <1>4, <1>5, <1>6

LEMMA FinishStep ==
  ASSUME NEW w \in Workers, LaneInv, Finish(w) PROVE LaneInv'
<1> USE LaneAssumption DEF LaneInv, TypeOK, Workers, Lanes, Finish, workerVars, ownerVars
<1>1. TypeOK'
  <2>1. doneSem[w] = 0 /\ w \in Lanes
    BY DEF StartInv, IdleInv, TokenInv, StopInv, InCall, Rests, Busy
  <2> QED
    BY <2>1
<1>2. StartInv' /\ IdleInv'
  BY DEF StartInv, IdleInv, CallInv, TokenInv, Rests, Collected, InCall
<1>3. CallInv'
  BY DEF StartInv, CallInv, InCall
<1>4. TokenInv'
  BY DEF IdleInv, CallInv, TokenInv, InCall, Rests, Busy, Collected
<1>5. StopInv'
  BY DEF StartInv, IdleInv, StopInv, Rests
<1>6. StatusInv'
  BY DEF StatusInv
<1> QED
  BY <1>1, <1>2, <1>3, <1>4, <1>5, <1>6

-----------------------------------------------------------------------------
(***************************************************************************)
(* The theorems                                                            *)
(***************************************************************************)

LEMMA LaneStep == ASSUME LaneInv, [Next]_vars PROVE LaneInv'
<1>1. CASE Owner
  BY <1>1, StartWorkerStep, StartDoneStep, PostStep, PostDoneStep, RunLane0Step,
     WaitDoneStep, ReturnStep, StopStep, JoinStep, DeletedStep DEF Owner
<1>2. CASE Destroy
  BY <1>2, DestroyStep
<1>3. CASE \E n \in 1..LaneCount : Begin(n)
  BY <1>3, BeginStep
<1>4. CASE \E w \in Workers : Worker(w)
  BY <1>4, WakeStep, DecideStep, FinishStep DEF Worker
<1>5. CASE UNCHANGED vars
  <2> USE <1>5 DEF vars, ownerVars, workerVars, LaneInv
  <2>1. TypeOK' /\ StartInv' /\ IdleInv'
    BY DEF TypeOK, StartInv, IdleInv, Rests
  <2>2. CallInv' /\ StopInv'
    BY DEF CallInv, StopInv, InCall
  <2>4. StatusInv'
    BY DEF StatusInv
  <2>3. TokenInv'
    BY DEF TokenInv, InCall, Rests, Busy, Collected
  <2> QED
    BY <2>1, <2>2, <2>3, <2>4
<1> QED
  BY <1>1, <1>2, <1>3, <1>4, <1>5 DEF Next, Gone

LEMMA LaneInit == Init => LaneInv
<1> SUFFICES ASSUME Init PROVE LaneInv
  OBVIOUS
<1> USE LaneAssumption DEF Init, Workers, Lanes
<1>1. TypeOK
  <2>1. next \in 1..LaneCount /\ started \in 0..(LaneCount - 1) /\ active \in 0..LaneCount
    OBVIOUS
  <2>2. startSem \in [Workers -> 0..1] /\ doneSem \in [Workers -> 0..1] /\ ran \in [Lanes -> Nat]
    OBVIOUS
  <2> QED
    BY <2>1, <2>2 DEF TypeOK
<1>2. StartInv
  BY DEF StartInv
<1>3. IdleInv /\ CallInv /\ StatusInv /\ TokenInv /\ StopInv
  BY DEF IdleInv, StatusInv, CallInv, TokenInv, StopInv, InCall
<1> QED
  BY <1>1, <1>2, <1>3 DEF LaneInv

LEMMA LaneInvariant == Spec => []LaneInv
BY LaneInit, LaneStep, PTL DEF Spec

\* The type invariant; in particular no semaphore of the pool ever holds two
\* tokens, for any number of lanes (execution_lanes_posix.cpp).
THEOREM LanesTyped == Spec => []TypeOK
<1>1. LaneInv => TypeOK
  BY DEF LaneInv
<1> QED
  BY <1>1, LaneInvariant, PTL

\* Between calls every worker sleeps and no token is left behind, also after a
\* call whose post failed; after the destructor every created thread has ended.
THEOREM LanesQuiescent == Spec => []Quiescent
<1>1. LaneInv => Quiescent
  BY DEF LaneInv, IdleInv, StopInv, Rests, Quiescent
<1> QED
  BY <1>1, LaneInvariant, PTL

-----------------------------------------------------------------------------
(***************************************************************************)
(* The refinement of LaneCalls                                             *)
(***************************************************************************)

\* A step that neither enters nor leaves a call and executes no lane.
LEMMA Stutters ==
  ASSUME LaneInv, UNCHANGED <<active, ran, Phase, Status>>
  PROVE  UNCHANGED Calls!vars
BY DEF Calls!vars, Executed

LEMMA BeginRefines ==
  ASSUME LaneInv, NEW n \in 1..LaneCount, Begin(n) PROVE Calls!Begin(n)
<1>1. Executed' = {}
  BY LaneAssumption DEF Begin, Lanes, Executed
<1>2. Phase = "idle" /\ Phase' = "running"
  BY DEF Begin, Phase
<1>3. Status' = "none"
  BY <1>2 DEF Status
<1> QED
  BY <1>1, <1>2, <1>3 DEF Begin, Calls!Begin

\* The owner and each worker execute a lane only once in a call.
LEMMA ExecuteRefines ==
  ASSUME LaneInv, InCall, InCall', NEW l \in Lanes, l < active, ran[l] = 0,
         ran' = [ran EXCEPT ![l] = @ + 1], active' = active
  PROVE  Calls!Execute(l)
<1>1. Executed' = Executed \cup {l} /\ l \notin Executed
  BY DEF LaneInv, TypeOK, Executed
<1>2. Phase = "running" /\ Phase' = "running"
  BY DEF Phase, InCall
<1>3. Status = "none" /\ Status' = "none"
  BY <1>2 DEF Status
<1> QED
  BY <1>1, <1>2, <1>3 DEF Calls!Execute

\* When run() returns success every active lane has been executed; when a post
\* failed lane 0 was not.
LEMMA ReturnRefines ==
  ASSUME LaneInv, Return PROVE Calls!Succeed \/ Calls!Fail
<1> USE LaneAssumption DEF LaneInv, TypeOK, CallInv, InCall
<1>1. Phase = "running" /\ Phase' = "idle" /\ UNCHANGED <<active, Executed>>
  BY DEF Return, Phase, workerVars, Executed
<1>2. CASE pc = "wait"
  <2>1. ok /\ Status' = "ok"
    BY <1>1, <1>2 DEF Return, Status, StatusInv
  <2>2. \A l \in Lanes : ran[l] = IF l < active THEN 1 ELSE 0
    BY <1>2 DEF TokenInv, Return, Collected, Workers, Lanes
  <2>3. Executed = 0..(active - 1)
    BY <1>2, <2>2 DEF Executed, Lanes
  <2> QED
    BY <1>1, <2>1, <2>3 DEF Calls!Succeed
<1>3. CASE pc = "unwind"
  <2>1. Status' = "failed"
    BY <1>1, <1>3 DEF Return, Status, StatusInv
  <2>2. 0 \notin Executed /\ 0 \in 0..(active - 1)
    BY <1>3 DEF Executed
  <2> QED
    BY <1>1, <2>1, <2>2 DEF Calls!Fail
<1> QED
  BY <1>2, <1>3 DEF Return

LEMMA StepRefines == ASSUME LaneInv, LaneInv', [Next]_vars PROVE [Calls!Next]_Calls!vars
<1> USE DEF ownerVars, workerVars
<1>1. CASE \E n \in 1..LaneCount : Begin(n)
  BY <1>1, BeginRefines DEF Calls!Next
<1>2. CASE Return
  BY <1>2, ReturnRefines DEF Calls!Next
<1>3. CASE RunLane0
  <2>1. InCall /\ InCall' /\ 0 \in Lanes /\ 0 < active /\ ran[0] = 0
    BY <1>3, LaneAssumption DEF LaneInv, CallInv, RunLane0, InCall, Lanes
  <2>2. Calls!Execute(0)
    BY <1>3, <2>1, ExecuteRefines DEF RunLane0
  <2> QED
    BY <2>1, <2>2 DEF Calls!Next, Lanes
<1>4. CASE \E w \in Workers : Finish(w)
  <2>1. PICK w \in Workers : Finish(w)
    BY <1>4
  <2>2. InCall /\ InCall'
    BY <2>1 DEF LaneInv, TypeOK, StartInv, IdleInv, StopInv, Finish, Rests, InCall
  <2>3. w \in Lanes /\ w < active /\ ran[w] = 0
    BY <2>1, <2>2, LaneAssumption
       DEF LaneInv, TypeOK, CallInv, TokenInv, Rests, Busy, Finish, Workers, Lanes
  <2>4. Calls!Execute(w)
    BY <2>1, <2>2, <2>3, ExecuteRefines DEF Finish
  <2> QED
    BY <2>3, <2>4 DEF Calls!Next, Lanes
<1>5. CASE Destroy
  <2>1. UNCHANGED <<active, Executed>> /\ Phase = "idle" /\ Phase' = "gone"
    BY <1>5 DEF Destroy, Phase, Executed
  <2>2. UNCHANGED Status
    BY <1>5, <2>1 DEF Destroy, Status
  <2> QED
    BY <2>1, <2>2 DEF Calls!Destroy, Calls!Next
<1>6. CASE StartWorker
  <2>1. CASE pc' = "start"
    BY <1>6, <2>1, Stutters DEF StartWorker, Phase, Status
  <2>2. CASE pc' = "stop"
    <3>1. UNCHANGED <<active, Executed>> /\ Phase = "idle" /\ Phase' = "gone"
      BY <1>6, <2>2 DEF StartWorker, Phase, Executed
    <3>2. UNCHANGED Status
      BY <1>6, <3>1 DEF StartWorker, Status, LaneInv, StartInv
    <3> QED
      BY <3>1, <3>2 DEF Calls!Destroy, Calls!Next
  <2> QED
    BY <1>6, <2>1, <2>2 DEF StartWorker
<1>7. CASE StartDone
  BY <1>7, Stutters DEF StartDone, Phase, Status
<1>8. CASE Post
  BY <1>8, Stutters DEF Post, Phase, Status
<1>9. CASE PostDone
  BY <1>9, Stutters DEF PostDone, Phase, Status
<1>10. CASE WaitDone
  BY <1>10, Stutters DEF WaitDone, Phase, Status
<1>11. CASE Stop \/ Join \/ Deleted
  BY <1>11, Stutters DEF Stop, Join, Deleted, Phase, Status
<1>12. CASE \E w \in Workers : Wake(w) \/ Decide(w)
  BY <1>12, Stutters DEF Wake, Decide, Phase, Status
<1>13. CASE UNCHANGED vars
  BY <1>13, Stutters DEF vars, Phase, Status
<1> QED
  BY <1>1, <1>2, <1>3, <1>4, <1>5, <1>6, <1>7, <1>8, <1>9, <1>10, <1>11, <1>12, <1>13
     DEF Next, Owner, Worker, Gone

\* The pool implements LaneCalls: run() returns success exactly when each
\* active lane was executed once, and executes nothing outside of a call.
THEOREM LanesRefineCalls == Spec => KeepsLaneContract
<1>1. Init => Calls!Init
  <2> SUFFICES ASSUME Init PROVE Calls!Init
    OBVIOUS
  <2>1. Phase = "idle" /\ Executed = {}
    BY LaneAssumption DEF Init, Phase, Executed, Lanes
  <2>2. Status = "none"
    BY DEF Init, Status
  <2> QED
    BY <2>1, <2>2 DEF Init, Calls!Init
<1>2. LaneInv /\ LaneInv' /\ [Next]_vars => [Calls!Next]_Calls!vars
  BY StepRefines
<1> QED
  BY <1>1, <1>2, LaneInvariant, PTL DEF Spec, KeepsLaneContract, Calls!Spec

=============================================================================
