------------------------ MODULE ServerLifecycleProofs ------------------------
(***************************************************************************)
(* Safety of the Server's life for every clock, every set of limits and    *)
(* every startup mode.  LifeInv says what each step of start(), run() and  *)
(* shutdown() may rely on: which parts are up at which step, that the      *)
(* lease only narrows the license while both are loaded, and that DEMO is  *)
(* decided before there is a Project.                                      *)
(***************************************************************************)
EXTENDS ServerLifecycle, TLAPS

\* The steps at which license, identity and lease are all loaded.
Licensed == {"authentication", "communication", "project", "stop_communication",
             "stop_project", "stop_authentication", "stop_lease"} \cup RunSteps

\* The steps at which endpoints may be up.
MayServe == {"project", "stop_communication"} \cup RunSteps

\* License, identity and lease are loaded in order, and the lease narrows the license.
LicenseInv ==
  /\ pc \in {"identity", "lease"} => license # None /\ license.limit > 0
  /\ pc = "lease" => identity
  /\ pc \in Licensed =>
       /\ license # None /\ lease # None /\ identity
       /\ license.limit > 0
       /\ lease.limit > 0 /\ lease.limit <= license.limit
       /\ lease.expires <= license.expires

\* Endpoints are up only at these steps, and then the gate is within the license.
ServeInv ==
  /\ communications => pc \in MayServe
  /\ pc \in MayServe => limit > 0 /\ limit <= license.limit

\* The steps at which each part may still be up.
TeardownInv ==
  /\ running => pc \in RunSteps \cup {"project"}
  /\ authentication => pc \in {"communication", "project", "stop_communication", "stop_project",
                               "stop_authentication"} \cup RunSteps
  /\ identity => pc \in Licensed \cup {"lease", "stop_identity"}
  /\ slot # EmptySlot => pc \in {"stop_communication", "stop_project"} \cup RunSteps

\* The inductive invariant.
LifeInv == TypeOK /\ LicenseInv /\ ServeInv /\ TeardownInv /\ SlotMeansState /\ DemoNeverRuns

-----------------------------------------------------------------------------
(***************************************************************************)
(* The handlers and the Project slot                                       *)
(***************************************************************************)

\* The pointer and the reported state agree.
InStep(sl) == sl.project <=> sl.state # "unloaded"

\* The fields of an outcome.
LEMMA OutcomeFields == \A st, sl : Outcome(st, sl).status = st /\ Outcome(st, sl).slot = sl
  BY DEF Outcome

\* The slots the handlers write themselves.
LEMMA WrittenSlots ==
  /\ EmptySlot \in Slots /\ InStep(EmptySlot) /\ EmptySlot.state = "unloaded"
  /\ \A st \in {"loaded", "run", "freeze"} :
       LET sl == [project |-> TRUE, state |-> st]
       IN  sl \in Slots /\ InStep(sl) /\ sl.state = st
  BY DEF EmptySlot, Slots, InStep, ProjectStates

\* LOAD, PUBLISH and REBUILD leave pointer and state in step, and never in RUN.
LEMMA ConstructSlot ==
  ASSUME NEW sl \in Slots, InStep(sl), NEW out \in Construct(sl)
  PROVE  /\ out.slot \in Slots /\ InStep(out.slot)
         /\ out.slot = sl \/ out.slot.state \in {"unloaded", "loaded"}
<1>1. \/ out = Outcome("failed", sl)
      \/ out = Outcome("success", [project |-> TRUE, state |-> "loaded"])
      \/ out = Outcome("failed", EmptySlot)
  BY DEF Construct
<1>2. \/ out.slot = sl
      \/ out.slot = [project |-> TRUE, state |-> "loaded"]
      \/ out.slot = EmptySlot
  BY <1>1, OutcomeFields
<1> QED
  BY <1>2, WrittenSlots

\* Every handler leaves pointer and state in step, and one that DEMO may execute
\* does not reach RUN or FREEZE from a state that is neither.
LEMMA ExecuteSlot ==
  ASSUME NEW kind \in RequestKinds, NEW sl \in Slots, InStep(sl), NEW out \in Execute(kind, sl)
  PROVE  /\ out.slot \in Slots /\ InStep(out.slot)
         /\ ~IsDemoMutation(kind) /\ sl.state \in {"unloaded", "loaded"} =>
              out.slot.state \in {"unloaded", "loaded"}
<1>1. CASE kind \in {"load", "publish", "rebuild"}
  <2>1. out \in Construct(sl)
    BY <1>1 DEF Execute, Load, Publish, Rebuild
  <2> QED
    BY <2>1, ConstructSlot
<1>2. CASE kind = "build"
  <2>1. out = Outcome("failed", sl) \/ out = Outcome("failed", EmptySlot)
    BY <1>2 DEF Execute, Build
  <2>2. out.slot = sl \/ out.slot = EmptySlot
    BY <2>1, OutcomeFields
  <2> QED
    BY <2>2, WrittenSlots
<1>3. CASE kind = "unload"
  <2>1. out = Outcome("failed", sl) \/ out = Outcome("success", EmptySlot)
    BY <1>3 DEF Execute, Unload
  <2>2. out.slot = sl \/ out.slot = EmptySlot
    BY <2>1, OutcomeFields
  <2> QED
    BY <2>2, WrittenSlots
<1>4. CASE kind = "run"
  <2>1. \/ out = Outcome("failed", sl)
        \/ out = Outcome("success", [project |-> TRUE, state |-> "run"])
    BY <1>4 DEF Execute, Run
  <2>2. out.slot = sl \/ out.slot = [project |-> TRUE, state |-> "run"]
    BY <2>1, OutcomeFields
  <2> QED
    BY <1>4, <2>2, WrittenSlots DEF IsDemoMutation
<1>5. CASE kind = "freeze"
  <2>1. \/ out = Outcome("failed", sl)
        \/ out = Outcome("success", [project |-> TRUE, state |-> "freeze"])
    BY <1>5 DEF Execute, Freeze
  <2>2. out.slot = sl \/ out.slot = [project |-> TRUE, state |-> "freeze"]
    BY <2>1, OutcomeFields
  <2> QED
    BY <1>5, <2>2, WrittenSlots DEF IsDemoMutation
<1>6. CASE kind \in {"snap_ic", "reset_ic", "get_value", "get_state", "shutdown"}
  <2>1. out = Outcome("failed", sl) \/ out = Outcome("success", sl)
    BY <1>6 DEF Execute, SnapIc, ResetIc, GetValue, UseRuntime
  <2>2. out.slot = sl
    BY <2>1, OutcomeFields
  <2> QED
    BY <2>2
<1> QED
  BY <1>1, <1>2, <1>3, <1>4, <1>5, <1>6 DEF RequestKinds

\* The policy in front of the handlers: DEMO never reaches RUN or FREEZE.
LEMMA ExecuteMessageSlot ==
  ASSUME NEW kind \in RequestKinds, NEW sl \in Slots, InStep(sl),
         NEW m \in Modes, NEW out \in ExecuteMessage(m, kind, sl)
  PROVE  /\ out.slot \in Slots /\ InStep(out.slot)
         /\ m = "demo" /\ sl.state \in {"unloaded", "loaded"} =>
              out.slot.state \in {"unloaded", "loaded"}
<1>1. CASE Allows(m, kind)
  <2>1. out \in Execute(kind, sl)
    BY <1>1 DEF ExecuteMessage
  <2>2. m = "demo" => ~IsDemoMutation(kind)
    BY <1>1 DEF Allows
  <2> QED
    BY <2>1, <2>2, ExecuteSlot
<1>2. CASE ~Allows(m, kind)
  <2>1. out = Outcome("access_denied", sl)
    BY <1>2 DEF ExecuteMessage
  <2> QED
    BY <2>1, OutcomeFields
<1> QED
  BY <1>1, <1>2

-----------------------------------------------------------------------------
(***************************************************************************)
(* The invariant                                                           *)
(***************************************************************************)

\* The fields of the documents.
LEMMA DocumentFields ==
  /\ \A d \in Licenses : d.limit \in Nat /\ d.expires \in Nat
  /\ \A d \in Leases : d.limit \in Nat /\ d.expires \in Nat /\ d.notBefore \in Nat
<1>1. Limits \subseteq Nat /\ Times \subseteq Nat
  BY LimitsAssumption, TimeAssumption DEF Times
<1> QED
  BY <1>1 DEF Licenses, Leases

\* LifeInv holds when start() begins.
LEMMA LifeInvInit == Init => LifeInv
<1> SUFFICES ASSUME Init PROVE LifeInv
  OBVIOUS
<1>1. TypeOK
  BY WrittenSlots DEF Init, TypeOK, StartSteps, Modes
<1>2. LicenseInv /\ ServeInv /\ TeardownInv
  BY DEF Init, LicenseInv, ServeInv, TeardownInv, Licensed, MayServe, RunSteps
<1>3. SlotMeansState /\ DemoNeverRuns
  BY WrittenSlots DEF Init, SlotMeansState, DemoNeverRuns, InStep
<1> QED
  BY <1>1, <1>2, <1>3 DEF LifeInv

\* Time passes; the documents were judged when they were loaded, so LifeInv does not
\* depend on now.
LEMMA TickInv ==
  ASSUME LifeInv, Tick
  PROVE  LifeInv'
<1> USE DEF LifeInv
<1>1. now' \in Times
  BY TimeAssumption DEF Tick, TypeOK, Times
<1>2. TypeOK'
  BY <1>1 DEF Tick, TypeOK, files, infrastructure
<1>3. LicenseInv'
  BY DEF Tick, LicenseInv, infrastructure
<1>4. ServeInv'
  BY DEF Tick, ServeInv, infrastructure
<1>5. TeardownInv'
  BY DEF Tick, TeardownInv, infrastructure
<1>6. SlotMeansState' /\ DemoNeverRuns'
  BY DEF Tick, SlotMeansState, DemoNeverRuns, infrastructure
<1> QED
  BY <1>2, <1>3, <1>4, <1>5, <1>6

\* An accepted license has a positive limit; a rejected one ends the start.
LEMMA LoadLicenseInv ==
  ASSUME LifeInv, LoadLicense
  PROVE  LifeInv'
<1> USE DEF LifeInv
<1>1. TypeOK'
  BY DEF LoadLicense, TypeOK, files, StartSteps
<1>2. LicenseInv'
  BY NoneAssumption DEF LoadLicense, TypeOK, LicenseInv, Licensed, RunSteps, LicenseAccepted
<1>3. ServeInv'
  BY DEF LoadLicense, ServeInv, MayServe, RunSteps
<1>4. TeardownInv'
  BY DEF LoadLicense, TeardownInv, Licensed, RunSteps
<1>5. SlotMeansState' /\ DemoNeverRuns'
  BY DEF LoadLicense, SlotMeansState, DemoNeverRuns
<1> QED
  BY <1>1, <1>2, <1>3, <1>4, <1>5

\* A failed identity takes the license with it.
LEMMA StartIdentityInv ==
  ASSUME LifeInv, StartIdentity
  PROVE  LifeInv'
<1> USE DEF LifeInv
<1>1. TypeOK'
  BY DEF StartIdentity, TypeOK, files, StartSteps
<1>2. LicenseInv'
  BY DEF StartIdentity, LicenseInv, Licensed, RunSteps
<1>3. ServeInv'
  BY DEF StartIdentity, ServeInv, MayServe, RunSteps
<1>4. TeardownInv'
  BY DEF StartIdentity, TeardownInv, RunSteps
<1>5. SlotMeansState' /\ DemoNeverRuns'
  BY DEF StartIdentity, SlotMeansState, DemoNeverRuns
<1> QED
  BY <1>1, <1>2, <1>3, <1>4, <1>5

\* An accepted lease narrows the license; a rejected one undoes identity and license.
LEMMA LoadLeaseInv ==
  ASSUME LifeInv, LoadLease
  PROVE  LifeInv'
<1> USE DEF LifeInv
<1>1. TypeOK'
  BY DEF LoadLease, TypeOK, files, StartSteps
<1>2. LicenseInv'
  BY NoneAssumption DEF LoadLease, TypeOK, LicenseInv, Licensed, RunSteps, LeaseAccepted
<1>3. ServeInv'
  BY DEF LoadLease, ServeInv, MayServe, RunSteps
<1>4. TeardownInv'
  BY DEF LoadLease, TeardownInv, Licensed, RunSteps
<1>5. SlotMeansState' /\ DemoNeverRuns'
  BY DEF LoadLease, SlotMeansState, DemoNeverRuns
<1> QED
  BY <1>1, <1>2, <1>3, <1>4, <1>5

\* The mode is decided while the slot is empty, so DEMO starts without a Project.
LEMMA StartAuthenticationInv ==
  ASSUME LifeInv, StartAuthentication
  PROVE  LifeInv'
<1> USE DEF LifeInv
<1>1. TypeOK'
  BY DEF StartAuthentication, TypeOK, files, StartSteps, Modes
<1>2. LicenseInv'
  BY DEF StartAuthentication, LicenseInv, Licensed
<1>3. ServeInv'
  BY DEF StartAuthentication, ServeInv, MayServe, RunSteps
<1>4. TeardownInv'
  BY DEF StartAuthentication, TeardownInv, Licensed, RunSteps
<1>5. SlotMeansState' /\ DemoNeverRuns'
  BY WrittenSlots DEF StartAuthentication, SlotMeansState, DemoNeverRuns, TeardownInv, RunSteps
<1> QED
  BY <1>1, <1>2, <1>3, <1>4, <1>5

\* The gate gets the lease's limit or 1, both within the license; the failure path
\* takes the credentials down.
LEMMA StartCommunicationInv ==
  ASSUME LifeInv, StartCommunication
  PROVE  LifeInv'
<1> USE DEF LifeInv
<1>1. /\ license # None /\ lease # None
      /\ license \in Licenses /\ lease \in Leases
      /\ lease.limit > 0 /\ lease.limit <= license.limit /\ license.limit > 0
  BY DEF StartCommunication, LicenseInv, Licensed, TypeOK
<1>2. /\ limit' \in Nat /\ limit' > 0 /\ limit' <= license.limit
      /\ license' = license
  <2>1. license.limit \in Nat /\ lease.limit \in Nat
    BY <1>1, DocumentFields
  <2>2. limit' = 1 \/ limit' = lease.limit
    BY DEF StartCommunication
  <2>3. license' = license
    BY DEF StartCommunication
  <2> QED
    BY <1>1, <2>1, <2>2, <2>3
<1>3. TypeOK'
  BY <1>2 DEF StartCommunication, TypeOK, files, StartSteps
<1>4. LicenseInv'
  BY DEF StartCommunication, LicenseInv, Licensed, RunSteps
<1>5. ServeInv'
  BY <1>2 DEF StartCommunication, ServeInv, MayServe
<1>6. TeardownInv'
  <2>1. slot = EmptySlot /\ slot' = slot /\ ~running
    BY DEF StartCommunication, TeardownInv, RunSteps
  <2>2. CASE pc' = "project"
    BY <2>1, <2>2 DEF TeardownInv, Licensed
  <2>3. CASE pc' # "project"
    <3>1. ~running' /\ ~authentication' /\ ~identity'
      BY <2>1, <2>3 DEF StartCommunication
    <3> QED
      BY <2>1, <3>1 DEF TeardownInv
  <2> QED
    BY <2>2, <2>3
<1>7. SlotMeansState' /\ DemoNeverRuns'
  BY DEF StartCommunication, SlotMeansState, DemoNeverRuns
<1> QED
  BY <1>3, <1>4, <1>5, <1>6, <1>7

\* The startup Project never starts in RUN; its failure goes through the teardown.
LEMMA StartProjectInv ==
  ASSUME LifeInv, StartProject
  PROVE  LifeInv'
<1> USE DEF LifeInv
<1>1. PICK out \in (IF startup = "none" THEN {Outcome("success", slot)}
                                         ELSE Execute(startup, slot)) :
        slot' = out.slot
  BY DEF StartProject
<1>2. slot' \in Slots /\ InStep(slot') /\ slot'.state \in {"unloaded", "loaded"}
  <2>1. slot = EmptySlot
    BY DEF StartProject, TeardownInv, RunSteps
  <2>2. startup \in {"none", "load", "publish", "rebuild"}
    BY StartupAssumption DEF TypeOK
  <2>3. CASE startup = "none"
    BY <1>1, <2>1, <2>3, OutcomeFields, WrittenSlots
  <2>4. CASE startup # "none"
    <3>1. out \in Construct(slot)
      BY <1>1, <2>2, <2>4 DEF Execute, Load, Publish, Rebuild
    <3> QED
      BY <1>1, <3>1, <2>1, ConstructSlot, WrittenSlots
  <2> QED
    BY <2>3, <2>4
<1>3. TypeOK'
  BY <1>2 DEF StartProject, TypeOK, files, infrastructure, RunSteps, StopSteps
<1>4. LicenseInv'
  BY DEF StartProject, LicenseInv, Licensed, infrastructure
<1>5. ServeInv'
  BY DEF StartProject, ServeInv, MayServe, infrastructure, RunSteps
<1>6. TeardownInv'
  BY <1>2 DEF StartProject, TeardownInv, Licensed, RunSteps
<1>7. SlotMeansState' /\ DemoNeverRuns'
  BY <1>2 DEF SlotMeansState, DemoNeverRuns, InStep
<1> QED
  BY <1>3, <1>4, <1>5, <1>6, <1>7

\* An expired lease leads to the teardown.
LEMMA CheckLeaseInv ==
  ASSUME LifeInv, CheckLease
  PROVE  LifeInv'
<1> USE DEF LifeInv
<1>1. TypeOK'
  BY DEF CheckLease, TypeOK, files, infrastructure, StopSteps
<1>2. LicenseInv'
  BY DEF CheckLease, LicenseInv, Licensed, infrastructure, RunSteps
<1>3. ServeInv'
  BY DEF CheckLease, ServeInv, MayServe, infrastructure, RunSteps
<1>4. TeardownInv'
  BY DEF CheckLease, TeardownInv, Licensed
<1>5. SlotMeansState' /\ DemoNeverRuns'
  BY DEF CheckLease, SlotMeansState, DemoNeverRuns, infrastructure
<1> QED
  BY <1>1, <1>2, <1>3, <1>4, <1>5

\* Waiting changes nothing but the step.
LEMMA EnterWaitInv ==
  ASSUME LifeInv, EnterWait
  PROVE  LifeInv'
<1> USE DEF LifeInv
<1>1. TypeOK'
  BY DEF EnterWait, TypeOK, files, infrastructure, RunSteps
<1>2. LicenseInv'
  BY DEF EnterWait, LicenseInv, Licensed, infrastructure, RunSteps
<1>3. ServeInv'
  BY DEF EnterWait, ServeInv, MayServe, infrastructure, RunSteps
<1>4. TeardownInv'
  BY DEF EnterWait, TeardownInv, Licensed, RunSteps
<1>5. SlotMeansState' /\ DemoNeverRuns'
  BY DEF EnterWait, SlotMeansState, DemoNeverRuns, infrastructure
<1> QED
  BY <1>1, <1>2, <1>3, <1>4, <1>5

\* A message or the deadline ends the wait.
LEMMA WaitEndsInv ==
  ASSUME LifeInv, WaitEnds
  PROVE  LifeInv'
<1> USE DEF LifeInv
<1>1. TypeOK'
  BY DEF WaitEnds, TypeOK, files, infrastructure, RunSteps, StopSteps
<1>2. LicenseInv'
  BY DEF WaitEnds, LicenseInv, Licensed, infrastructure, RunSteps
<1>3. ServeInv'
  BY DEF WaitEnds, ServeInv, MayServe, infrastructure, RunSteps
<1>4. TeardownInv'
  BY DEF WaitEnds, TeardownInv, Licensed, RunSteps
<1>5. SlotMeansState' /\ DemoNeverRuns'
  BY DEF WaitEnds, SlotMeansState, DemoNeverRuns, infrastructure
<1> QED
  BY <1>1, <1>2, <1>3, <1>4, <1>5

\* A request changes the slot as the policy and its handler allow.
LEMMA ExecuteOneInv ==
  ASSUME LifeInv, NEW kind \in RequestKinds, ExecuteOne(kind)
  PROVE  LifeInv'
<1> USE DEF LifeInv
<1>1. PICK out \in ExecuteMessage(mode, kind, slot) : slot' = out.slot
  BY DEF ExecuteOne
<1>2. /\ slot' \in Slots /\ InStep(slot')
      /\ mode = "demo" => slot'.state \in {"unloaded", "loaded"}
  <2>1. slot \in Slots /\ InStep(slot) /\ mode \in Modes
    BY DEF TypeOK, SlotMeansState, InStep
  <2> QED
    BY <1>1, <2>1, ExecuteMessageSlot DEF DemoNeverRuns
<1>3. TypeOK'
  BY <1>2 DEF ExecuteOne, TypeOK, files, infrastructure, RunSteps, StopSteps
<1>4. LicenseInv'
  BY DEF ExecuteOne, LicenseInv, Licensed, infrastructure, RunSteps
<1>5. ServeInv'
  BY DEF ExecuteOne, ServeInv, MayServe, infrastructure, RunSteps
<1>6. TeardownInv'
  BY <1>2 DEF ExecuteOne, TeardownInv, Licensed, RunSteps
<1>7. SlotMeansState' /\ DemoNeverRuns'
  BY <1>2 DEF ExecuteOne, SlotMeansState, DemoNeverRuns, InStep, infrastructure
<1> QED
  BY <1>3, <1>4, <1>5, <1>6, <1>7

\* The endpoints stop first.
LEMMA StopCommunicationInv ==
  ASSUME LifeInv, StopCommunication
  PROVE  LifeInv'
<1> USE DEF LifeInv
<1>1. TypeOK'
  BY DEF StopCommunication, TypeOK, files, StopSteps
<1>2. LicenseInv'
  BY DEF StopCommunication, LicenseInv, Licensed
<1>3. ServeInv'
  BY DEF StopCommunication, ServeInv, MayServe
<1>4. TeardownInv'
  BY DEF StopCommunication, TeardownInv, Licensed, RunSteps
<1>5. SlotMeansState' /\ DemoNeverRuns'
  BY DEF StopCommunication, SlotMeansState, DemoNeverRuns
<1> QED
  BY <1>1, <1>2, <1>3, <1>4, <1>5

\* The Project is released.
LEMMA StopProjectInv ==
  ASSUME LifeInv, StopProject
  PROVE  LifeInv'
<1> USE DEF LifeInv
<1>1. slot' \in Slots /\ InStep(slot') /\ slot'.state = "unloaded"
  BY WrittenSlots DEF StopProject
<1>2. TypeOK'
  BY <1>1 DEF StopProject, TypeOK, files, infrastructure, StopSteps
<1>3. LicenseInv'
  BY DEF StopProject, LicenseInv, Licensed, infrastructure
<1>4. ServeInv'
  BY DEF StopProject, ServeInv, MayServe, infrastructure, RunSteps
<1>5. TeardownInv'
  BY <1>1 DEF StopProject, TeardownInv, Licensed, RunSteps
<1>6. SlotMeansState' /\ DemoNeverRuns'
  BY <1>1 DEF SlotMeansState, DemoNeverRuns, InStep
<1> QED
  BY <1>2, <1>3, <1>4, <1>5, <1>6

\* The credentials go after the Project.
LEMMA StopAuthenticationInv ==
  ASSUME LifeInv, StopAuthentication
  PROVE  LifeInv'
<1> USE DEF LifeInv
<1>1. TypeOK'
  BY DEF StopAuthentication, TypeOK, files, StopSteps
<1>2. LicenseInv'
  BY DEF StopAuthentication, LicenseInv, Licensed
<1>3. ServeInv'
  BY DEF StopAuthentication, ServeInv, MayServe, RunSteps
<1>4. TeardownInv'
  BY DEF StopAuthentication, TeardownInv, Licensed, RunSteps
<1>5. SlotMeansState' /\ DemoNeverRuns'
  BY DEF StopAuthentication, SlotMeansState, DemoNeverRuns
<1> QED
  BY <1>1, <1>2, <1>3, <1>4, <1>5

\* The lease is cleared when nothing serves under it.
LEMMA StopLeaseInv ==
  ASSUME LifeInv, StopLease
  PROVE  LifeInv'
<1> USE DEF LifeInv
<1>1. TypeOK'
  BY DEF StopLease, TypeOK, files, StopSteps
<1>2. LicenseInv'
  BY DEF StopLease, LicenseInv, Licensed, RunSteps
<1>3. ServeInv'
  BY DEF StopLease, ServeInv, MayServe, RunSteps
<1>4. TeardownInv'
  BY DEF StopLease, TeardownInv, RunSteps
<1>5. SlotMeansState' /\ DemoNeverRuns'
  BY DEF StopLease, SlotMeansState, DemoNeverRuns
<1> QED
  BY <1>1, <1>2, <1>3, <1>4, <1>5

\* The identity stops after the lease.
LEMMA StopIdentityInv ==
  ASSUME LifeInv, StopIdentity
  PROVE  LifeInv'
<1> USE DEF LifeInv
<1>1. TypeOK'
  BY DEF StopIdentity, TypeOK, files, StopSteps
<1>2. LicenseInv'
  BY DEF StopIdentity, LicenseInv, Licensed, RunSteps
<1>3. ServeInv'
  BY DEF StopIdentity, ServeInv, MayServe, RunSteps
<1>4. TeardownInv'
  BY DEF StopIdentity, TeardownInv, RunSteps
<1>5. SlotMeansState' /\ DemoNeverRuns'
  BY DEF StopIdentity, SlotMeansState, DemoNeverRuns
<1> QED
  BY <1>1, <1>2, <1>3, <1>4, <1>5

\* The license goes last, and nothing that acts is left.
LEMMA StopLicenseInv ==
  ASSUME LifeInv, StopLicense
  PROVE  LifeInv'
<1> USE DEF LifeInv
<1>1. TypeOK'
  BY DEF StopLicense, TypeOK, files
<1>2. LicenseInv'
  BY DEF StopLicense, LicenseInv, Licensed, RunSteps
<1>3. ServeInv'
  BY DEF StopLicense, ServeInv, MayServe, RunSteps
<1>4. TeardownInv'
  BY DEF StopLicense, TeardownInv, Licensed, RunSteps
<1>5. SlotMeansState' /\ DemoNeverRuns'
  BY DEF StopLicense, SlotMeansState, DemoNeverRuns
<1> QED
  BY <1>1, <1>2, <1>3, <1>4, <1>5

\* The process has ended.
LEMMA EndedInv ==
  ASSUME LifeInv, Ended
  PROVE  LifeInv'
<1> USE DEF LifeInv
<1>1. TypeOK'
  BY DEF Ended, TypeOK, files, infrastructure, vars
<1>2. LicenseInv'
  BY DEF Ended, LicenseInv, infrastructure, vars
<1>3. ServeInv'
  BY DEF Ended, ServeInv, infrastructure, vars
<1>4. TeardownInv'
  BY DEF Ended, TeardownInv, infrastructure, vars
<1>5. SlotMeansState' /\ DemoNeverRuns'
  BY DEF Ended, SlotMeansState, DemoNeverRuns, infrastructure, vars
<1> QED
  BY <1>1, <1>2, <1>3, <1>4, <1>5

\* Every step of start(), run() and shutdown() preserves LifeInv.
LEMMA LifeInvStep == LifeInv /\ [Next]_vars => LifeInv'
<1> SUFFICES ASSUME LifeInv, [Next]_vars PROVE LifeInv'
  OBVIOUS
<1>1. CASE Next
  BY <1>1, TickInv, LoadLicenseInv, StartIdentityInv, LoadLeaseInv, StartAuthenticationInv,
     StartCommunicationInv, StartProjectInv, CheckLeaseInv, EnterWaitInv, WaitEndsInv,
     ExecuteOneInv, StopCommunicationInv, StopProjectInv, StopAuthenticationInv,
     StopLeaseInv, StopIdentityInv, StopLicenseInv, EndedInv DEF Next
<1>2. CASE UNCHANGED vars
  BY <1>2 DEF vars, files, infrastructure, LifeInv, TypeOK, LicenseInv, ServeInv, TeardownInv,
              SlotMeansState, DemoNeverRuns
<1> QED
  BY <1>1, <1>2

\* The inductive invariant holds in every behaviour.
THEOREM LifeInvariance == Spec => []LifeInv
  BY LifeInvInit, LifeInvStep, PTL DEF Spec

\* Every variable keeps its type.
THEOREM TypeCorrect == Spec => []TypeOK
<1>1. LifeInv => TypeOK
  BY DEF LifeInv
<1> QED
  BY <1>1, LifeInvariance, PTL

\* Whichever step of start() fails, and after every shutdown(), nothing is left that
\* acts: no endpoint, no credential, no Project.
THEOREM FailedServerHoldsNothing == Spec => []FailsClosed
<1>1. LifeInv => FailsClosed
  BY DEF LifeInv, FailsClosed, TeardownInv, ServeInv, Licensed, MayServe, RunSteps
<1> QED
  BY <1>1, LifeInvariance, PTL

\* Endpoints are up only over a loaded license, identity and lease, within the
\* limit and the term of the license.
THEOREM ServingIsLicensed == Spec => []ServesUnderLicense
<1>1. LifeInv => ServesUnderLicense
  BY DEF LifeInv, ServesUnderLicense, ServeInv, LicenseInv, Licensed, MayServe
<1> QED
  BY <1>1, LifeInvariance, PTL

\* The Project pointer and the reported state stay in step through every sequence
\* of requests and failures.
THEOREM SlotInStep == Spec => []SlotMeansState
<1>1. LifeInv => SlotMeansState
  BY DEF LifeInv
<1> QED
  BY <1>1, LifeInvariance, PTL

\* No sequence of requests, and no startup Project, lets a DEMO Server execute the
\* Runtime.
THEOREM DemoStaysIdle == Spec => []DemoNeverRuns
<1>1. LifeInv => DemoNeverRuns
  BY DEF LifeInv
<1> QED
  BY <1>1, LifeInvariance, PTL

=============================================================================
