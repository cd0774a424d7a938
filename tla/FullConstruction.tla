-------------------------- MODULE FullConstruction --------------------------
(***************************************************************************)
(* The four artifacts of a Project on disk and the operations that write   *)
(* and read them: PUBLISH and REBUILD (construct_full_project, pre-clean,  *)
(* parallel persistence, resident publication, post-clean), LOAD, BUILD up *)
(* to the acceptance of its baseline, and UNLOAD; with the fixed shared    *)
(* memory name a resident Project owns, and with the Server process being  *)
(* killed between any two steps.  Sources change between operations, so    *)
(* every full construction produces a generation of its own.               *)
(***************************************************************************)
EXTENDS Naturals, FiniteSets

CONSTANTS
  MaxGeneration,   \* bound: full constructions
  CrashBudget,     \* bound: kills of the process
  MaxLanes,        \* execution_lane_capacity() is at most this
  NamePersists     \* does a shared memory name outlive its process? (POSIX: TRUE)

ASSUME BoundsAssumption == MaxGeneration \in Nat /\ CrashBudget \in Nat
ASSUME LanesAssumption == MaxLanes \in Nat \ {0}
ASSUME NameAssumption == NamePersists \in BOOLEAN

(***************************************************************************)
(* full_persistence_artifact, in its numeric order.  The image of source   *)
(* and database starts with the header that bind() checks and ends with a  *)
(* checksum that only the cold validation reads; compiled writes its       *)
(* header last; the manifest is decoded under its checksum.                *)
(***************************************************************************)
Artifacts == {"compiled", "source", "database", "manifest"}

Index(a) == CASE a = "compiled" -> 0 [] a = "source" -> 1
              [] a = "database" -> 2 [] a = "manifest" -> 3

HeaderFirst(a) == a \in {"source", "database"}

\* blank: created, nothing bind() accepts; torn: the header, not the whole payload.
Contents == {"absent", "blank", "torn", "whole"}

Generations == 0..MaxGeneration

File(content, g) == [content |-> content, gen |-> g]
Absent == File("absent", 0)

VARIABLES
  pc, op,      \* the step and the operation of the control thread
  disk,        \* the artifacts
  toClean,     \* artifacts remove_project_artifacts() has not visited yet
  refused,     \* ... it has failed to remove one
  stage,       \* progress of a persistence branch
  result,      \* full_persistence_job::results
  active,      \* active_lanes
  lanes,       \* the lanes that execute persist_full_artifacts
  generation,  \* generation of the current or the last full construction
  resident,    \* generation of the resident Project, 0 if there is none
  shm,         \* the shared memory name: free, ours, or left behind by a killed process
  status,      \* of the last operation
  baseline,    \* what the last BUILD accepted as its baseline
  crashes

persistVars == <<stage, result, active, lanes>>
cleanVars == <<toClean, refused>>
vars == <<pc, op, disk, cleanVars, persistVars, generation, resident, shm, status, baseline,
          crashes>>

\* invalid and io_failed are told apart by diagnostics only.
Results == {"none", "pending", "success", "failed"}

\* The type invariant.
TypeOK ==
  /\ pc \in {"idle", "preclean", "construct", "persist", "open", "shm", "materialize", "postclean"}
  /\ op \in {"none", "publish", "rebuild", "load", "build", "unload"}
  /\ disk \in [Artifacts -> [content : Contents, gen : Generations]]
  /\ toClean \subseteq Artifacts /\ refused \in BOOLEAN
  /\ stage \in [Artifacts -> {"waiting", "created", "header", "encoded"}]
  /\ result \in [Artifacts -> Results]
  /\ active \in 1..4 /\ lanes \subseteq 0..3
  /\ generation \in Generations /\ resident \in Generations
  /\ shm \in {"free", "ours", "orphan"}
  /\ status \in {"none", "success", "failed", "cleanup_failed", "no_layout"}
  /\ baseline \in SUBSET [content : Contents, gen : Generations]
  /\ crashes \in 0..CrashBudget

Init ==
  /\ pc = "idle" /\ op = "none"
  /\ disk = [a \in Artifacts |-> Absent]
  /\ toClean = {} /\ refused = FALSE
  /\ stage = [a \in Artifacts |-> "waiting"]
  /\ result = [a \in Artifacts |-> "none"]
  /\ active = 1 /\ lanes = {}
  /\ generation = 0 /\ resident = 0
  /\ shm = "free"
  /\ status = "none"
  /\ baseline = {}
  /\ crashes = 0

-----------------------------------------------------------------------------
(***************************************************************************)
(* PUBLISH and REBUILD                                                     *)
(***************************************************************************)

FullOps == {"publish", "rebuild"}

\* Mutant: a full construction starts while a Project is resident.
Begin_OverResident(o) ==
  /\ pc = "idle" /\ generation < MaxGeneration
  /\ op' = o
  /\ generation' = generation + 1
  /\ toClean' = Artifacts /\ refused' = FALSE
  /\ baseline' = {}
  /\ pc' = "preclean"
  /\ UNCHANGED <<disk, persistVars, resident, shm, status, crashes>>

\* server::publish and server::rebuild, refused while a Project is resident;
\* then construct_full_project up to its first cleanup.
Begin(o) ==
  /\ pc = "idle" /\ resident = 0 /\ generation < MaxGeneration
  /\ op' = o
  /\ generation' = generation + 1
  /\ toClean' = Artifacts /\ refused' = FALSE
  /\ baseline' = {}
  /\ pc' = "preclean"
  /\ UNCHANGED <<disk, persistVars, resident, shm, status, crashes>>

\* ... or the paths of the artifacts cannot be made: io_error before any cleanup.
LayoutFails(o) ==
  /\ pc = "idle" /\ resident = 0
  /\ op' = o
  /\ baseline' = {}
  /\ status' = "no_layout"
  /\ UNCHANGED <<pc, disk, cleanVars, persistVars, generation, resident, shm, crashes>>

\* remove_project_artifacts visits compiled.bin first and goes on after a failure.
NextToClean == IF "compiled" \in toClean THEN {"compiled"} ELSE toClean

RemoveArtifact(a) ==
  /\ pc \in {"preclean", "postclean"}
  /\ a \in NextToClean
  /\ toClean' = toClean \ {a}
  /\ \/ disk' = [disk EXCEPT ![a] = Absent] /\ UNCHANGED refused
     \/ disk[a] # Absent /\ refused' = TRUE /\ UNCHANGED disk
  /\ UNCHANGED <<pc, op, persistVars, generation, resident, shm, status, baseline, crashes>>

\* Mutant: a pre-clean that failed is reported and ignored.
PreCleanDone_Ignored ==
  /\ pc = "preclean" /\ toClean = {}
  /\ pc' = "construct" /\ UNCHANGED status
  /\ UNCHANGED <<op, disk, cleanVars, persistVars, generation, resident, shm, baseline, crashes>>

\* The old set is gone, or the operation ends with io_error.
PreCleanDone ==
  /\ pc = "preclean" /\ toClean = {}
  /\ IF refused THEN pc' = "idle" /\ status' = "cleanup_failed"
                ELSE pc' = "construct" /\ UNCHANGED status
  /\ UNCHANGED <<op, disk, cleanVars, persistVars, generation, resident, shm, baseline, crashes>>

\* The full_persistence_job is a local of the construction.
NoJob ==
  /\ stage' = [a \in Artifacts |-> "waiting"]
  /\ result' = [a \in Artifacts |-> "none"]
  /\ active' = 1 /\ lanes' = {}

PostClean == pc' = "postclean" /\ toClean' = Artifacts /\ refused' = FALSE

\* Composition, lexing, assigns, parsing, topology or the directory fails.
ConstructFails ==
  /\ pc = "construct"
  /\ PostClean
  /\ UNCHANGED <<op, disk, persistVars, generation, resident, shm, status, baseline, crashes>>

Pending(o) == IF o = "publish" THEN {"compiled"} ELSE Artifacts

\* The frozen construction goes to the lanes: the pool starts and every lane
\* runs; or it does not start and lane 0 does it all; or the post to lane k
\* fails, so lanes 1..k-1 run and lane 0 does not.
Dispatch(n) ==
  /\ pc = "construct"
  /\ n <= Cardinality(Pending(op))
  /\ stage' = [a \in Artifacts |-> "waiting"]
  /\ result' = [a \in Artifacts |-> IF a \in Pending(op) THEN "pending" ELSE "none"]
  /\ \/ active' = n /\ lanes' = 0..(n - 1)
     \/ active' = 1 /\ lanes' = {0}
     \/ \E k \in 1..(n - 1) : active' = n /\ lanes' = 1..(k - 1)
  /\ pc' = "persist"
  /\ UNCHANGED <<op, disk, cleanVars, generation, resident, shm, status, baseline, crashes>>

\* persist_full_artifacts: lane l takes the artifacts l, l + active, ... in order.
MayPersist(a) ==
  /\ pc = "persist"
  /\ result[a] = "pending"
  /\ Index(a) % active \in lanes
  /\ \A b \in Artifacts :
       Index(b) < Index(a) /\ Index(b) % active = Index(a) % active => result[b] # "pending"

PersistFails(a) == result' = [result EXCEPT ![a] = "failed"]

unchangedByPersist == <<pc, op, cleanVars, active, lanes, generation, resident, shm, status,
                        baseline, crashes>>

\* prepare_*_layout and writable_file_mapping::create; create may fail after it
\* has made the file.
Create(a) ==
  /\ MayPersist(a) /\ stage[a] = "waiting"
  /\ \/ /\ disk' = [disk EXCEPT ![a] = File("blank", generation)]
        /\ stage' = [stage EXCEPT ![a] = "created"]
        /\ UNCHANGED result
     \/ /\ PersistFails(a)
        /\ disk' \in {disk, [disk EXCEPT ![a] = File("blank", generation)]}
        /\ UNCHANGED stage
  /\ UNCHANGED unchangedByPersist

\* encode_*: the header of source.bin and database.bin comes first.
EncodeHeader(a) ==
  /\ MayPersist(a) /\ stage[a] = "created"
  /\ disk' = [disk EXCEPT ![a] = File(IF HeaderFirst(a) THEN "torn" ELSE "blank", generation)]
  /\ stage' = [stage EXCEPT ![a] = "header"]
  /\ UNCHANGED <<result, unchangedByPersist>>

\* ... then the payload, to the end or to an error return.
EncodeRest(a) ==
  /\ MayPersist(a) /\ stage[a] = "header"
  /\ \/ /\ disk' = [disk EXCEPT ![a] = File("whole", generation)]
        /\ stage' = [stage EXCEPT ![a] = "encoded"]
        /\ UNCHANGED result
     \/ PersistFails(a) /\ UNCHANGED <<disk, stage>>
  /\ UNCHANGED unchangedByPersist

\* Validation where there is one, and flush.
ValidateAndFlush(a) ==
  /\ MayPersist(a) /\ stage[a] = "encoded"
  /\ result' = [result EXCEPT ![a] = "success"] \/ PersistFails(a)
  /\ UNCHANGED <<disk, stage, unchangedByPersist>>

\* Every lane that runs has finished.
LanesDone == \A a \in Artifacts : result[a] = "pending" => Index(a) % active \notin lanes

\* run() failed: the owner persists compiled.bin itself, the other branches that
\* never ran are marked as failed dispatches.
DispatchFailed ==
  /\ pc = "persist" /\ LanesDone
  /\ \E a \in Artifacts : result[a] = "pending"
  /\ result' = [a \in Artifacts |->
                  IF result[a] = "pending" /\ a # "compiled" THEN "failed" ELSE result[a]]
  /\ lanes' = {0}
  /\ UNCHANGED <<pc, op, disk, cleanVars, stage, active, generation, resident, shm, status,
                 baseline, crashes>>

\* Mutant: a failed compiled branch returns without the cleanup.
PersistDone_NoCleanup ==
  /\ pc = "persist" /\ \A a \in Artifacts : result[a] # "pending"
  /\ IF result["compiled"] = "success" THEN pc' = "open" /\ UNCHANGED status
                                       ELSE pc' = "idle" /\ status' = "failed"
  /\ NoJob
  /\ UNCHANGED <<op, disk, cleanVars, generation, resident, shm, baseline, crashes>>

\* compiled.bin is mandatory, the other three are warnings.
PersistDone ==
  /\ pc = "persist" /\ \A a \in Artifacts : result[a] # "pending"
  /\ IF result["compiled"] = "success" THEN pc' = "open" /\ UNCHANGED cleanVars ELSE PostClean
  /\ NoJob
  /\ UNCHANGED <<op, disk, generation, resident, shm, status, baseline, crashes>>

\* The failed operation removed what it left, or says that it could not.
PostCleanDone ==
  /\ pc = "postclean" /\ toClean = {}
  /\ pc' = "idle"
  /\ status' = IF refused THEN "cleanup_failed" ELSE "failed"
  /\ UNCHANGED <<op, disk, cleanVars, persistVars, generation, resident, shm, baseline, crashes>>

-----------------------------------------------------------------------------
(***************************************************************************)
(* Resident publication, LOAD, UNLOAD, BUILD                               *)
(***************************************************************************)

\* server::load, refused while a Project is resident.
BeginLoad ==
  /\ pc = "idle" /\ resident = 0
  /\ op' = "load"
  /\ baseline' = {}
  /\ pc' = "open"
  /\ UNCHANGED <<disk, cleanVars, persistVars, generation, resident, shm, status, crashes>>

\* An error of LOAD ends it; one of a full construction goes to the cleanup.
OperationFails ==
  IF op = "load" THEN pc' = "idle" /\ status' = "failed" /\ UNCHANGED cleanVars
                 ELSE PostClean /\ UNCHANGED status

\* What bind() and decode() accept of a file: never a blank one, always a whole
\* one; a torn one exactly if the missing payload is not among what they check.
Binds(a) == CASE disk[a].content = "whole" -> {TRUE}
              [] disk[a].content = "torn"  -> {TRUE, FALSE}
              [] OTHER                     -> {FALSE}

\* The final compiled.bin is mapped and bound.
OpenCompiled ==
  /\ pc = "open"
  /\ \/ TRUE \in Binds("compiled") /\ pc' = "shm" /\ UNCHANGED <<status, cleanVars>>
     \/ OperationFails
  /\ UNCHANGED <<op, disk, persistVars, generation, resident, shm, baseline, crashes>>

\* create_resident_project up to fixed_shared_memory::create, which is exclusive.
CreateShm ==
  /\ pc = "shm"
  /\ \/ shm = "free" /\ shm' = "ours" /\ pc' = "materialize" /\ UNCHANGED <<status, cleanVars>>
     \/ OperationFails /\ UNCHANGED shm
  /\ UNCHANGED <<op, disk, persistVars, generation, resident, baseline, crashes>>

\* ... and the rest of it; a failure destroys the local shared memory object.
Materialize ==
  /\ pc = "materialize"
  /\ \/ /\ resident' = disk["compiled"].gen
        /\ pc' = "idle" /\ status' = "success"
        /\ UNCHANGED <<shm, cleanVars>>
     \/ OperationFails /\ shm' = "free" /\ UNCHANGED resident
  /\ UNCHANGED <<op, disk, persistVars, generation, baseline, crashes>>

\* server::unload, or the Project reset of server::shutdown.
Unload ==
  /\ pc = "idle" /\ resident # 0
  /\ op' = "unload"
  /\ resident' = 0 /\ shm' = "free"
  /\ status' = "success"
  /\ UNCHANGED <<pc, disk, cleanVars, persistVars, generation, baseline, crashes>>

\* The order in which build_project opens its baseline; database.bin only if
\* some semantic root has to be replayed.
Baselines == {{"manifest", "source", "compiled"}, Artifacts}

\* build_project: an open, a bind or a scan of the sources fails, or the
\* baseline is accepted; either way it ends without a Project, the second time
\* in report_build_incomplete().
Build ==
  /\ pc = "idle" /\ resident = 0
  /\ op' = "build"
  /\ \/ \E required \in Baselines :
          /\ \A a \in required : TRUE \in Binds(a)
          /\ baseline' = {disk[a] : a \in required}
     \/ baseline' = {}
  /\ status' = "failed"
  /\ UNCHANGED <<pc, disk, cleanVars, persistVars, generation, resident, shm, crashes>>

\* The process is killed; the next one starts with what is on disk.
Crash ==
  /\ crashes < CrashBudget
  /\ crashes' = crashes + 1
  /\ pc' = "idle" /\ op' = "none"
  /\ resident' = 0
  /\ shm' = IF shm = "ours" THEN (IF NamePersists THEN "orphan" ELSE "free") ELSE shm
  /\ status' = "none"
  /\ baseline' = {}
  /\ NoJob
  /\ toClean' = {} /\ refused' = FALSE
  /\ UNCHANGED <<disk, generation>>

Next ==
  \/ \E o \in FullOps : Begin(o) \/ LayoutFails(o)
  \/ \E a \in Artifacts :
       RemoveArtifact(a) \/ Create(a) \/ EncodeHeader(a) \/ EncodeRest(a) \/ ValidateAndFlush(a)
  \/ PreCleanDone \/ ConstructFails \/ (\E n \in 1..MaxLanes : Dispatch(n)) \/ DispatchFailed
  \/ PersistDone \/ PostCleanDone
  \/ BeginLoad \/ OpenCompiled \/ CreateShm \/ Materialize \/ Unload \/ Build
  \/ Crash

Spec == Init /\ [][Next]_vars

-----------------------------------------------------------------------------
(***************************************************************************)
(* Properties                                                              *)
(***************************************************************************)

Present == {a \in Artifacts : disk[a] # Absent}

\* Files of two generations never lie side by side, whatever fails and whenever
\* the process is killed: no stale BUILD state survives beside a new compiled.bin
\* (the pre-clean of construct_full_project).
NoMixedGenerations == \A a, b \in Present : disk[a].gen = disk[b].gen

\* A full construction that reports failure, other than a failed cleanup or one
\* that never had the artifacts' paths, leaves no artifact behind (the post-clean
\* of construct_full_project).
FailureLeavesNothing ==
  pc = "idle" /\ op \in FullOps /\ status = "failed" => Present = {}

\* The compiled.bin a resident Project has mapped stays the complete file it was
\* published or loaded from: no operation rewrites or removes it underneath.
ResidentMatchesDisk ==
  resident # 0 => disk["compiled"] = File("whole", resident)

\* Between operations the shared memory name is ours exactly while a Project is
\* resident, on every failure path of create_resident_project.
ShmOwned == pc = "idle" => (shm = "ours" <=> resident # 0)

\* BUILD rejects acceleration state that is not complete.
BaselineComplete == \A f \in baseline : f.content = "whole"

=============================================================================
