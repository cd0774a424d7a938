--------------------------- MODULE ServerRequests ---------------------------
(***************************************************************************)
(* The request semantics of the Server control thread: server_policy.cpp,  *)
(* server_state.hpp and the execute*() handlers of server.cpp, as          *)
(* operators.  A handler maps the Project slot of server_context (is there *)
(* a Project, and which project_state does the Server report) to the set   *)
(* of outcomes it may have.  Everything a handler reads from disk, from    *)
(* the Project or from shared memory is the choice between those outcomes. *)
(***************************************************************************)

ProjectStates == {"unloaded", "loaded", "run", "freeze"}

Modes == {"full", "demo"}

RequestKinds == {"load", "publish", "build", "unload", "rebuild", "get_state",
                 "get_value", "snap_ic", "reset_ic", "run", "freeze", "shutdown"}

\* server_context::project and server::project_state_value.
Slots == [project : BOOLEAN, state : ProjectStates]

EmptySlot == [project |-> FALSE, state |-> "unloaded"]

Outcome(st, sl) == [status |-> st, slot |-> sl]

\* server_policy::is_demo_mutation
IsDemoMutation(kind) ==
  kind \in {"publish", "build", "rebuild", "reset_ic", "run", "freeze"}

\* server_policy::allows
Allows(mode, kind) == mode = "full" \/ ~IsDemoMutation(kind)

\* project_state_can_run, project_state_can_freeze, project_state_can_unload
CanRun(state) == state \in {"loaded", "freeze"}
CanFreeze(state) == state = "run"
CanUnload(state) == state \in {"loaded", "freeze"}

(***************************************************************************)
(* LOAD, PUBLISH and REBUILD share one shape: refused while a Project is   *)
(* resident, otherwise the candidate replaces the slot or the slot is      *)
(* emptied.                                                                *)
(***************************************************************************)
Construct(sl) ==
  IF sl.project
  THEN {Outcome("failed", sl)}
  ELSE {Outcome("success", [project |-> TRUE, state |-> "loaded"]),
        Outcome("failed", EmptySlot)}

Load(sl) == Construct(sl)
Publish(sl) == Construct(sl)
Rebuild(sl) == Construct(sl)

\* build_project() always ends in report_build_incomplete(): BUILD has no
\* successful outcome in this version of the Server.
Build(sl) ==
  IF sl.project THEN {Outcome("failed", sl)} ELSE {Outcome("failed", EmptySlot)}

Run(sl) ==
  IF sl.project /\ CanRun(sl.state)
  THEN {Outcome("success", [project |-> TRUE, state |-> "run"])}
  ELSE {Outcome("failed", sl)}

Freeze(sl) ==
  IF sl.project /\ CanFreeze(sl.state)
  THEN {Outcome("success", [project |-> TRUE, state |-> "freeze"])}
  ELSE {Outcome("failed", sl)}

Unload(sl) ==
  IF sl.project /\ CanUnload(sl.state)
  THEN {Outcome("success", EmptySlot)}
  ELSE {Outcome("failed", sl)}

\* GET_VALUE, SNAP_IC and RESET_IC need a Project; they read or write its
\* Runtime bytes and never move the lifecycle state.
UseRuntime(sl) ==
  IF sl.project
  THEN {Outcome("success", sl), Outcome("failed", sl)}
  ELSE {Outcome("failed", sl)}

SnapIc(sl) == UseRuntime(sl)
ResetIc(sl) == UseRuntime(sl)
GetValue(sl) == UseRuntime(sl)

\* server::execute.  SHUTDOWN also clears server::running: the module that
\* owns that variable says so.
Execute(kind, sl) ==
  CASE kind = "load"      -> Load(sl)
    [] kind = "publish"   -> Publish(sl)
    [] kind = "build"     -> Build(sl)
    [] kind = "rebuild"   -> Rebuild(sl)
    [] kind = "unload"    -> Unload(sl)
    [] kind = "run"       -> Run(sl)
    [] kind = "freeze"    -> Freeze(sl)
    [] kind = "snap_ic"   -> SnapIc(sl)
    [] kind = "reset_ic"  -> ResetIc(sl)
    [] kind = "get_value" -> GetValue(sl)
    [] kind \in {"get_state", "shutdown"} -> {Outcome("success", sl)}

\* server::execute_message
ExecuteMessage(mode, kind, sl) ==
  IF Allows(mode, kind) THEN Execute(kind, sl)
  ELSE {Outcome("access_denied", sl)}

=============================================================================
