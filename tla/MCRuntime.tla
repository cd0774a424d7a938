------------------------------ MODULE MCRuntime ------------------------------
(***************************************************************************)
(* Model-checking instance of the Runtime of a Project: the LOAD that lays *)
(* it out and writes it, and the commands on a resident one.  The commands *)
(* do not run during a LOAD, so a behaviour is about one of them, `focus', *)
(* and leaves the other as it starts.                                      *)
(***************************************************************************)
EXTENDS MCRuntimeIc, MCMaterializer

VARIABLE focus

MCHash(space, key) == 0

MCInit ==
    /\ focus \in {"load", "commands"}
    /\ Init /\ MaterializerInit
    /\ focus = "load" => schema = CHOOSE s \in Schemas : TRUE

LoadStep == focus = "load" /\ MaterializerNext
CommandStep == focus = "commands" /\ Next

\* A LOAD ends, resident or refused.
LoadEnded == runtime.phase \in {"resident", "refused"} /\ UNCHANGED <<runtime, vars>>

MCNext ==
    /\ UNCHANGED focus
    /\ \/ LoadStep /\ UNCHANGED vars
       \/ CommandStep /\ UNCHANGED runtime
       \/ LoadEnded

MCSpec == MCInit /\ [][MCNext]_<<focus, runtime, vars>>
=============================================================================
