--------------------------- MODULE MCCommunication ---------------------------
(***************************************************************************)
(* Model-checking instances of Communication.  The configurations choose   *)
(* the connections, request ids and budgets; this module adds the sets a   *)
(* configuration cannot spell.                                             *)
(***************************************************************************)
EXTENDS Communication, TLC

CONSTANTS c1, c2, r1, r2

Everyone == {Conn}
Nobody == {}

LoadAndShutdown == {"load", "shutdown"}
LoadAndState == {"load", "get_state"}
OnlyShutdown == {"shutdown"}
OnlyLoad == {"load"}

ConnSymmetry == Permutations({c1, c2})
IdSymmetry == Permutations({r1, r2})
Symmetry == ConnSymmetry \cup IdSymmetry

=============================================================================
