--------------------------- MODULE MCTcpEventLoop ---------------------------
(***************************************************************************)
(* Model-checking instances of TcpEventLoop.                               *)
(***************************************************************************)
EXTENDS TcpEventLoop, TLC

CONSTANTS c1, c2, c3

ConnSymmetry == Permutations(Conn)

=============================================================================
