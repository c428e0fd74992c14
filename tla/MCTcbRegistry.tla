--------------------------- MODULE MCTcbRegistry ---------------------------
(***************************************************************************)
(* TLC instance of TcbRegistry: two reactors, and two threads of which the *)
(* second may have the address of the first.                               *)
(***************************************************************************)
EXTENDS TcbRegistry

CONSTANTS r1, r2, a1, a2
=============================================================================
