------------------------------- MODULE MCMesh -------------------------------
(***************************************************************************)
(* Instance of Mesh for TLC: two messages while A and C are in reach of R  *)
(* only, one message while they also hear each other.                      *)
(***************************************************************************)
EXTENDS Mesh

Line == {{"A", "R"}, {"R", "C"}}
Triangle == Line \union {{"A", "C"}}

Experiments == {[links |-> Line, sends |-> 2], [links |-> Triangle, sends |-> 1]}
=============================================================================
