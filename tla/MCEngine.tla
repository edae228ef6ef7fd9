------------------------------ MODULE MCEngine ------------------------------
(* Engine for TLC: frame contents are interchangeable. *)
EXTENDS Engine, TLC

CONSTANTS m1, m2

BodiesTwo == {m1, m2}
BodySymmetry == Permutations(Bodies)
=============================================================================
