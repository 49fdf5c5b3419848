--------------------------- MODULE MCDeployment ---------------------------
(***************************************************************************)
(* Administrators are interchangeable.                                      *)
(***************************************************************************)
EXTENDS Deployment, TLC

MCSymmetry == Permutations(Administrator)
=============================================================================
