------------------------------ MODULE MCRounds ------------------------------
(***************************************************************************)
(* Rounds with model values for the admins, who are interchangeable.       *)
(***************************************************************************)
EXTENDS Rounds, TLC

Symmetry == Permutations(Admins)
=============================================================================
