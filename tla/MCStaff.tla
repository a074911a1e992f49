------------------------------ MODULE MCStaff ------------------------------
(* The staff with small numbers of voices, elements and signs. *)
EXTENDS Staff, TLC

Symmetry == Permutations(Signs)
=============================================================================
