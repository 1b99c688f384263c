---------------------------- MODULE MCDirectory ----------------------------
(***************************************************************************)
(* Instances of Directory: jobs, pages and values are interchangeable for  *)
(* the safety properties.                                                  *)
(***************************************************************************)
EXTENDS Directory, TLC

Symmetry == Permutations(Jobs) \cup Permutations(Pages) \cup Permutations(Values)
=============================================================================
