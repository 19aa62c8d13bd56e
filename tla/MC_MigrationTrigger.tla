------------------------ MODULE MC_MigrationTrigger ------------------------
(***************************************************************************)
(* MigrationTrigger with interchangeable storage versions.  Only the runs  *)
(* that check safety use the symmetry.                                     *)
(***************************************************************************)
EXTENDS MigrationTrigger, TLC

VersionSymmetry == Permutations(Versions)
=============================================================================
