----------------------------- MODULE MCMergeKeys -----------------------------
(***************************************************************************)
(* Merge keys for TLC.  The ordinary keys are interchangeable.             *)
(***************************************************************************)
EXTENDS ValueMerge

CONSTANTS OrdinaryKeys

Symmetry == Permutations(OrdinaryKeys)
=============================================================================
