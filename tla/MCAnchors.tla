------------------------------ MODULE MCAnchors ------------------------------
(***************************************************************************)
(* Anchors for TLC.  The two names are interchangeable.                    *)
(***************************************************************************)
EXTENDS Anchors

Symmetry == Permutations(Names)
=============================================================================
