------------------------------ MODULE MCBackfill -----------------------------
(* The instance of Backfill that TLC checks. *)
EXTENDS Backfill, TLC

Symmetry == Permutations(Workers)
=============================================================================
