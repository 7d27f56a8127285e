-------------------------- MODULE MCNoncePipeline --------------------------
(***************************************************************************)
(* NoncePipeline on a small instance.                                      *)
(***************************************************************************)
EXTENDS NoncePipeline, TLC

Symmetry == Permutations(Writers)
============================================================================
