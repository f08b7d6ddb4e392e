------------------------------- MODULE MCTsh -------------------------------
(***************************************************************************)
(* Module Tsh for TLC.  The process IDs are interchangeable: no definition  *)
(* orders them.  Symmetry is used in the runs without liveness only.        *)
(***************************************************************************)
EXTENDS TshProperties, TLC

Symmetry == Permutations(Pid)
=============================================================================
