------------------------------- MODULE MCCsim -------------------------------
(***************************************************************************)
(* Module Csim for TLC: two sets of three lines and blocks of two bytes,    *)
(* with four blocks that map to the first set and one to the second.        *)
(***************************************************************************)
EXTENDS CsimProperties
=============================================================================
