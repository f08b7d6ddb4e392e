-------------------------------- MODULE Isa --------------------------------
(***************************************************************************)
(* What a processor for Y86-64 promises to the program it runs: one           *)
(* instruction after another, each as step_state executes it, until one is    *)
(* not AOK.                                                                   *)
(*                                                                         *)
(* A stack instruction with a bad address stops the program either with %rsp  *)
(* moved, as step_state leaves it, or not moved, as the hardware simulators    *)
(* leave it: the promise allows both.                                         *)
(***************************************************************************)
EXTENDS Y86

VARIABLES code,   \* the program
          pc, r, m, cc, stat

vars == <<code, pc, r, m, cc, stat>>

\* new_state, and a memory that holds the program and otherwise zeros.
Init ==
  /\ pc = 0
  /\ r = [id \in Reg |-> 0]
  /\ m = [a \in Addr |-> 0]
  /\ cc = DEFAULT_CC
  /\ stat = "AOK"

Becomes(t) ==
  /\ pc' = t.pc /\ m' = t.m /\ cc' = t.cc /\ stat' = t.stat
  /\ r' = t.r \/ (t.stat = "ADR" /\ r' = r)

Step ==
  /\ stat = "AOK"
  /\ Becomes(step_state([pc |-> pc, r |-> r, m |-> m, cc |-> cc], code))
  /\ UNCHANGED code

Spec == Init /\ [][Step]_vars
=============================================================================
