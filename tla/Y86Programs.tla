---------------------------- MODULE Y86Programs ----------------------------
(***************************************************************************)
(* The small programs on which TLC runs the processors and simulators, laid  *)
(* out in memory from address 0.                                             *)
(***************************************************************************)
EXTENDS Y86, Sequences

CONSTANT ax   \* a register

I(icode, ifun, rA, rB, valC) ==
  [icode |-> icode, ifun |-> ifun, rA |-> rA, rB |-> rB, valC |-> valC]

\* The instructions of a program; to a jump valC is how many it skips.
Short == {
  I("OPQ", "SUB", ax, RSP, 0),
  I("MRMOVQ", "NONE", ax, RSP, 0),
  I("RMMOVQ", "NONE", ax, RSP, 0),
  I("RMMOVQ", "NONE", ax, RSP, -9),
  I("POPQ", "NONE", RSP, RNONE, 0),
  I("JXX", "NE", RNONE, RNONE, 1),
  I("CALL", "NONE", RNONE, RNONE, 1),
  I("RET", "NONE", RNONE, RNONE, 0),
  I("RRMOVQ", "NE", RSP, ax, 0) }
Long == Short \cup {
  HaltInstr,
  I("NOP", "NONE", RNONE, RNONE, 0),
  I("BAD", "NONE", RNONE, RNONE, 0),
  I("IRMOVQ", "NONE", RNONE, RSP, 6),
  I("IADDQ", "NONE", RNONE, ax, -1),
  I("OPQ", "XOR", ax, ax, 0),
  I("OPQ", "AND", RSP, ax, 0),
  I("OPQ", "ADD", RSP, ax, 0),
  I("MRMOVQ", "NONE", RSP, ax, -13),
  I("RRMOVQ", "YES", ax, RSP, 0),
  I("PUSHQ", "NONE", ax, RNONE, 0),
  I("PUSHQ", "NONE", RSP, RNONE, 0),
  I("POPQ", "NONE", ax, RNONE, 0),
  I("JXX", "LE", RNONE, RNONE, 1),
  I("JXX", "YES", RNONE, RNONE, 1) }

\* The address of instruction k of a program that is laid out from 0.
Start(prog) ==
  LET at[k \in 1 .. Len(prog) + 1] ==
        IF k = 1 THEN 0 ELSE NextPc(prog[k - 1].icode, at[k - 1])
  IN  at
AddressOf(at, k) == IF k \in DOMAIN at THEN at[k] ELSE at[Len(at)]
Laid(prog, at) ==
  [a \in {at[k] : k \in DOMAIN prog} |->
     LET k == CHOOSE j \in DOMAIN prog : at[j] = a
     IN  IF prog[k].icode \in {"JXX", "CALL"}
         THEN [prog[k] EXCEPT !.valC = AddressOf(at, k + 1 + @)] ELSE prog[k]]
Assembled(prog) == Laid(prog, Start(prog))

\* %ax is the address of the third free instruction, for a push before a ret.
Prologue == << I("IRMOVQ", "NONE", RNONE, RSP, 8), I("IRMOVQ", "NONE", RNONE, ax, 12) >>
=============================================================================
