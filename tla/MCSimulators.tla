---------------------------- MODULE MCSimulators ----------------------------
(***************************************************************************)
(* Simulators for TLC.  Each simulator runs every program of three             *)
(* instructions from a list, after a start that sets up the stack and a        *)
(* register; psim also runs every program of four from a shorter list, where   *)
(* the instructions before a fault, a ret or a misprediction are still in the  *)
(* pipeline.  The assembler has sources of its own and those of programs.      *)
(***************************************************************************)
EXTENDS Simulators, Y86Programs

\* Memory without a base register, and the least word, whose subtraction is
\* special: for the simulators without a pipeline.
Absolute == {I("RMMOVQ", "NONE", ax, RNONE, 20), I("MRMOVQ", "NONE", RSP, RNONE, 20)}
Least == I("IRMOVQ", "NONE", RNONE, ax, -Half)

Three == {Assembled(Prologue \o <<a, b, c>>) : a \in Long, b \in Long, c \in Short}
Four == {Assembled(Prologue \o <<a, b, c, d>>) : a \in Short, b \in Short, c \in Short, d \in Short}
Special == {Assembled(Prologue \o <<a, b, c>>) :
              a \in Absolute \cup {Least}, b \in Long \cup Absolute, c \in Short}

\* Sources for the assembler: the programs above with a label on every line,
\* and lines in every order, right and wrong ones.
Names == <<"a", "b", "c", "d", "e", "f", "g">>
Least2(i, j) == IF i <= j THEN i ELSE j
Label(n) == [kind |-> "label", name |-> n]
Ins(i, sym) == [kind |-> "instr", icode |-> i.icode, ifun |-> i.ifun, rA |-> i.rA, rB |-> i.rB,
                valC |-> i.valC, sym |-> sym]
Quad(sym) == [kind |-> "data", bytes |-> WORD, valC |-> 7, sym |-> sym]
Pos(n) == [kind |-> "pos", value |-> n]
Align(n) == [kind |-> "align", value |-> n]
Comment == [kind |-> "comment"]
Jump(icode, sym) == Ins(I(icode, IF icode = "JXX" THEN "YES" ELSE "NONE", RNONE, RNONE, 0), sym)

Symbolic(prog, k) ==
  IF prog[k].icode \in {"JXX", "CALL"}
  THEN Ins([prog[k] EXCEPT !.valC = 0], Names[Least2(k + 1 + prog[k].valC, Len(prog) + 1)])
  ELSE Ins(prog[k], "none")
SourceOf(prog) ==
  [k \in 1 .. Len(prog) + 1 |->
     <<Label(Names[k])>> \o (IF k > Len(prog) THEN <<>> ELSE <<Symbolic(prog, k)>>)]

Lines == {
  <<>>, <<Comment>>, <<Label("a"), Comment>>, <<Label("a"), Label("b"), Ins(HaltInstr, "none")>>,
  <<Label("b"), Jump("JXX", "a")>>, <<Jump("CALL", "b"), Comment>>,
  <<Ins(I("IRMOVQ", "NONE", RNONE, ax, 0), "a")>>, <<Ins(I("PUSHQ", "NONE", ax, RNONE, 0), "none")>>,
  <<Label("b"), Quad("a")>>, <<Quad("none")>>, <<Pos(1)>>, <<Label("a"), Align(4)>>, <<Align(0)>>,
  <<Jump("JXX", "b"), Ins(HaltInstr, "none")>>, <<Ins(HaltInstr, "none"), [kind |-> "bad"]>> }
Sources == {<<a, b, c>> : a \in Lines, b \in Lines, c \in Lines}
Labelled == {Prologue \o <<a, b, c>> : a \in Short, b \in Short, c \in Short}

Simulated ==
  /\ machine # "y64asm" /\ source = <<>>
  /\ code \in Three \cup Four \cup Special
  /\ code \in Four => machine = "psim"
  /\ code \in Special => machine # "psim"
ToAssemble ==
  /\ machine = "y64asm"
  /\ \/ source \in Sources /\ code = [a \in {} |-> HaltInstr]
     \/ \E prog \in Labelled : source = SourceOf(prog) /\ code = Assembled(prog)
ASSUME ProgramsLegal ==
  /\ \A prog \in Three \cup Four \cup Special : LegalProgram(prog)
  /\ \A prog \in Three \cup Four : SourcesNamed(prog)
ASSUME SourcesLegal ==
  /\ \A src \in Sources : LegalSource(src)
  /\ \A prog \in Labelled :
       /\ LegalSource(SourceOf(prog)) /\ Asm!OnePerLine(SourceOf(prog))
       /\ Denotes(Asm!FlattenSeq(SourceOf(prog)), Assembled(prog))

MCInit == SimInit /\ (Simulated \/ ToAssemble)
MCSpec == MCInit /\ [][SimNext]_simVars /\ WF_simVars(Psim)

\* psim on programs that store and load without a base register.
AbsoluteInit ==
  /\ SimInit /\ machine = "psim" /\ source = <<>>
  /\ code \in {Assembled(Prologue \o <<a, b, c>>) : a \in Absolute, b \in Absolute, c \in Short}
AbsoluteSpec == AbsoluteInit /\ [][SimNext]_simVars /\ WF_simVars(Psim)
=============================================================================
