----------------------------- MODULE Simulators -----------------------------
(***************************************************************************)
(* The tools for Y86-64 side by side: the simulators psim (PipeProperties),    *)
(* ssim (Seq) and lab 4's y64sim (Y64sim), and the assembler y64asm (Y64asm)   *)
(* that makes the programs they load.  machine tells which of them is at work; *)
(* the others rest.                                                          *)
(***************************************************************************)
EXTENDS PipeProperties, Sequences

CONSTANT IntHalf

ASSUME IntAssumption == IntHalf \in 1 .. Half

VARIABLES
  machine,
  spc, sreg, smem, scc, spc_in, scc_in, swb, sstore, sstatus,   \* of ssim
  ypc, yr, ym, ycc, ystat,                                      \* of y64sim
  source, stage, rest, vmaddr, symtab, reltab, lines, written, image   \* of y64asm

Ssim == INSTANCE Seq WITH
  pc <- spc, reg <- sreg, mem <- smem, cc <- scc, pc_in <- spc_in, cc_in <- scc_in,
  wb <- swb, store <- sstore, status <- sstatus
Lab4 == INSTANCE Y64sim WITH pc <- ypc, r <- yr, m <- ym, cc <- ycc, stat <- ystat
Asm == INSTANCE Y64asmProperties

seqVars == <<spc, sreg, smem, scc, spc_in, scc_in, swb, sstore, sstatus>>
labVars == <<ypc, yr, ym, ycc, ystat>>
asmVars == <<source, stage, rest, vmaddr, symtab, reltab, lines, written, image>>
simVars == <<hvars, machine, seqVars, labVars, asmVars>>

SimInit ==
  /\ HInit /\ Ssim!Init /\ Lab4!Init /\ Asm!Init
  /\ machine \in {"psim", "ssim", "y64sim", "y64asm"}

Psim == machine = "psim" /\ HNext /\ UNCHANGED <<machine, seqVars, labVars, asmVars>>
SimNext ==
  \/ Psim
  \/ machine = "ssim" /\ Ssim!Next /\ UNCHANGED <<hvars, machine, labVars, asmVars>>
  \/ machine = "y64sim" /\ Lab4!Next /\ UNCHANGED <<hvars, machine, seqVars, asmVars>>
  \/ machine = "y64asm" /\ Asm!Next /\ UNCHANGED <<hvars, machine, seqVars, labVars>>

----------------------------------------------------------------------------
(* A program whose instructions lie in memory and name their registers, and    *)
(* whose return addresses are words.  With a register missing, isa.c refuses    *)
(* an instruction that the processors execute.                                *)
WellPlaced(i, a) ==
  /\ i \in Instr /\ NamesRegisters(i)
  /\ a \in Addr /\ NextPc(i.icode, a) <= MemLen
  /\ i.icode \in {"JXX", "CALL"} => NextPc(i.icode, a) \in Word
LegalProgram(prog) == \A a \in DOMAIN prog : WellPlaced(prog[a], a)

\* It reads a register wherever the pipeline forwards one: "no register" does
\* not count as zero there.
NamesSources(i) ==
  /\ i.icode \in {"RMMOVQ", "MRMOVQ"} => i.rB # RNONE
  /\ i.icode = "OPQ" => i.rA # RNONE /\ i.rB # RNONE
SourcesNamed(prog) == \A a \in DOMAIN prog : NamesSources(prog[a])

\* A source is lines of statements.
LegalSource(src) == src \in Seq(Seq(Asm!Statement))
\* The statements are those of a program: each of its instructions is one of
\* them, at its address and with the address of its symbol for a constant, and
\* nothing is laid over other code or divides by zero.
Denotes(stmts, prog) ==
  LET at == Asm!Address(stmts) IN
  /\ \A j \in DOMAIN stmts :
       stmts[j].kind # "pos" /\ (stmts[j].kind = "align" => stmts[j].value # 0)
  /\ \A a \in DOMAIN prog : \E j \in DOMAIN stmts :
       stmts[j].kind = "instr" /\ at[j] = a /\ Asm!Encoded(stmts, at, stmts[j]) = prog[a]

----------------------------------------------------------------------------
(* ssim works on instruction k + 1 before the changes of instruction k reach  *)
(* the registers, the memory and the conditions; an instruction that is not    *)
(* AOK leaves its changes behind for ever.                                    *)

SeqProgram == INSTANCE Isa WITH
  pc   <- IF Ssim!Running THEN spc_in ELSE spc,
  r    <- IF Ssim!Running THEN Ssim!WriteBack(sreg) ELSE sreg,
  m    <- IF Ssim!Running THEN Ssim!WriteMem(smem) ELSE smem,
  cc   <- IF Ssim!Running THEN scc_in ELSE scc,
  stat <- sstatus

\* The changes of an instruction, held back until the next one starts, are
\* what step_state does to the state, and the reads of an instruction see all
\* changes before it.
SeqImplementsIsa == SeqProgram!Spec

\* KeepsCompleting where it is psim that runs.
PsimKeepsCompleting == machine = "psim" => KeepsCompleting

(***************************************************************************)
(* nexti does to the state what step_state does, with these exceptions: the   *)
(* sign is that of the low half of the result, the overflow of a subtraction   *)
(* of the least word is not found, a store to a bad address goes on, and       *)
(* iaddq is not an instruction.                                              *)
(***************************************************************************)
StateOf == [pc |-> ypc, r |-> yr, m |-> ym, cc |-> ycc]
Current == CodeAt(code, ypc)

FlagsAgree(flags, i, t) ==
  \/ flags = t.cc
  \/ /\ i.icode = "OPQ"
     /\ flags.zf = t.cc.zf
     /\ flags.of = t.cc.of \/ (i.ifun = "SUB" /\ GetReg(yr, i.rA) = -Half)
     /\ flags.sf = t.cc.sf \/ compute_alu(i.ifun, GetReg(yr, i.rA), GetReg(yr, i.rB))
                                \notin -IntHalf .. IntHalf - 1

Agrees(i, t) ==
  CASE i.icode = "IADDQ" -> ystat' = "INS" /\ UNCHANGED <<ypc, yr, ym, ycc>>
    [] i.icode = "RMMOVQ" /\ t.stat = "ADR" ->
         ypc' = NextPc(i.icode, ypc) /\ UNCHANGED <<yr, ym, ycc, ystat>>
    [] OTHER ->
         /\ <<ypc', yr', ym', ystat'>> = <<t.pc, t.r, t.m, t.stat>>
         /\ FlagsAgree(ycc', i, t)

NextiAgrees == [][Agrees(Current, step_state(StateOf, code))]_labVars

----------------------------------------------------------------------------
(* The assembler's properties, and that its file is the program which the      *)
(* simulators run: code, where code is what the source is to mean.             *)

\* The file has the bytes that the source as a whole means.
ImageRight == Asm!ImageRight
\* Sources with an error are refused, others are not.
RefusedRightly == Asm!RefusedRightly

\* A program written with labels, assembled and loaded, is the program with
\* addresses that the simulators are checked on.
CodeLoaded ==
  machine = "y64asm" /\ stage = "done" =>
    \A a \in DOMAIN code : a \in DOMAIN image /\ image[a] = <<code[a], 0>>
=============================================================================
