------------------------------- MODULE Y64sim -------------------------------
(***************************************************************************)
(* The instruction-set simulator of lab 4, icslabs/lab4/y64sim.c: main calls  *)
(* nexti until it does not return STAT_AOK.  Its memory, registers and        *)
(* conditions are those of Y86; what nexti and compute_cc do differently from  *)
(* step_state is written out here.                                           *)
(***************************************************************************)
EXTENDS Y86

CONSTANT IntHalf   \* an int is -IntHalf .. IntHalf - 1; 2^31 in the source

VARIABLES code, pc, r, m, cc, stat

vars == <<code, pc, r, m, cc, stat>>

Init ==
  /\ pc = 0
  /\ r = [id \in Reg |-> 0]
  /\ m = [a \in Addr |-> 0]
  /\ cc = DEFAULT_CC
  /\ stat = "AOK"

\* (int) val keeps the low half of the word.
LowHalf(val) == ((val + IntHalf) % (2 * IntHalf)) - IntHalf

SubOverflow(minusA, b, val) == (minusA < 0 <=> b < 0) /\ ~(val < 0 <=> minusA < 0)
Flags(op, a, b, val) ==
  [zf |-> val = 0,
   sf |-> LowHalf(val) < 0,
   of |-> \/ op = "ADD" /\ (a < 0 <=> b < 0) /\ ~(val < 0 <=> a < 0)
          \/ op = "SUB" /\ SubOverflow(Wrap(-a), b, val)]

\* The bytes of the instruction are there, or nexti returns STAT_ADR.
Complete(i) ==
  /\ ByteOk(pc)
  /\ NeedRegids(i.icode) /\ i.icode # "IADDQ" => ByteOk(RegidsAt(pc))
  /\ NeedValC(i.icode) /\ i.icode # "IADDQ" => WordOk(ValcAt(i.icode, pc))

Stop(s) == stat' = s /\ UNCHANGED <<code, pc, r, m, cc>>
Go(next, regs, memory, flags) ==
  /\ pc' = next /\ r' = regs /\ m' = memory /\ cc' = flags
  /\ UNCHANGED <<code, stat>>
\* A stack access with a bad address: %rsp has moved already.
StackFault(regs) == stat' = "ADR" /\ r' = regs /\ UNCHANGED <<code, pc, m, cc>>

Move(i, next) ==
  \/ /\ i.icode = "RRMOVQ"
     /\ Go(next, IF cond_holds(cc, i.ifun) THEN SetReg(r, i.rB, GetReg(r, i.rA)) ELSE r, m, cc)
  \/ i.icode = "IRMOVQ" /\ Go(next, SetReg(r, i.rB, i.valC), m, cc)

\* A store to a bad address is not noticed.
MemMove(i, addr, next) ==
  \/ i.icode = "RMMOVQ" /\ Go(next, r, SetWord(m, addr, GetReg(r, i.rA)), cc)
  \/ i.icode = "MRMOVQ" /\ WordOk(addr) /\ Go(next, SetReg(r, i.rA, m[addr]), m, cc)
  \/ i.icode = "MRMOVQ" /\ ~WordOk(addr) /\ Stop("ADR")

Alu(i, val, next) ==
  /\ i.icode = "OPQ"
  /\ Go(next, SetReg(r, i.rB, val), m, Flags(i.ifun, GetReg(r, i.rA), GetReg(r, i.rB), val))

Jump(i, next) ==
  i.icode = "JXX" /\ Go(IF cond_holds(cc, i.ifun) THEN i.valC ELSE next, r, m, cc)

Moved(by) == SetReg(r, RSP, Wrap(r[RSP] + by))

PushWord(top, val, next) ==
  \/ WordOk(top) /\ Go(next, Moved(-WORD), SetWord(m, top, val), cc)
  \/ ~WordOk(top) /\ StackFault(Moved(-WORD))
PushInstr(i, next) ==
  \/ i.icode = "CALL" /\ PushWord(Wrap(r[RSP] - WORD), next, i.valC)
  \/ i.icode = "PUSHQ" /\ PushWord(Wrap(r[RSP] - WORD), GetReg(r, i.rA), next)

\* Faulty: popq moves %rsp after it has written rA.
PopMovesLast(i, next) ==
  /\ i.icode \in {"RET", "POPQ"} /\ WordOk(r[RSP])
  /\ Go(IF i.icode = "RET" THEN m[r[RSP]] ELSE next,
        [SetReg(r, i.rA, m[r[RSP]]) EXCEPT ![RSP] = Wrap(r[RSP] + WORD)], m, cc)
PopInstr(i, next) ==
  \/ i.icode = "RET" /\ WordOk(r[RSP]) /\ Go(m[r[RSP]], Moved(WORD), m, cc)
  \/ i.icode = "RET" /\ ~WordOk(r[RSP]) /\ Stop("ADR")
  \/ i.icode = "POPQ" /\ WordOk(r[RSP]) /\ Go(next, SetReg(Moved(WORD), i.rA, m[r[RSP]]), m, cc)
  \/ i.icode = "POPQ" /\ ~WordOk(r[RSP]) /\ StackFault(Moved(WORD))

Perform(i, next) ==
  \/ i.icode = "HALT" /\ Stop("HLT")
  \/ i.icode \in {"IADDQ", "BAD"} /\ Stop("INS")
  \/ i.icode = "NOP" /\ Go(next, r, m, cc)
  \/ Move(i, next)
  \/ MemMove(i, Wrap(GetReg(r, i.rB) + i.valC), next)
  \/ Alu(i, compute_alu(i.ifun, GetReg(r, i.rA), GetReg(r, i.rB)), next)
  \/ Jump(i, next)
  \/ PushInstr(i, next)
  \/ PopInstr(i, next)

nexti(i) ==
  \/ ~Complete(i) /\ Stop("ADR")
  \/ Complete(i) /\ Perform(i, NextPc(i.icode, pc))

Next == stat = "AOK" /\ nexti(CodeAt(code, pc))
Spec == Init /\ [][Next]_vars
=============================================================================
