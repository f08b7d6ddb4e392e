-------------------------------- MODULE Y86 --------------------------------
(***************************************************************************)
(* The Y86-64 instruction set as icslabs/lab6/sim/misc/isa.c defines it:     *)
(* words, the memory and the register file, the ALU, the conditions, and     *)
(* step_state, which executes one instruction of a program.                  *)
(*                                                                         *)
(* A program is a function code from addresses to instructions that are      *)
(* already taken apart; elsewhere memory holds zero bytes, and byte 0 is     *)
(* halt.  Programs do not store into their own code.                         *)
(***************************************************************************)
EXTENDS Integers, FiniteSetsExt

CONSTANTS BITS,       \* bits of a word; 64 in the source
          Half,       \* words are -Half .. Half - 1
          WORD,       \* addresses a word takes; 8 in the source
          MemLen,     \* bytes of memory
          Reg,        \* the program registers
          RSP,        \* the stack pointer
          RNONE       \* "no register"

ASSUME Y86Assumption ==
  /\ BITS \in Nat \ {0}
  /\ Half \in Nat \ {0}
  /\ Half = 2 ^ (BITS - 1)
  /\ WORD \in 1 .. Half - 1
  /\ MemLen \in Nat
  /\ RSP \in Reg
  /\ RNONE \notin Reg

Word == -Half .. Half - 1
Addr == 0 .. MemLen - 1
\* Faulty: words are unsigned.
WrapUnsigned(n) == n % (2 * Half)
Wrap(n) == ((n + Half) % (2 * Half)) - Half

Cond  == {"YES", "LE", "L", "E", "NE", "GE", "G"}
AluFn == {"ADD", "SUB", "AND", "XOR"}
Stat  == {"AOK", "HLT", "ADR", "INS"}
CC    == [zf : BOOLEAN, sf : BOOLEAN, of : BOOLEAN]
DEFAULT_CC == [zf |-> TRUE, sf |-> FALSE, of |-> FALSE]

NeedRegids(icode) == icode \in {"RRMOVQ", "OPQ", "PUSHQ", "POPQ",
                                "IRMOVQ", "RMMOVQ", "MRMOVQ", "IADDQ"}
NeedValC(icode) == icode \in {"IRMOVQ", "RMMOVQ", "MRMOVQ", "JXX", "CALL", "IADDQ"}
KnownCode == {"HALT", "NOP", "RRMOVQ", "IRMOVQ", "RMMOVQ", "MRMOVQ", "OPQ",
              "JXX", "CALL", "RET", "PUSHQ", "POPQ", "IADDQ"}

Instr == [icode : KnownCode \cup {"BAD"}, ifun : Cond \cup AluFn \cup {"NONE"},
          rA : Reg \cup {RNONE}, rB : Reg \cup {RNONE}, valC : Word]
HaltInstr == [icode |-> "HALT", ifun |-> "NONE", rA |-> RNONE, rB |-> RNONE, valC |-> 0]

----------------------------------------------------------------------------
(* Memory and register file.                                               *)

ByteOk(pos) == pos >= 0 /\ pos < MemLen
WordOk(pos) == pos >= 0 /\ pos + WORD <= MemLen

CodeAt(code, pc) == IF pc \in DOMAIN code THEN code[pc] ELSE HaltInstr
RegidsAt(pc) == pc + 1
ValcAt(icode, pc) == pc + 1 + (IF NeedRegids(icode) THEN 1 ELSE 0)
NextPc(icode, pc) == ValcAt(icode, pc) + (IF NeedValC(icode) THEN WORD ELSE 0)

\* set_word_val leaves memory alone when the address is not valid.
SetWord(m, pos, val) == IF WordOk(pos) THEN [m EXCEPT ![pos] = val] ELSE m
GetReg(r, id) == IF id = RNONE THEN 0 ELSE r[id]
SetReg(r, id, val) == IF id = RNONE THEN r ELSE [r EXCEPT ![id] = val]

----------------------------------------------------------------------------
(* The ALU.                                                                *)

Bit(x, i) == (x \div 2 ^ i) % 2
OfBits(bits) == Wrap(MapThenSumSet(LAMBDA i : 2 ^ i, bits))

compute_alu(op, a, b) ==
  CASE op = "ADD" -> Wrap(a + b)
    [] op = "SUB" -> Wrap(b - a)
    [] op = "AND" -> OfBits({i \in 0 .. BITS - 1 : Bit(a, i) = 1 /\ Bit(b, i) = 1})
    [] op = "XOR" -> OfBits({i \in 0 .. BITS - 1 : Bit(a, i) # Bit(b, i)})
    [] OTHER -> 0

Overflow(op, a, b, val) ==
  \/ op = "ADD" /\ (a < 0 <=> b < 0) /\ ~(val < 0 <=> a < 0)
  \/ op = "SUB" /\ (a > 0 <=> b < 0) /\ ~(val < 0 <=> b < 0)

CcOf(op, a, b, val) == [zf |-> val = 0, sf |-> val < 0, of |-> Overflow(op, a, b, val)]
compute_cc(op, a, b) == CcOf(op, a, b, compute_alu(op, a, b))

cond_holds(cc, c) ==
  LET less == cc.sf # cc.of
  IN  \/ c = "YES"
      \/ c = "LE" /\ (less \/ cc.zf)
      \/ c = "L"  /\ less
      \/ c = "E"  /\ cc.zf
      \/ c = "NE" /\ ~cc.zf
      \/ c = "GE" /\ ~less
      \/ c = "G"  /\ ~less /\ ~cc.zf

----------------------------------------------------------------------------
(* step_state on s = [pc, r, m, cc].  Its result has the returned status in  *)
(* the field stat.  The cases of the switch check the register bytes before   *)
(* they touch the state, and the stack instructions move %rsp before they     *)
(* know that the address is valid.                                          *)

NamesRegisters(i) ==
  CASE i.icode = "RRMOVQ" -> i.rA # RNONE /\ i.rB # RNONE
    [] i.icode \in {"IRMOVQ", "IADDQ"} -> i.rB # RNONE
    [] i.icode \in {"RMMOVQ", "MRMOVQ", "PUSHQ", "POPQ"} -> i.rA # RNONE
    [] OTHER -> TRUE

\* The status of an instruction that is not executed, AOK if it is.
RefusedAs(pc, i) ==
  CASE ~ByteOk(pc) -> "ADR"
    [] ByteOk(pc) /\ i.icode = "HALT" -> "HLT"
    [] ByteOk(pc) /\ i.icode \notin KnownCode -> "INS"
    [] OTHER ->
         CASE NeedRegids(i.icode) /\ ~ByteOk(RegidsAt(pc)) -> "ADR"
           [] NeedValC(i.icode) /\ ~WordOk(ValcAt(i.icode, pc)) ->
                IF i.icode \in {"JXX", "CALL"} THEN "ADR" ELSE "INS"
           [] OTHER -> IF NamesRegisters(i) THEN "AOK" ELSE "INS"

Result(pc, r, m, cc, stat) == [pc |-> pc, r |-> r, m |-> m, cc |-> cc, stat |-> stat]
Fault(s, r) == Result(s.pc, r, s.m, s.cc, "ADR")

Load(s, i, pos, next) ==
  IF WordOk(pos) THEN Result(next, SetReg(s.r, i.rA, s.m[pos]), s.m, s.cc, "AOK")
  ELSE Fault(s, s.r)
Store(s, pos, val, r, next) ==
  IF WordOk(pos) THEN Result(next, r, SetWord(s.m, pos, val), s.cc, "AOK")
  ELSE Fault(s, r)
Arith(s, op, a, b, rB, next) ==
  Result(next, SetReg(s.r, rB, compute_alu(op, a, b)), s.m, compute_cc(op, a, b), "AOK")
Push(s, val, next) ==
  Store(s, Wrap(s.r[RSP] - WORD), val, SetReg(s.r, RSP, Wrap(s.r[RSP] - WORD)), next)
Popped(r) == SetReg(r, RSP, Wrap(r[RSP] + WORD))
Pop(s, i, next) ==
  IF WordOk(s.r[RSP])
  THEN Result(next, SetReg(Popped(s.r), i.rA, s.m[s.r[RSP]]), s.m, s.cc, "AOK")
  ELSE Fault(s, Popped(s.r))
Ret(s) ==
  IF WordOk(s.r[RSP]) THEN Result(s.m[s.r[RSP]], Popped(s.r), s.m, s.cc, "AOK")
  ELSE Fault(s, s.r)

Execute(s, i, next) ==
  CASE i.icode = "NOP"    -> Result(next, s.r, s.m, s.cc, "AOK")
    [] i.icode = "RRMOVQ" -> Result(next,
         IF cond_holds(s.cc, i.ifun) THEN SetReg(s.r, i.rB, s.r[i.rA]) ELSE s.r,
         s.m, s.cc, "AOK")
    [] i.icode = "IRMOVQ" -> Result(next, SetReg(s.r, i.rB, i.valC), s.m, s.cc, "AOK")
    [] i.icode = "RMMOVQ" -> Store(s, Wrap(i.valC + GetReg(s.r, i.rB)), s.r[i.rA], s.r, next)
    [] i.icode = "MRMOVQ" -> Load(s, i, Wrap(i.valC + GetReg(s.r, i.rB)), next)
    [] i.icode = "OPQ"    -> Arith(s, i.ifun, GetReg(s.r, i.rA), GetReg(s.r, i.rB), i.rB, next)
    [] i.icode = "IADDQ"  -> Arith(s, "ADD", i.valC, s.r[i.rB], i.rB, next)
    [] i.icode = "JXX"    -> Result(IF cond_holds(s.cc, i.ifun) THEN i.valC ELSE next,
                                    s.r, s.m, s.cc, "AOK")
    [] i.icode = "CALL"   -> Push(s, next, i.valC)
    [] i.icode = "PUSHQ"  -> Push(s, s.r[i.rA], next)
    [] i.icode = "POPQ"   -> Pop(s, i, next)
    [] i.icode = "RET"    -> Ret(s)

StepInstr(s, i) ==
  IF RefusedAs(s.pc, i) = "AOK" THEN Execute(s, i, NextPc(i.icode, s.pc))
  ELSE Result(s.pc, s.r, s.m, s.cc, RefusedAs(s.pc, i))
step_state(s, code) == StepInstr(s, CodeAt(code, s.pc))
=============================================================================
