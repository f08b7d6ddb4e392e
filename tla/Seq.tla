-------------------------------- MODULE Seq --------------------------------
(***************************************************************************)
(* The sequential processor: the simulator ssim.c with the control logic of  *)
(* seq-full.hcl, both in icslabs/lab6/sim/seq.  One action is one call of      *)
(* sim_step: the state changes the last instruction asked for, then the next   *)
(* instruction from fetch to the new program counter.  SEQ+ (plusmode) is      *)
(* left out.                                                                 *)
(***************************************************************************)
EXTENDS Hcl

VARIABLES
  code,                 \* the program
  pc, reg, mem, cc,
  pc_in, cc_in,         \* what the next step starts with
  wb, store,            \* the register and memory writes it starts with
  status

vars == <<code, pc, reg, mem, cc, pc_in, cc_in, wb, store, status>>

Init ==
  /\ pc = 0 /\ pc_in = 0
  /\ reg = [id \in Reg |-> 0]
  /\ mem = [a \in Addr |-> 0]
  /\ cc = DEFAULT_CC /\ cc_in = DEFAULT_CC
  /\ wb = [dstE |-> RNONE, valE |-> 0, dstM |-> RNONE, valM |-> 0]
  /\ store = [write |-> FALSE, addr |-> 0, data |-> 0]
  /\ status = "AOK"

\* Faulty: popq %rsp keeps the moved stack pointer.
WriteBackEWins(regs) == SetReg(SetReg(regs, wb.dstM, wb.valM), wb.dstE, wb.valE)
WriteBack(regs) == SetReg(SetReg(regs, wb.dstE, wb.valE), wb.dstM, wb.valM)
WriteMem(m) == IF store.write THEN SetWord(m, store.addr, store.data) ELSE m

update_state ==
  /\ pc' = pc_in
  /\ cc' = cc_in
  /\ reg' = WriteBack(reg)
  /\ mem' = WriteMem(mem)

NopInstr == [HaltInstr EXCEPT !.icode = "NOP"]
AtPc(p) == IF ByteOk(p) THEN CodeAt(code, p) ELSE NopInstr

\* A register byte or constant behind the end of memory reads as none or 0.
Fetch(i, p) ==
  [icode |-> i.icode, ifun |-> i.ifun,
   rA    |-> IF ByteOk(RegidsAt(p)) THEN i.rA ELSE RNONE,
   rB    |-> IF ByteOk(RegidsAt(p)) THEN i.rB ELSE RNONE,
   valC  |-> IF WordOk(ValcAt(i.icode, p)) THEN i.valC ELSE 0,
   valP  |-> NextPc(i.icode, p)]

Decode(d, regs, Cnd) ==
  [icode |-> d.icode, ifun |-> d.ifun, valC |-> d.valC, valP |-> d.valP, Cnd |-> Cnd,
   valA  |-> GetReg(regs, srcA(d)),
   valB  |-> GetReg(regs, srcB(d)),
   dstE  |-> IF d.icode = "RRMOVQ" /\ ~Cnd THEN RNONE ELSE dstE(d),
   dstM  |-> dstM(d)]

\* The memory signals look at icode, valA and valE.
Access(x) ==
  [icode |-> x.icode, valA |-> x.valA, valE |-> compute_alu(alufun(x), aluA(x), aluB(x))]
mem_data(x) == CASE x.icode \in {"RMMOVQ", "PUSHQ"} -> x.valA
                 [] x.icode = "CALL" -> x.valP
                 [] OTHER -> 0
\* A read that fails leaves the last value, which nobody will see: the run ends.
ValM(a, m) == IF mem_read(a) /\ WordOk(mem_addr(a)) THEN m[mem_addr(a)] ELSE 0
dmem_error(a) == (mem_read(a) \/ mem_write(a)) /\ ~WordOk(mem_addr(a))

StatOf(x, a, p) ==
  IF ~ByteOk(p) \/ dmem_error(a) THEN "ADR"
  ELSE IF x.icode \notin KnownCode THEN "INS"
  ELSE IF x.icode = "HALT" THEN "HLT" ELSE "AOK"

new_pc(x, valM) ==
  CASE x.icode = "CALL" \/ (x.icode = "JXX" /\ x.Cnd) -> x.valC
    [] x.icode = "RET" -> valM
    [] OTHER -> x.valP

\* From execute to the new program counter; x is decoded, a its access.
Finish(x, a) ==
  /\ cc_in' = IF x.icode \in {"OPQ", "IADDQ"}
              THEN compute_cc(alufun(x), aluA(x), aluB(x)) ELSE cc'
  /\ wb' = [dstE |-> x.dstE, valE |-> a.valE, dstM |-> x.dstM, valM |-> ValM(a, mem')]
  /\ store' = [write |-> mem_write(a), addr |-> mem_addr(a), data |-> mem_data(x)]
  /\ status' = StatOf(x, a, pc')
  /\ pc_in' = new_pc(x, ValM(a, mem'))
FinishDecoded(x) == Finish(x, Access(x))
Instruction(d) == FinishDecoded(Decode(d, reg', cond_holds(cc', d.ifun)))

Running == status = "AOK"
sim_step ==
  /\ Running
  /\ update_state
  /\ Instruction(Fetch(AtPc(pc'), pc'))
  /\ UNCHANGED code

Next == sim_step
Spec == Init /\ [][Next]_vars
=============================================================================
