----------------------------- MODULE PipeProofs -----------------------------
(***************************************************************************)
(* Proofs about the pipelined processor, for words, memories, register files *)
(* and programs of any size.                                                *)
(***************************************************************************)
EXTENDS SimulatorProofs

\* An instruction that is at fault when it is fetched does not store.
Harmless(x) == x.status \in Bad => ~mem_write(x)

\* What the next edge does with each pipeline register: never an error, and
\* a bubble into M as soon as a fault is in the memory stage.
Controlled ==
  /\ op.F \in {"LOAD", "STALL"}
  /\ op.D \in {"LOAD", "STALL", "BUBBLE"}
  /\ op.E \in {"LOAD", "BUBBLE"}
  /\ op.M \in {"LOAD", "BUBBLE"}
  /\ op.W \in {"LOAD", "STALL"}
  /\ nextW.status \in Bad \/ W.status \in Bad => op.M = "BUBBLE"

FaultInv ==
  /\ Harmless(D) /\ Harmless(E) /\ Harmless(M)
  /\ Harmless(nextD) /\ Harmless(nextE) /\ Harmless(nextM)
  /\ Controlled
  /\ FaultsActAlone

-----------------------------------------------------------------------------

LEMMA ControlOfCycle ==
  ASSUME NEW d, NEW e, NEW m, NEW w, NEW Cnd, NEW m_stat
  PROVE  LET o == do_stall_check(d, e, m, w, Cnd, m_stat)
         IN  /\ o.F \in {"LOAD", "STALL"}
             /\ o.D \in {"LOAD", "STALL", "BUBBLE"}
             /\ o.E \in {"LOAD", "BUBBLE"}
             /\ o.M = IF m_stat \in Bad \/ w.status \in Bad THEN "BUBBLE" ELSE "LOAD"
             /\ o.W \in {"LOAD", "STALL"}
             /\ DOMAIN o = {"F", "D", "E", "M", "W"}
<1>1. ~(LoadUse(d, e) /\ D_bubble(d, e, m, Cnd))
  BY DEF LoadUse, D_bubble, Mispredicted
<1>2. \A s \in BOOLEAN : pipe_cntl(s, FALSE) \in {"LOAD", "STALL"}
  BY DEF pipe_cntl
<1>3. \A b \in BOOLEAN : pipe_cntl(FALSE, b) = IF b THEN "BUBBLE" ELSE "LOAD"
  BY DEF pipe_cntl
<1>4. \A s, b \in BOOLEAN : ~(s /\ b) => pipe_cntl(s, b) \in {"LOAD", "STALL", "BUBBLE"}
  BY DEF pipe_cntl
<1>5. /\ F_stall(d, e, m) \in BOOLEAN /\ LoadUse(d, e) \in BOOLEAN
      /\ D_bubble(d, e, m, Cnd) \in BOOLEAN /\ E_bubble(d, e, Cnd) \in BOOLEAN
      /\ M_bubble(m_stat, w) = (m_stat \in Bad \/ w.status \in Bad)
  BY DEF F_stall, LoadUse, RetInFlight, D_bubble, E_bubble, Mispredicted, M_bubble
<1> DEFINE o == do_stall_check(d, e, m, w, Cnd, m_stat)
<1>6. /\ o.F = pipe_cntl(F_stall(d, e, m), FALSE)
      /\ o.D = pipe_cntl(LoadUse(d, e), D_bubble(d, e, m, Cnd))
      /\ o.E = pipe_cntl(FALSE, E_bubble(d, e, Cnd))
      /\ o.M = pipe_cntl(FALSE, M_bubble(m_stat, w))
      /\ o.W = pipe_cntl(w.status \in Bad, FALSE)
      /\ DOMAIN o = {"F", "D", "E", "M", "W"}
  BY DEF do_stall_check
<1>7. o.F \in {"LOAD", "STALL"} /\ o.W \in {"LOAD", "STALL"}
  <2>1. pipe_cntl(F_stall(d, e, m), FALSE) \in {"LOAD", "STALL"}
    BY DEF pipe_cntl
  <2>2. pipe_cntl(w.status \in Bad, FALSE) \in {"LOAD", "STALL"}
    BY DEF pipe_cntl
  <2> QED
    BY <1>6, <2>1, <2>2
<1>8. o.D \in {"LOAD", "STALL", "BUBBLE"}
  BY <1>1, <1>4, <1>5, <1>6
<1>9. o.E \in {"LOAD", "BUBBLE"} /\ o.M = IF m_stat \in Bad \/ w.status \in Bad THEN "BUBBLE" ELSE "LOAD"
  BY <1>3, <1>5, <1>6
<1> QED
  BY <1>6, <1>7, <1>8, <1>9

LEMMA FetchedHarmless ==
  ASSUME NEW p
  PROVE  Harmless(do_if(p))
BY DEF Harmless, do_if, Fetched, f_stat, imem_error, NopInstr, HaltInstr, KnownCode, Bad, mem_write

LEMMA BubblesHarmless == Harmless(BubD) /\ Harmless(BubE) /\ Harmless(BubM)
BY DEF Harmless, BubD, BubE, BubM, Bad

LEMMA FaultInit == HInit => FaultInv
BY BubblesHarmless
   DEF HInit, Init, FaultInv, Controlled, FaultsActAlone, LoadAll, BubW, Bad

-----------------------------------------------------------------------------

LEMMA FaultNext == FaultInv /\ [HNext]_hvars => FaultInv'
<1> SUFFICES ASSUME FaultInv, [HNext]_hvars
             PROVE  FaultInv'
  OBVIOUS
<1>1. CASE UNCHANGED hvars
  BY <1>1 DEF FaultInv, Harmless, Controlled, FaultsActAlone, mem_write, WordOk, hvars, vars, pipes
<1>2. CASE HNext
  <2>1. update_state(FarFromLimit) /\ update_pipes /\ Stages
    BY <1>2 DEF HNext, Next, Cycle, sim_step_pipe
  <2>2. Harmless(D') /\ Harmless(E') /\ Harmless(M')
    BY <2>1, BubblesHarmless DEF FaultInv, Controlled, update_pipes, Update
  <2>3. Harmless(nextD') /\ Harmless(nextE') /\ Harmless(nextM')
    <3>1. Harmless(nextD')
      BY <2>1, FetchedHarmless DEF Stages
    <3>2. Harmless(nextE')
      BY <2>1, <2>2 DEF Stages, do_id, Harmless, mem_write
    <3>3. Harmless(nextM')
      BY <2>1, <2>2 DEF Stages, do_ex, Harmless, mem_write
    <3> QED
      BY <3>1, <3>2, <3>3
  <2>4. Controlled'
    BY <2>1, ControlOfCycle DEF Stages, Controlled
  <2>5. FaultsActAlone'
    <3> SUFFICES ASSUME nextW'.status \in Bad \/ W'.status \in Bad
                 PROVE  cc_in' = cc' /\ (store'.write => ~WordOk(store'.addr))
      BY DEF FaultsActAlone
    <3>1. cc' = cc_in
      BY <2>1 DEF update_state, FarFromLimit, AheadEx, AheadMem
    <3>2. cc_in' = cc_in
      BY <2>1 DEF Stages, set_cc
    <3>3. CASE nextW'.status \in Bad /\ mem_write(M')
      <4>1. M'.status \notin Bad
        BY <2>2, <3>3 DEF Harmless
      <4>2. ~WordOk(mem_addr(M'))
        BY <2>1, <3>3, <4>1 DEF Stages, do_mem
      <4> QED
        BY <2>1, <3>1, <3>2, <4>2 DEF Stages
    <3>4. CASE W'.status \in Bad
      <4>1. op.M = "BUBBLE"
        BY <2>1, <3>4 DEF FaultInv, Controlled, update_pipes, Update
      <4>2. M' = BubM
        BY <2>1, <4>1 DEF update_pipes, Update
      <4> QED
        BY <2>1, <3>1, <3>2, <4>2 DEF Stages, mem_write, BubM
    <3>5. CASE ~mem_write(M')
      BY <2>1, <3>1, <3>2, <3>5 DEF Stages
    <3> QED
      BY <3>3, <3>4, <3>5
  <2> QED
    BY <2>2, <2>3, <2>4, <2>5 DEF FaultInv
<1> QED
  BY <1>1, <1>2

\* From the cycle in which an instruction is found at fault, no instruction
\* behind it changes memory or condition codes, for any program.
THEOREM FaultsCorrect == HSpec => []FaultsActAlone
<1>1. FaultInv => FaultsActAlone
  BY DEF FaultInv
<1> QED
  BY FaultInit, FaultNext, <1>1, PTL DEF HSpec

-----------------------------------------------------------------------------

LEMMA NoConflictNext == NoConflict /\ [HNext]_hvars => NoConflict'
<1> SUFFICES ASSUME NoConflict, [HNext]_hvars
             PROVE  NoConflict'
  OBVIOUS
<1>1. CASE UNCHANGED hvars
  BY <1>1 DEF NoConflict, hvars, vars, pipes
<1>2. CASE HNext
  <2>1. op' = do_stall_check(D', E', M', W', nextM'.Cnd, nextW'.status)
    BY <1>2 DEF HNext, Next, Cycle, sim_step_pipe, Stages
  <2> QED
    BY <2>1, ControlOfCycle DEF NoConflict
<1> QED
  BY <1>1, <1>2

\* No pipeline register is told to stall and to bubble in one cycle: a load,
\* a mispredicted branch and a ret may meet in every way.
THEOREM NoConflictCorrect == HSpec => []NoConflict
<1>1. HInit => NoConflict
  BY DEF HInit, Init, NoConflict, LoadAll
<1> QED
  BY <1>1, NoConflictNext, PTL DEF HSpec

-----------------------------------------------------------------------------
(***************************************************************************)
(* What the stages compute has its type.                                    *)
(***************************************************************************)
Names == Reg \cup {RNONE}
Statuses == Stat \cup {"BUB"}

TypedD(d) ==
  /\ d.rA \in Names /\ d.rB \in Names /\ d.valC \in Word /\ d.valP \in Int
  /\ d.icode \in {"JXX", "CALL"} => d.valP \in Word
  /\ d.pc \in Int /\ d.status \in Statuses
TypedE(e) ==
  /\ e.valC \in Word /\ e.valA \in Word /\ e.valB \in Word
  /\ e.dstE \in Names /\ e.dstM \in Names /\ e.pc \in Int /\ e.status \in Statuses
TypedM(m) ==
  /\ m.valE \in Word /\ m.valA \in Word
  /\ m.dstE \in Names /\ m.dstM \in Names /\ m.pc \in Int /\ m.status \in Statuses
TypedW(w) ==
  /\ w.valE \in Word /\ w.valM \in Word
  /\ w.dstE \in Names /\ w.dstM \in Names /\ w.pc \in Int /\ w.status \in Statuses

PipeTyped ==
  /\ LegalProgram(code)
  /\ reg \in RegFile /\ mem \in Memory /\ cc \in CC /\ cc_in \in CC /\ status \in Stat
  /\ F.pc \in Int /\ TypedD(D) /\ TypedE(E) /\ TypedM(M) /\ TypedW(W)
  /\ nextF.pc \in Int /\ TypedD(nextD) /\ TypedE(nextE) /\ TypedM(nextM) /\ TypedW(nextW)
  /\ {wb.dstE, wb.dstM} \subseteq Names /\ {wb.valE, wb.valM} \subseteq Word
  /\ store.addr \in Int /\ store.data \in Word

LEMMA BubblesTyped == TypedD(BubD) /\ TypedE(BubE) /\ TypedM(BubM) /\ TypedW(BubW)
BY Sizes DEF TypedD, TypedE, TypedM, TypedW, BubD, BubE, BubM, BubW, Names, Statuses

\* What is fetched at p, whether there is an instruction or not.
LEMMA FetchTyped ==
  ASSUME LegalProgram(code), NEW p \in Int
  PROVE  TypedD(do_if(p)) /\ Predicted(do_if(p)).pc \in Int
<1> DEFINE i == IF imem_error(p) THEN NopInstr ELSE CodeAt(code, p)
           d == Fetched(i, p)
<1>1. /\ i.rA \in Names /\ i.rB \in Names /\ i.valC \in Word
      /\ i.icode \in {"JXX", "CALL"} => NextPc(i.icode, p) \in Word
  <2>1. CASE imem_error(p)
    BY <2>1, Sizes DEF NopInstr, HaltInstr, Names
  <2>2. CASE ~imem_error(p)
    <3>1. WellPlaced(CodeAt(code, p), p)
      BY <2>2, CodeIs DEF imem_error
    <3> QED
      BY <2>2, <3>1 DEF WellPlaced, Instr, Names
  <2> QED
    BY <2>1, <2>2
<1> HIDE DEF i
<1>2. /\ d.icode = i.icode /\ d.rA \in Names /\ d.rB \in Names /\ d.valC \in Word
      /\ d.valP = NextPc(i.icode, p) /\ d.valP \in Int /\ d.pc = p /\ d.status \in Stat
  BY <1>1, Sizes DEF Fetched, NextPc, ValcAt, f_stat, Stat, Names
<1>3. TypedD(d)
  BY <1>1, <1>2 DEF TypedD, Statuses
<1>4. Predicted(d).pc \in Int
  BY <1>2, WordIsInt DEF Predicted
<1> QED
  BY <1>3, <1>4 DEF do_if, i

LEMMA DecodeTyped ==
  ASSUME NEW d, TypedD(d), NEW regs \in RegFile, NEW e, TypedM(e), NEW m, TypedM(m),
         NEW mw, TypedW(mw), NEW w, TypedW(w)
  PROVE  TypedE(do_id(d, regs, e, m, mw, w))
<1>1. \A src \in Names : Forward(src, regs, e, m, mw, w) \in Word
  BY RegsTyped DEF Forward, TypedM, TypedW, Names
<1>2. srcA(d) \in Names /\ srcB(d) \in Names /\ dstE(d) \in Names /\ dstM(d) \in Names
  BY Sizes DEF srcA, srcB, dstE, dstM, TypedD, Names
<1>3. (IF d.icode \in {"CALL", "JXX"} THEN d.valP ELSE Forward(srcA(d), regs, e, m, mw, w)) \in Word
  BY <1>1, <1>2 DEF TypedD
<1> QED
  BY <1>1, <1>2, <1>3 DEF do_id, TypedE, TypedD

LEMMA ExecuteTyped ==
  ASSUME NEW e, TypedE(e), NEW c
  PROVE  /\ TypedM(do_ex(e, c))
         /\ compute_cc(alufun(e), aluA(e), aluB(e)) \in CC
<1>1. aluA(e) \in Word /\ aluB(e) \in Word
  <2>1. WORD \in Word /\ -WORD \in Word /\ 0 \in Word
    BY Sizes DEF Word
  <2> QED
    BY <2>1 DEF aluA, aluB, TypedE
<1>2. compute_alu(alufun(e), aluA(e), aluB(e)) \in Word
  BY <1>1, AluTyped
<1>3. TypedM(do_ex(e, c))
  BY <1>2, Sizes DEF do_ex, TypedM, TypedE, Names
<1>4. \A o, a, b, v : CcOf(o, a, b, v) \in CC
  BY DEF CcOf, CC, Overflow
<1> QED
  BY <1>3, <1>4 DEF compute_cc

LEMMA MemoryTyped ==
  ASSUME NEW m, TypedM(m), NEW memory \in Memory
  PROVE  TypedW(do_mem(m, memory)) /\ mem_addr(m) \in Int
<1>1. mem_addr(m) \in Word
  BY Sizes DEF mem_addr, TypedM
<1>2. mem_addr(m) \in Int
  BY <1>1, WordIsInt
<1>3. (IF mem_read(m) /\ WordOk(mem_addr(m)) THEN memory[mem_addr(m)] ELSE 0) \in Word
  BY <1>2, LoadIs, Sizes
<1> QED
  BY <1>2, <1>3 DEF do_mem, TypedM, TypedW, Statuses, Stat

LEMMA PipeTypedInit == HInit /\ LegalProgram(code) => PipeTyped
<1> SUFFICES ASSUME HInit, LegalProgram(code) PROVE PipeTyped
  OBVIOUS
<1>1. reg \in RegFile /\ mem \in Memory /\ DEFAULT_CC \in CC
  BY Sizes DEF HInit, Init, RegFile, Memory, DEFAULT_CC, CC
<1>2. BubF.pc \in Int
  BY DEF BubF
<1> QED
  BY <1>1, <1>2, BubblesTyped, Sizes DEF HInit, Init, PipeTyped, Names, Stat

LEMMA PipeTypedNext == PipeTyped /\ Controlled /\ [HNext]_hvars => PipeTyped'
<1> SUFFICES ASSUME PipeTyped, Controlled, [HNext]_hvars PROVE PipeTyped'
  OBVIOUS
<1>1. CASE UNCHANGED hvars
  BY <1>1 DEF PipeTyped, TypedD, TypedE, TypedM, TypedW, hvars, vars, pipes
<1>2. CASE HNext
  <2>1. update_state(FarFromLimit) /\ update_pipes /\ Stages /\ code' = code
    BY <1>2 DEF HNext, Next, Cycle, sim_step_pipe
  <2>2. reg' \in RegFile /\ mem' \in Memory /\ cc' \in CC
    <3>1. SetReg(reg, wb.dstE, wb.valE) \in RegFile
      BY RegsTyped DEF PipeTyped, Names
    <3>2. WriteBack(reg) \in RegFile
      BY <3>1, RegsTyped DEF PipeTyped, Names, WriteBack
    <3>3. SetWord(mem, store.addr, store.data) \in Memory
      BY DEF PipeTyped, SetWord, Memory
    <3> QED
      BY <2>1, <3>2, <3>3 DEF update_state, PipeTyped
  <2>3. F'.pc \in Int /\ TypedD(D') /\ TypedE(E') /\ TypedM(M') /\ TypedW(W')
    <3>1. BubF.pc \in Int
      BY DEF BubF
    <3>2. F' \in {F, nextF, BubF}
      BY <2>1 DEF update_pipes, Update, Controlled
    <3>3. D' \in {D, nextD, BubD} /\ E' \in {nextE, BubE} /\ M' \in {nextM, BubM} /\ W' \in {W, nextW}
      BY <2>1 DEF update_pipes, Update, Controlled
    <3> QED
      BY <3>1, <3>2, <3>3, BubblesTyped DEF PipeTyped
  <2>4. TypedD(nextD') /\ nextF'.pc \in Int
    <3>1. f_pc(F', M', W') \in Int
      BY <2>3, WordIsInt DEF f_pc, TypedM, TypedW
    <3>2. nextD' = do_if(f_pc(F', M', W'))
      BY <2>1 DEF Stages
    <3> QED
      BY <2>1, <3>1, FetchTyped DEF Stages, PipeTyped
  <2>5. TypedW(nextW') /\ TypedM(nextM') /\ TypedE(nextE')
    BY <2>1, <2>2, <2>3, MemoryTyped, ExecuteTyped, DecodeTyped DEF Stages
  <2>6. cc_in' \in CC
    BY <2>1, <2>3, ExecuteTyped DEF Stages, PipeTyped
  <2>7. status' \in Stat
    BY <2>1, <2>3 DEF Stages, TypedW, Statuses, Stat
  <2>8. /\ {wb'.dstE, wb'.dstM} \subseteq Names /\ {wb'.valE, wb'.valM} \subseteq Word
        /\ store'.addr \in Int /\ store'.data \in Word
    BY <2>1, <2>2, <2>3, MemoryTyped DEF Stages, TypedW, TypedM
  <2> QED
    BY <2>1, <2>2, <2>3, <2>4, <2>5, <2>6, <2>7, <2>8 DEF PipeTyped
<1> QED
  BY <1>1, <1>2

\* What the stages compute stays within words and registers, for every legal
\* program, also on paths that are not taken.
THEOREM PipeTypeCorrect == HSpec /\ LegalProgram(code) => []TypeOK
<1>1. HInit /\ LegalProgram(code) => PipeTyped /\ FaultInv
  BY PipeTypedInit, FaultInit
<1>2. PipeTyped /\ FaultInv /\ [HNext]_hvars => PipeTyped' /\ FaultInv'
  BY PipeTypedNext, FaultNext DEF FaultInv
<1>3. PipeTyped => TypeOK
  BY DEF PipeTyped, TypeOK, TypedE, TypedM, TypedW, RegFile, Memory, Names
<1> QED
  BY <1>1, <1>2, <1>3, PTL DEF HSpec

-----------------------------------------------------------------------------
(***************************************************************************)
(* One instruction in the stages, and what step_state makes of it.  The       *)
(* pipeline fetches nothing from the last FetchAhead bytes of memory.         *)
(***************************************************************************)
InstrAt(prog, p) == IF imem_error(p) THEN NopInstr ELSE CodeAt(prog, p)

\* What the pipeline does in the state s, and the state after it.
PipeStep(prog, s) ==
  IF imem_error(s.pc) THEN Result(s.pc, s.r, s.m, s.cc, "ADR") ELSE step_state(s, prog)
AfterStep(prog, s) ==
  LET t == PipeStep(prog, s) IN State(t.pc, t.r, t.m, t.cc)
GoesOn(prog, s) == PipeStep(prog, s).stat = "AOK"

\* The operands of the instruction i in the state s.
Operands(i, s) ==
  [icode |-> i.icode, ifun |-> i.ifun, valC |-> i.valC,
   valA |-> GetReg(s.r, srcA(i)), valB |-> GetReg(s.r, srcB(i))]

\* valA, where it is used.
CarriesA(x, i, s) ==
  /\ i.icode \in {"RMMOVQ", "PUSHQ", "POPQ", "RET"} => x.valA = GetReg(s.r, srcA(i))
  /\ i.icode \in {"JXX", "CALL"} => x.valA = NextPc(i.icode, s.pc)

\* e is the instruction that s is about to execute, decoded.
IsDecoded(prog, e, s) ==
  LET i == InstrAt(prog, s.pc)
      y == Operands(i, s)
  IN  /\ e.icode = i.icode /\ e.ifun = i.ifun /\ e.pc = s.pc /\ e.status = f_stat(i, s.pc)
      /\ e.dstE = dstE(i) /\ e.dstM = dstM(i) /\ CarriesA(e, i, s)
      /\ alufun(e) = alufun(y) /\ aluA(e) = aluA(y) /\ aluB(e) = aluB(y)

\* m is that instruction, executed.
IsExecuted(prog, m, s) ==
  LET i == InstrAt(prog, s.pc)
      y == Operands(i, s)
  IN  /\ m.icode = i.icode /\ m.pc = s.pc /\ m.status = f_stat(i, s.pc)
      /\ m.Cnd = cond_holds(s.cc, i.ifun)
      /\ m.valE = compute_alu(alufun(y), aluA(y), aluB(y))
      /\ m.dstE = IF i.icode = "RRMOVQ" /\ ~cond_holds(s.cc, i.ifun) THEN RNONE ELSE dstE(i)
      /\ m.dstM = dstM(i) /\ CarriesA(m, i, s)

\* An instruction in memory lies there as a whole.
LEMMA InstrAtIs ==
  ASSUME NEW prog, LegalProgram(prog), NEW p \in Int, ~imem_error(p)
  PROVE  /\ WellPlaced(InstrAt(prog, p), p) /\ ByteOk(p)
         /\ InstrAt(prog, p) = CodeAt(prog, p)
BY CodeIs DEF InstrAt, imem_error

\* The fields of a fetched instruction.
LEMMA FetchedIs ==
  ASSUME NEW prog, LegalProgram(prog), NEW p \in Int
  PROVE  LET i == InstrAt(prog, p)
             d == Fetched(i, p)
         IN  /\ d.icode = i.icode /\ d.ifun = i.ifun /\ d.pc = p /\ d.status = f_stat(i, p)
             /\ d.valP = NextPc(i.icode, p)
             /\ NeedValC(i.icode) => d.valC = i.valC
             /\ srcA(d) = srcA(i) /\ srcB(d) = srcB(i) /\ dstE(d) = dstE(i) /\ dstM(d) = dstM(i)
<1> DEFINE i == InstrAt(prog, p)
           d == Fetched(i, p)
<1>1. /\ d.icode = i.icode /\ d.ifun = i.ifun /\ d.pc = p /\ d.status = f_stat(i, p)
      /\ d.valP = NextPc(i.icode, p)
  BY DEF Fetched
<1>2. CASE imem_error(p)
  <2>1. i.icode = "NOP"
    BY <1>2 DEF InstrAt, NopInstr, HaltInstr
  <2> HIDE DEF i, d
  <2> QED
    BY <1>1, <2>1 DEF srcA, srcB, dstE, dstM, NeedValC, i, d
<1>3. CASE ~imem_error(p)
  <2>1. WellPlaced(i, p)
    BY <1>3, InstrAtIs
  <2> HIDE DEF i
  <2>2. /\ NeedRegids(i.icode) => Ssim!Fetch(i, p).rA = i.rA /\ Ssim!Fetch(i, p).rB = i.rB
        /\ NeedValC(i.icode) => Ssim!Fetch(i, p).valC = i.valC
    BY <2>1, FetchIs
  <2>3. /\ d.rA = Ssim!Fetch(i, p).rA /\ d.rB = Ssim!Fetch(i, p).rB
        /\ d.valC = Ssim!Fetch(i, p).valC
    BY SsimMemory DEF Fetched, Ssim!Fetch, Ssim!RegidsAt, RegidsAt
  <2> HIDE DEF d
  <2>4. srcA(d) = srcA(i) /\ srcB(d) = srcB(i) /\ dstE(d) = dstE(i) /\ dstM(d) = dstM(i)
    BY <1>1, <2>2, <2>3 DEF srcA, srcB, dstE, dstM, NeedRegids
  <2> QED
    BY <1>1, <2>2, <2>3, <2>4 DEF i, d
<1> QED
  BY <1>2, <1>3

\* The outcome of an instruction that the stages have executed.
Outcome(prog, m, s, w, t) ==
  LET i == InstrAt(prog, s.pc)
      y == Operands(i, s)
  IN  /\ w.status = t.stat /\ t.stat \in Stat
      /\ i.icode \in {"OPQ", "IADDQ", "JXX"} => t.stat = "AOK"
      /\ t.stat = "AOK" =>
           /\ t.r = SetReg(SetReg(s.r, w.dstE, w.valE), w.dstM, w.valM)
           /\ t.m = IF mem_write(m) THEN SetWord(s.m, mem_addr(m), m.valA) ELSE s.m
           /\ t.cc = IF i.icode \in {"OPQ", "IADDQ"}
                     THEN compute_cc(alufun(y), aluA(y), aluB(y)) ELSE s.cc
           /\ i.icode = "RET" => t.pc = w.valM
           /\ i.icode = "CALL" => t.pc = i.valC
           /\ i.icode = "JXX" => t.pc = IF m.Cnd THEN i.valC ELSE m.valA
           /\ i.icode \notin {"RET", "CALL", "JXX"} => t.pc = NextPc(i.icode, s.pc)
      /\ t.stat # "AOK" =>
           /\ t.pc = s.pc /\ t.m = s.m /\ t.cc = s.cc
           /\ ~mem_write(m) \/ ~WordOk(mem_addr(m))
      /\ t.stat \notin {"AOK", "ADR"} => t.r = s.r

LEMMA ExecutedDoes ==
  ASSUME NEW prog, LegalProgram(prog), NEW s, IsState(s), NEW m, IsExecuted(prog, m, s)
  PROVE  Outcome(prog, m, s, do_mem(m, s.m), PipeStep(prog, s))
<1> DEFINE i == InstrAt(prog, s.pc)
           y == Operands(i, s)
           w == do_mem(m, s.m)
           t == PipeStep(prog, s)
<1>1. /\ m.icode = i.icode /\ m.pc = s.pc /\ m.status = f_stat(i, s.pc)
      /\ m.Cnd = cond_holds(s.cc, i.ifun)
      /\ m.valE = compute_alu(alufun(y), aluA(y), aluB(y))
      /\ m.dstE = IF i.icode = "RRMOVQ" /\ ~cond_holds(s.cc, i.ifun) THEN RNONE ELSE dstE(i)
      /\ m.dstM = dstM(i) /\ CarriesA(m, i, s)
  BY DEF IsExecuted
<1>2. /\ w.status = IF (mem_read(m) \/ mem_write(m)) /\ ~WordOk(mem_addr(m)) THEN "ADR" ELSE m.status
      /\ w.valM = IF mem_read(m) /\ WordOk(mem_addr(m)) THEN s.m[mem_addr(m)] ELSE 0
      /\ w.valE = m.valE /\ w.dstE = m.dstE /\ w.dstM = m.dstM
  BY DEF do_mem
<1>3. CASE imem_error(s.pc)
  <2>1. i.icode = "NOP" /\ m.status = "ADR"
    BY <1>1, <1>3 DEF InstrAt, NopInstr, HaltInstr, f_stat
  <2>2. t = Result(s.pc, s.r, s.m, s.cc, "ADR")
    BY <1>3 DEF PipeStep
  <2>3. t.pc = s.pc /\ t.r = s.r /\ t.m = s.m /\ t.cc = s.cc /\ t.stat = "ADR"
    BY <2>2 DEF Result
  <2>4. ~mem_read(m) /\ ~mem_write(m)
    BY <1>1, <2>1 DEF mem_read, mem_write
  <2> HIDE DEF i, y, w, t
  <2>5. Outcome(prog, m, s, w, t)
    BY <1>2, <2>1, <2>3, <2>4 DEF Outcome, Stat, i
  <2> QED
    BY <2>5 DEF w, t
<1>4. CASE ~imem_error(s.pc)
  <2> DEFINE x == Decoded(i, s.pc, s)
             a == Ssim!Access(x)
             v == Ssim!ValM(a, s.m)
  <2>1. WellPlaced(i, s.pc) /\ ByteOk(s.pc) /\ i = CodeAt(prog, s.pc)
    BY <1>4, InstrAtIs DEF IsState
  <2>2. t = StepInstr(s, i)
    BY <1>4, <2>1 DEF PipeStep, step_state
  <2>3. Does(x, s, t)
    BY <2>1, <2>2, DoesAll
  <2>4. /\ x.icode = i.icode /\ x.ifun = i.ifun /\ x.valP = NextPc(i.icode, s.pc)
        /\ NeedValC(i.icode) => x.valC = i.valC
        /\ x.Cnd = cond_holds(s.cc, i.ifun)
        /\ x.valA = GetReg(s.r, srcA(i)) /\ x.valB = GetReg(s.r, srcB(i))
        /\ x.dstE = IF i.icode = "RRMOVQ" /\ ~x.Cnd THEN RNONE ELSE dstE(i)
        /\ x.dstM = dstM(i)
        /\ a.icode = i.icode /\ a.valA = x.valA
        /\ a.valE = compute_alu(alufun(x), aluA(x), aluB(x))
    BY <2>1, DecodedIs
  <2>5. /\ y.icode = i.icode /\ y.ifun = i.ifun /\ y.valC = i.valC
        /\ y.valA = x.valA /\ y.valB = x.valB
    BY <2>4 DEF Operands
  <2> HIDE DEF x, a, y, i, w, t
  <2>6. alufun(y) = alufun(x) /\ aluA(y) = aluA(x) /\ aluB(y) = aluB(x)
    BY <2>4, <2>5 DEF alufun, aluA, aluB, NeedValC
  <2>7. /\ mem_read(a) = mem_read(m) /\ mem_write(a) = mem_write(m)
        /\ mem_addr(a) = mem_addr(m)
        /\ mem_write(m) => Ssim!mem_data(x) = m.valA
    BY <1>1, <2>4, <2>6 DEF mem_read, mem_write, mem_addr, Ssim!mem_data, CarriesA
  <2>8. v = w.valM
    BY <1>2, <2>7, SsimSignals, SsimMemory DEF Ssim!ValM
  <2>9. Ssim!StatOf(x, a, s.pc) = w.status
    BY <1>1, <1>2, <1>4, <2>1, <2>4, <2>7, SsimSignals, SsimMemory
       DEF Ssim!StatOf, Ssim!dmem_error, f_stat
  <2> HIDE DEF v
  <2>10. /\ t.stat = w.status /\ t.stat \in Stat
         /\ t.stat = "AOK" =>
              /\ t.pc = Ssim!new_pc(x, w.valM)
              /\ t.r = SetReg(SetReg(s.r, x.dstE, a.valE), x.dstM, w.valM)
              /\ t.m = IF mem_write(m) THEN SetWord(s.m, mem_addr(m), Ssim!mem_data(x)) ELSE s.m
              /\ t.cc = IF x.icode \in {"OPQ", "IADDQ"}
                        THEN compute_cc(alufun(x), aluA(x), aluB(x)) ELSE s.cc
         /\ t.stat # "AOK" => t.pc = s.pc /\ t.m = s.m /\ t.cc = s.cc
         /\ t.stat \notin {"AOK", "ADR"} => t.r = s.r
    BY <2>3, <2>7, <2>8, <2>9, Zenon DEF Does, a, v
  <2>11. /\ w.dstE = x.dstE /\ w.valE = a.valE /\ w.dstM = x.dstM
    BY <1>1, <1>2, <2>4, <2>6
  <2>12. t.stat = "AOK" =>
           /\ i.icode = "RET" => t.pc = w.valM
           /\ i.icode = "CALL" => t.pc = i.valC
           /\ i.icode = "JXX" => t.pc = IF m.Cnd THEN i.valC ELSE m.valA
           /\ i.icode \notin {"RET", "CALL", "JXX"} => t.pc = NextPc(i.icode, s.pc)
    BY <1>1, <2>4, <2>10 DEF Ssim!new_pc, CarriesA, NeedValC
  <2>13. i.icode \in {"OPQ", "IADDQ", "JXX"} => w.status = "AOK"
    BY <1>1, <1>2, <1>4 DEF mem_read, mem_write, f_stat, KnownCode
  <2>14. w.status # "AOK" => ~mem_write(m) \/ ~WordOk(mem_addr(m))
    BY <1>1, <1>2, <1>4 DEF mem_write, f_stat, KnownCode
  <2>15. Outcome(prog, m, s, w, t)
    BY <2>4, <2>6, <2>7, <2>10, <2>11, <2>12, <2>13, <2>14 DEF Outcome, i, y
  <2> QED
    BY <2>15 DEF w, t
<1> QED
  BY <1>3, <1>4

\* The state after an instruction is a state again.
LEMMA AfterStepTyped ==
  ASSUME NEW prog, LegalProgram(prog), NEW s, IsState(s), GoesOn(prog, s)
  PROVE  IsState(AfterStep(prog, s))
<1> DEFINE t == PipeStep(prog, s)
<1>1. t = step_state(s, prog) /\ t.stat = "AOK"
  BY DEF GoesOn, PipeStep, Result
<1>2. t.pc \in Int /\ t.r \in RegFile /\ t.m \in Memory
  BY <1>1, StepTyped
<1>3. AfterStep(prog, s) = State(t.pc, t.r, t.m, t.cc)
  BY DEF AfterStep
<1> HIDE DEF t
<1> QED
  BY <1>2, <1>3 DEF IsState, State

\* Execute.
LEMMA ExecuteIs ==
  ASSUME NEW prog, NEW s, NEW e, IsDecoded(prog, e, s)
  PROVE  IsExecuted(prog, do_ex(e, cond_holds(s.cc, e.ifun)), s)
<1> DEFINE i == InstrAt(prog, s.pc)
           m == do_ex(e, cond_holds(s.cc, e.ifun))
<1>1. /\ m.icode = e.icode /\ m.Cnd = cond_holds(s.cc, e.ifun)
      /\ m.valE = compute_alu(alufun(e), aluA(e), aluB(e))
      /\ m.valA = e.valA /\ m.dstM = e.dstM /\ m.status = e.status /\ m.pc = e.pc
      /\ m.dstE = IF e.icode = "RRMOVQ" /\ ~cond_holds(s.cc, e.ifun) THEN RNONE ELSE e.dstE
  BY DEF do_ex
<1> HIDE DEF m
<1>2. IsExecuted(prog, m, s)
  BY <1>1 DEF IsDecoded, IsExecuted, CarriesA
<1> QED
  BY <1>2 DEF m

\* What is forwarded for a register is its value after the instructions in
\* execute, memory and write-back, unless the one in execute still loads it.
LEMMA ForwardIs ==
  ASSUME NEW regs \in RegFile, NEW e, TypedM(e), NEW m, TypedM(m), NEW mw, TypedW(mw),
         NEW w, TypedW(w), NEW v \in Word, NEW src \in Reg, e.dstM # src
  PROVE  LET r1 == SetReg(SetReg(regs, w.dstE, w.valE), w.dstM, w.valM)
             r2 == SetReg(SetReg(r1, m.dstE, m.valE), m.dstM, mw.valM)
             r3 == SetReg(SetReg(r2, e.dstE, e.valE), e.dstM, v)
         IN  Forward(src, regs, e, m, mw, w) = r3[src]
<1>1. \A r \in RegFile, id \in Names, x \in Word :
        /\ SetReg(r, id, x) \in RegFile
        /\ SetReg(r, id, x)[src] = IF src = id THEN x ELSE r[src]
  BY Sizes DEF SetReg, RegFile, Names
<1> DEFINE r1 == SetReg(SetReg(regs, w.dstE, w.valE), w.dstM, w.valM)
           r2 == SetReg(SetReg(r1, m.dstE, m.valE), m.dstM, mw.valM)
           r3 == SetReg(SetReg(r2, e.dstE, e.valE), e.dstM, v)
<1>2. /\ r1 \in RegFile
      /\ r1[src] = IF src = w.dstM THEN w.valM ELSE IF src = w.dstE THEN w.valE ELSE regs[src]
  <2> DEFINE q == SetReg(regs, w.dstE, w.valE)
  <2>1. /\ q \in RegFile /\ q[src] = IF src = w.dstE THEN w.valE ELSE regs[src]
        /\ w.dstM \in Names /\ w.valM \in Word
    BY <1>1 DEF TypedW
  <2> HIDE DEF q
  <2>2. /\ SetReg(q, w.dstM, w.valM) \in RegFile
        /\ SetReg(q, w.dstM, w.valM)[src] = IF src = w.dstM THEN w.valM ELSE q[src]
    BY <1>1, <2>1
  <2> QED
    BY <2>1, <2>2 DEF q
<1> HIDE DEF r1
<1>3. /\ r2 \in RegFile
      /\ r2[src] = IF src = m.dstM THEN mw.valM ELSE IF src = m.dstE THEN m.valE ELSE r1[src]
  <2> DEFINE q == SetReg(r1, m.dstE, m.valE)
  <2>1. /\ q \in RegFile /\ q[src] = IF src = m.dstE THEN m.valE ELSE r1[src]
        /\ m.dstM \in Names /\ mw.valM \in Word
    BY <1>1, <1>2 DEF TypedM, TypedW
  <2> HIDE DEF q
  <2>2. /\ SetReg(q, m.dstM, mw.valM) \in RegFile
        /\ SetReg(q, m.dstM, mw.valM)[src] = IF src = m.dstM THEN mw.valM ELSE q[src]
    BY <1>1, <2>1
  <2> QED
    BY <2>1, <2>2 DEF q
<1> HIDE DEF r2
<1>4. r3[src] = IF src = e.dstE THEN e.valE ELSE r2[src]
  <2>1. /\ SetReg(r2, e.dstE, e.valE) \in RegFile
        /\ SetReg(r2, e.dstE, e.valE)[src] = IF src = e.dstE THEN e.valE ELSE r2[src]
    BY <1>1, <1>3 DEF TypedM
  <2> QED
    BY <1>1, <1>3, <2>1 DEF TypedM
<1> HIDE DEF r3
<1>5. GetReg(regs, src) = regs[src]
  BY Sizes DEF GetReg
<1>6. Forward(src, regs, e, m, mw, w) = r3[src]
  BY <1>2, <1>3, <1>4, <1>5 DEF Forward
<1> QED
  BY <1>6 DEF r3, r2, r1

\* Decode, when the registers forwarded are those of s.
LEMMA DecodeIs ==
  ASSUME NEW prog, LegalProgram(prog), SourcesNamed(prog), NEW s, IsState(s),
         NEW d, d = Fetched(InstrAt(prog, s.pc), s.pc),
         NEW regs, NEW e, NEW m, NEW mw, NEW w,
         \A src \in Reg \cap {srcA(d), srcB(d)} : Forward(src, regs, e, m, mw, w) = s.r[src]
  PROVE  IsDecoded(prog, do_id(d, regs, e, m, mw, w), s)
<1> DEFINE i == InstrAt(prog, s.pc)
           x == do_id(d, regs, e, m, mw, w)
           y == Operands(i, s)
<1>1. /\ d.icode = i.icode /\ d.ifun = i.ifun /\ d.pc = s.pc /\ d.status = f_stat(i, s.pc)
      /\ d.valP = NextPc(i.icode, s.pc)
      /\ NeedValC(i.icode) => d.valC = i.valC
      /\ srcA(d) = srcA(i) /\ srcB(d) = srcB(i) /\ dstE(d) = dstE(i) /\ dstM(d) = dstM(i)
  BY FetchedIs DEF IsState
<1>2. /\ x.icode = i.icode /\ x.ifun = i.ifun /\ x.pc = s.pc /\ x.status = f_stat(i, s.pc)
      /\ x.dstE = dstE(i) /\ x.dstM = dstM(i) /\ x.valC = d.valC
      /\ x.valA = IF d.icode \in {"CALL", "JXX"} THEN d.valP
                  ELSE Forward(srcA(d), regs, e, m, mw, w)
      /\ x.valB = Forward(srcB(d), regs, e, m, mw, w)
  BY <1>1 DEF do_id
<1>3. /\ y.icode = i.icode /\ y.ifun = i.ifun /\ y.valC = i.valC
      /\ y.valA = GetReg(s.r, srcA(i)) /\ y.valB = GetReg(s.r, srcB(i))
  BY DEF Operands
<1>4. i.icode \in {"RRMOVQ", "OPQ", "RMMOVQ", "PUSHQ", "POPQ", "RET"} =>
        srcA(i) \in Reg
  <2>1. CASE imem_error(s.pc)
    BY <2>1 DEF InstrAt, NopInstr, HaltInstr
  <2>2. CASE ~imem_error(s.pc)
    <3>1. WellPlaced(i, s.pc) /\ NamesSources(i)
      BY <2>2, InstrAtIs DEF IsState, CodeAt, SourcesNamed, NamesSources, HaltInstr
    <3> HIDE DEF i
    <3> QED
      BY <3>1, InstrIs, Sizes DEF srcA, NamesSources, NamesRegisters
  <2> QED
    BY <2>1, <2>2
<1>5. i.icode \in {"RMMOVQ", "MRMOVQ", "OPQ", "CALL", "PUSHQ", "RET", "POPQ", "IADDQ"} =>
        srcB(i) \in Reg
  <2>1. CASE imem_error(s.pc)
    BY <2>1 DEF InstrAt, NopInstr, HaltInstr
  <2>2. CASE ~imem_error(s.pc)
    <3>1. WellPlaced(i, s.pc) /\ NamesSources(i)
      BY <2>2, InstrAtIs DEF IsState, CodeAt, SourcesNamed, NamesSources, HaltInstr
    <3> HIDE DEF i
    <3> QED
      BY <3>1, InstrIs, Sizes DEF srcB, NamesSources, NamesRegisters
  <2> QED
    BY <2>1, <2>2
<1> HIDE DEF i, x, y
<1>6. \A id \in Reg : GetReg(s.r, id) = s.r[id]
  BY Sizes DEF GetReg
<1>7. /\ i.icode \in {"RRMOVQ", "OPQ", "RMMOVQ", "PUSHQ", "POPQ", "RET"} =>
           x.valA = y.valA
      /\ i.icode \in {"RMMOVQ", "MRMOVQ", "OPQ", "CALL", "PUSHQ", "RET", "POPQ", "IADDQ"} =>
           x.valB = y.valB
  BY <1>1, <1>2, <1>3, <1>4, <1>5, <1>6
<1>8. alufun(x) = alufun(y) /\ aluA(x) = aluA(y) /\ aluB(x) = aluB(y)
  BY <1>1, <1>2, <1>3, <1>7 DEF alufun, aluA, aluB, NeedValC
<1>9. CarriesA(x, i, s)
  BY <1>1, <1>2, <1>3, <1>7 DEF CarriesA
<1>10. IsDecoded(prog, x, s)
  BY <1>2, <1>8, <1>9 DEF IsDecoded, i, y
<1> QED
  BY <1>10 DEF x

\* Prediction is right for all but ret and a branch that is not taken.
LEMMA PredictedIs ==
  ASSUME NEW prog, LegalProgram(prog), NEW s, IsState(s), GoesOn(prog, s),
         LET i == InstrAt(prog, s.pc)
         IN  i.icode # "RET" /\ ~(i.icode = "JXX" /\ ~cond_holds(s.cc, i.ifun))
  PROVE  Predicted(Fetched(InstrAt(prog, s.pc), s.pc)).pc = AfterStep(prog, s).pc
<1> DEFINE i == InstrAt(prog, s.pc)
           t == PipeStep(prog, s)
           d == Fetched(i, s.pc)
           x == Decoded(i, s.pc, s)
<1>1. ~imem_error(s.pc) /\ t.stat = "AOK"
  BY DEF GoesOn, PipeStep, Result
<1>2. WellPlaced(i, s.pc) /\ t = StepInstr(s, i)
  BY <1>1, InstrAtIs DEF IsState, PipeStep, step_state
<1>3. Does(x, s, t)
  BY <1>2, DoesAll
<1>4. /\ x.icode = i.icode /\ x.valP = NextPc(i.icode, s.pc) /\ x.Cnd = cond_holds(s.cc, i.ifun)
      /\ NeedValC(i.icode) => x.valC = i.valC
  BY <1>2, DecodedIs
<1>5. /\ d.icode = i.icode /\ d.valP = NextPc(i.icode, s.pc)
      /\ NeedValC(i.icode) => d.valC = i.valC
  BY FetchedIs DEF IsState
<1>6. AfterStep(prog, s).pc = t.pc
  BY DEF AfterStep, State
<1>7. i.icode # "RET" /\ ~(i.icode = "JXX" /\ ~cond_holds(s.cc, i.ifun))
  OBVIOUS
<1> HIDE DEF x, t, i, d
<1>8. \E v : t.pc = Ssim!new_pc(x, v)
  BY <1>1, <1>3 DEF Does
<1>9. t.pc = IF i.icode \in {"JXX", "CALL"} THEN d.valC ELSE d.valP
  BY <1>4, <1>5, <1>7, <1>8 DEF Ssim!new_pc, NeedValC
<1> QED
  BY <1>5, <1>6, <1>9 DEF Predicted, d, i

-----------------------------------------------------------------------------
(***************************************************************************)
(* The instructions in flight.  Done is the state after the instruction in    *)
(* write-back.  As long as no instruction stops the program and no branch is   *)
(* mispredicted, those in memory, execute and decode are the next ones in the   *)
(* order of the program, and the next one fetched comes after them.            *)
(***************************************************************************)
Then(prog, x, s) == IF x.status = "BUB" THEN s ELSE AfterStep(prog, s)
Survives(prog, x, s) == x.status = "BUB" \/ GoesOn(prog, s)
NotTaken(x, conds) == x.icode = "JXX" /\ ~cond_holds(conds, x.ifun)

Done == State(OldestPc, WriteBack(reg), mem, ccW)
AfterM == Then(code, M, Done)
AfterE == Then(code, E, AfterM)
AfterD == Then(code, D, AfterE)

GoodM == Survives(code, M, Done)
GoodE == GoodM /\ Survives(code, E, AfterM)
PathE == GoodE /\ ~NotTaken(E, cc)
GoodD == PathE /\ Survives(code, D, AfterE)
PathD == GoodD /\ ~NotTaken(D, AfterE.cc)

InOrder ==
  /\ M.status # "BUB" => IsExecuted(code, M, Done)
  /\ cc = AfterM.cc
  /\ GoodM /\ E.status # "BUB" => IsDecoded(code, E, AfterM)
  /\ PathE /\ D.status # "BUB" => D = Fetched(InstrAt(code, AfterE.pc), AfterE.pc)
  /\ PathD /\ ~RetInFlight(D, E, M) => f_pc(F, M, W) = AfterD.pc

\* Bubbles do nothing, and follow a ret and a branch that was not taken.
Bubbles ==
  /\ D.status = "BUB" => D.icode = "NOP"
  /\ E.status = "BUB" => E.icode = "NOP" /\ E.dstE = RNONE /\ E.dstM = RNONE
  /\ M.status = "BUB" => M.icode = "NOP" /\ M.dstE = RNONE /\ M.dstM = RNONE
  /\ W.icode = "RET" => M.status = "BUB" /\ E.status = "BUB" /\ D.status = "BUB"
  /\ M.icode = "RET" => E.status = "BUB" /\ D.status = "BUB"
  /\ E.icode = "RET" => D.status = "BUB"
  /\ M.icode = "JXX" /\ ~M.Cnd => E.status = "BUB" /\ D.status = "BUB"

\* What the next edge loads comes from what the last edge loaded.  Nothing is
\* fetched before the first edge.
Computed ==
  /\ nextW = do_mem(M, mem)
  /\ nextM = do_ex(E, cond_holds(cc, E.ifun))
  /\ nextE = do_id(D, reg, nextM, M, nextW, W)
  /\ \/ nextD = do_if(f_pc(F, M, W)) /\ nextF = Predicted(nextD)
     \/ nextD = BubD /\ nextF.pc = f_pc(F, M, W) /\ D.status = "BUB"
  /\ store = [write |-> mem_write(M), addr |-> mem_addr(M), data |-> M.valA]
  /\ wb = [dstE |-> W.dstE, valE |-> W.valE, dstM |-> W.dstM, valM |-> W.valM]
  /\ op = do_stall_check(D, E, M, W, nextM.Cnd, nextW.status)
  /\ status = IF W.status = "BUB" THEN "AOK" ELSE W.status
  /\ cc_in = IF set_cc(E, nextW.status, W)
             THEN compute_cc(alufun(E), aluA(E), aluB(E)) ELSE cc

PipeInv ==
  /\ PipeTyped /\ FaultInv /\ SourcesNamed(code)
  /\ Computed
  /\ Running => Bubbles /\ InOrder

\* One clock edge.
LEMMA EdgeIs ==
  ASSUME Computed, Running, HNext
  PROVE  /\ W.status \in {"AOK", "BUB"}
         /\ W' = nextW
         /\ M' = IF nextW.status \in Bad THEN BubM ELSE nextM
         /\ E' = IF E_bubble(D, E, nextM.Cnd) THEN BubE ELSE nextE
         /\ D' = IF LoadUse(D, E) THEN D
                 ELSE IF D_bubble(D, E, M, nextM.Cnd) THEN BubD ELSE nextD
         /\ F' = IF F_stall(D, E, M) THEN F ELSE nextF
         /\ reg' = WriteBack(reg)
         /\ mem' = IF mem_write(M) THEN SetWord(mem, mem_addr(M), M.valA) ELSE mem
         /\ cc' = cc_in /\ ccW' = cc /\ code' = code
         /\ WriteBack(reg) = SetReg(SetReg(reg, W.dstE, W.valE), W.dstM, W.valM)
         /\ Stages
<1>1. update_state(FarFromLimit) /\ update_pipes /\ Stages /\ code' = code /\ ccW' = cc
  BY DEF HNext, Next, Cycle, sim_step_pipe
<1>2. W.status \in {"AOK", "BUB"}
  BY DEF Computed, Running
<1>3. op = do_stall_check(D, E, M, W, nextM.Cnd, nextW.status)
  BY DEF Computed
<1>4. /\ op.F = pipe_cntl(F_stall(D, E, M), FALSE)
      /\ op.D = pipe_cntl(LoadUse(D, E), D_bubble(D, E, M, nextM.Cnd))
      /\ op.E = pipe_cntl(FALSE, E_bubble(D, E, nextM.Cnd))
      /\ op.M = pipe_cntl(FALSE, M_bubble(nextW.status, W))
      /\ op.W = pipe_cntl(W.status \in Bad, FALSE)
  BY <1>3 DEF do_stall_check
<1>5. /\ op.F = IF F_stall(D, E, M) THEN "STALL" ELSE "LOAD"
      /\ op.E = IF E_bubble(D, E, nextM.Cnd) THEN "BUBBLE" ELSE "LOAD"
      /\ op.W = "LOAD"
  BY <1>2, <1>4 DEF pipe_cntl, Bad
<1>6. op.M = IF nextW.status \in Bad THEN "BUBBLE" ELSE "LOAD"
  BY <1>2, <1>4 DEF pipe_cntl, Bad, M_bubble
<1>7. op.D = IF LoadUse(D, E) THEN "STALL"
             ELSE IF D_bubble(D, E, M, nextM.Cnd) THEN "BUBBLE" ELSE "LOAD"
  <2>1. ~(LoadUse(D, E) /\ D_bubble(D, E, M, nextM.Cnd))
    BY DEF LoadUse, D_bubble, Mispredicted
  <2> QED
    BY <1>4, <2>1 DEF pipe_cntl
<1>8. /\ W' = nextW
      /\ M' = IF nextW.status \in Bad THEN BubM ELSE nextM
      /\ E' = IF E_bubble(D, E, nextM.Cnd) THEN BubE ELSE nextE
      /\ F' = IF F_stall(D, E, M) THEN F ELSE nextF
  BY <1>1, <1>5, <1>6 DEF update_pipes, Update
<1>9. D' = IF LoadUse(D, E) THEN D
           ELSE IF D_bubble(D, E, M, nextM.Cnd) THEN BubD ELSE nextD
  BY <1>1, <1>7 DEF update_pipes, Update
<1>10. /\ reg' = WriteBack(reg) /\ cc' = cc_in
       /\ mem' = IF store.write THEN SetWord(mem, store.addr, store.data) ELSE mem
  BY <1>1 DEF update_state, FarFromLimit, AheadMem, AheadEx
<1>11. /\ store.write = mem_write(M) /\ store.addr = mem_addr(M) /\ store.data = M.valA
       /\ wb.dstE = W.dstE /\ wb.valE = W.valE /\ wb.dstM = W.dstM /\ wb.valM = W.valM
  BY DEF Computed
<1>12. WriteBack(reg) = SetReg(SetReg(reg, W.dstE, W.valE), W.dstM, W.valM)
  BY <1>11 DEF WriteBack
<1> QED
  BY <1>1, <1>2, <1>8, <1>9, <1>10, <1>11, <1>12

LEMMA ComputedNext == Computed /\ HNext => Computed'
<1> SUFFICES ASSUME Computed, HNext PROVE Computed'
  OBVIOUS
<1>1. Running
  BY DEF HNext, Next, Cycle
<1>2. Stages /\ cc' = cc_in /\ code' = code
  BY <1>1, EdgeIs
<1>3. (do_if(f_pc(F, M, W)))' = do_if(f_pc(F', M', W'))
  BY <1>2 DEF do_if
<1>4. nextD' = (do_if(f_pc(F, M, W)))' /\ nextF' = Predicted(nextD')
  BY <1>2, <1>3 DEF Stages
<1> QED
  BY <1>2, <1>4 DEF Computed, Stages

LEMMA ComputedInit == HInit => Computed
<1> SUFFICES ASSUME HInit PROVE Computed
  OBVIOUS
<1>1. compute_alu("ADD", 0, 0) = 0
  BY AddIs, WrapIs, Sizes
<1>2. do_mem(BubM, mem) = BubW
  BY DEF do_mem, BubM, BubW, mem_read, mem_write
<1>3. ~cond_holds(DEFAULT_CC, "NONE")
  BY DEF cond_holds
<1>4. do_ex(BubE, FALSE) = BubM
  BY <1>1 DEF do_ex, BubE, BubM, alufun, aluA, aluB
<1>5. do_id(BubD, reg, BubM, BubM, BubW, BubW) = BubE
  BY DEF do_id, BubD, BubM, BubW, BubE, Forward, srcA, srcB, dstE, dstM
<1>6. do_stall_check(BubD, BubE, BubM, BubW, FALSE, "BUB") = LoadAll
  BY DEF do_stall_check, BubD, BubE, BubM, BubW, LoadAll, F_stall, LoadUse, RetInFlight, D_bubble,
         Mispredicted, E_bubble, M_bubble, Bad, pipe_cntl
<1>7. f_pc(BubF, BubM, BubW) = 0
  BY DEF f_pc, BubF, BubM, BubW
<1>8. /\ [write |-> mem_write(BubM), addr |-> mem_addr(BubM), data |-> BubM.valA]
           = [write |-> FALSE, addr |-> 0, data |-> 0]
      /\ [dstE |-> BubW.dstE, valE |-> BubW.valE, dstM |-> BubW.dstM, valM |-> BubW.valM]
           = [dstE |-> RNONE, valE |-> 0, dstM |-> RNONE, valM |-> 0]
  <2>1. mem_write(BubM) = FALSE /\ mem_addr(BubM) = 0 /\ BubM.valA = 0
    BY DEF mem_write, mem_addr, BubM
  <2>2. BubW.dstE = RNONE /\ BubW.valE = 0 /\ BubW.dstM = RNONE /\ BubW.valM = 0
    BY DEF BubW
  <2> QED
    BY <2>1, <2>2
<1>9. /\ BubE.ifun = "NONE" /\ BubM.Cnd = FALSE /\ BubW.status = "BUB" /\ BubF.pc = 0
      /\ BubE.icode = "NOP" /\ BubD.status = "BUB"
  BY DEF BubE, BubM, BubW, BubF, BubD
<1>10. ~set_cc(BubE, "BUB", BubW)
  BY <1>9 DEF set_cc
<1>11. /\ F = BubF /\ D = BubD /\ E = BubE /\ M = BubM /\ W = BubW
       /\ nextF = BubF /\ nextD = BubD /\ nextE = BubE /\ nextM = BubM /\ nextW = BubW
       /\ op = LoadAll /\ cc = DEFAULT_CC /\ cc_in = DEFAULT_CC /\ status = "AOK"
       /\ wb = [dstE |-> RNONE, valE |-> 0, dstM |-> RNONE, valM |-> 0]
       /\ store = [write |-> FALSE, addr |-> 0, data |-> 0]
  BY DEF HInit, Init
<1>12. cond_holds(cc, E.ifun) = FALSE
  BY <1>3, <1>9, <1>11
<1> QED
  BY <1>2, <1>4, <1>5, <1>6, <1>7, <1>8, <1>9, <1>10, <1>11, <1>12 DEF Computed

\* Between the instructions in flight the program is in a state.
LEMMA StatesTyped ==
  ASSUME PipeInv
  PROVE  /\ IsState(Done)
         /\ GoodM => IsState(AfterM)
         /\ GoodE => IsState(AfterE)
         /\ GoodD => IsState(AfterD)
<1>1. OldestPc \in Int
  BY WordIsInt DEF PipeInv, PipeTyped, OldestPc, f_pc, TypedD, TypedE, TypedM, TypedW
<1>2. WriteBack(reg) \in RegFile
  <2>1. SetReg(reg, wb.dstE, wb.valE) \in RegFile
    BY RegsTyped DEF PipeInv, PipeTyped, Names
  <2> QED
    BY <2>1, RegsTyped DEF PipeInv, PipeTyped, Names, WriteBack
<1>3. IsState(Done)
  BY <1>1, <1>2 DEF Done, State, IsState, PipeInv, PipeTyped
<1>4. LegalProgram(code)
  BY DEF PipeInv, PipeTyped
<1>5. \A x, s : IsState(s) /\ Survives(code, x, s) => IsState(Then(code, x, s))
  BY <1>4, AfterStepTyped DEF Survives, Then
<1>6. GoodM => IsState(AfterM)
  BY <1>3, <1>5 DEF GoodM, AfterM
<1>7. GoodE => IsState(AfterE)
  BY <1>5, <1>6 DEF GoodE, AfterE
<1>8. GoodD => IsState(AfterD)
  BY <1>5, <1>7 DEF GoodD, AfterD, PathE
<1> QED
  BY <1>3, <1>6, <1>7, <1>8

\* What an instruction in flight, executed in the state s, makes of s, and
\* that a bubble leaves it alone.
LEMMA ThenIs ==
  ASSUME NEW prog, LegalProgram(prog), NEW s, IsState(s), NEW m,
         m.status = "BUB" => m.icode = "NOP" /\ m.dstE = RNONE /\ m.dstM = RNONE,
         m.status # "BUB" => IsExecuted(prog, m, s),
         Survives(prog, m, s)
  PROVE  LET w == do_mem(m, s.m)
             t == Then(prog, m, s)
         IN  /\ t.r = SetReg(SetReg(s.r, w.dstE, w.valE), w.dstM, w.valM)
             /\ t.m = IF mem_write(m) THEN SetWord(s.m, mem_addr(m), m.valA) ELSE s.m
             /\ w.status \notin Bad
<1> DEFINE w == do_mem(m, s.m)
           t == Then(prog, m, s)
<1>1. w.dstE = m.dstE /\ w.dstM = m.dstM
  BY DEF do_mem
<1>2. CASE m.status = "BUB"
  <2>1. ~mem_read(m) /\ ~mem_write(m) /\ t = s
    BY <1>2 DEF mem_read, mem_write, Then
  <2>2. w.status = "BUB"
    BY <1>2, <2>1 DEF do_mem
  <2> HIDE DEF w, t
  <2>3. SetReg(SetReg(s.r, w.dstE, w.valE), w.dstM, w.valM) = s.r
    BY <1>1, <1>2, NoneIs
  <2> QED
    BY <2>1, <2>2, <2>3 DEF Bad, w, t
<1>3. CASE m.status # "BUB"
  <2> DEFINE u == PipeStep(prog, s)
  <2>1. Outcome(prog, m, s, w, u)
    BY <1>3, ExecutedDoes
  <2>2. u.stat = "AOK"
    BY <1>3 DEF Survives, GoesOn
  <2>3. t.r = u.r /\ t.m = u.m
    BY <1>3 DEF Then, AfterStep, State
  <2> HIDE DEF w, t, u
  <2>4. /\ w.status = "AOK"
        /\ u.r = SetReg(SetReg(s.r, w.dstE, w.valE), w.dstM, w.valM)
        /\ u.m = IF mem_write(m) THEN SetWord(s.m, mem_addr(m), m.valA) ELSE s.m
    BY <2>1, <2>2 DEF Outcome
  <2> QED
    BY <2>3, <2>4 DEF Bad, w, t
<1> QED
  BY <1>2, <1>3

\* The memory stage finds out whether the instruction in it goes on.
LEMMA MemoryIs ==
  ASSUME PipeInv, Running
  PROVE  /\ M.status = "BUB" => nextW.status = "BUB"
         /\ M.status # "BUB" => Outcome(code, M, Done, nextW, PipeStep(code, Done))
         /\ GoodM <=> nextW.status \notin Bad
         /\ GoodM =>
              /\ AfterM.r = SetReg(SetReg(Done.r, M.dstE, M.valE), M.dstM, nextW.valM)
              /\ AfterM.m = IF mem_write(M) THEN SetWord(mem, mem_addr(M), M.valA) ELSE mem
         /\ nextW.dstE = M.dstE /\ nextW.valE = M.valE /\ nextW.dstM = M.dstM
         /\ nextW.icode = M.icode /\ nextW.pc = M.pc
<1>1. /\ nextW = do_mem(M, mem) /\ Done.m = mem /\ IsState(Done) /\ LegalProgram(code)
      /\ M.status = "BUB" => M.icode = "NOP" /\ M.dstE = RNONE /\ M.dstM = RNONE
      /\ M.status # "BUB" => IsExecuted(code, M, Done)
  BY StatesTyped DEF PipeInv, PipeTyped, Computed, Bubbles, InOrder, Done, State
<1>2. M.status = "BUB" => nextW.status = "BUB"
  BY <1>1 DEF do_mem, mem_read, mem_write
<1>3. M.status # "BUB" => Outcome(code, M, Done, nextW, PipeStep(code, Done))
  BY <1>1, ExecutedDoes
<1>4. GoodM =>
        /\ nextW.status \notin Bad
        /\ AfterM.r = SetReg(SetReg(Done.r, nextW.dstE, nextW.valE), nextW.dstM, nextW.valM)
        /\ AfterM.m = IF mem_write(M) THEN SetWord(mem, mem_addr(M), M.valA) ELSE mem
  BY <1>1, ThenIs DEF GoodM, AfterM
<1>5. nextW.status \notin Bad => GoodM
  BY <1>3 DEF GoodM, Survives, GoesOn, Outcome, Bad, Stat
<1>6. /\ nextW.dstE = M.dstE /\ nextW.valE = M.valE /\ nextW.dstM = M.dstM
      /\ nextW.icode = M.icode /\ nextW.pc = M.pc
  BY <1>1 DEF do_mem
<1> QED
  BY <1>2, <1>3, <1>4, <1>5, <1>6

\* The execute stage.
LEMMA ExecuteStageIs ==
  ASSUME PipeInv, Running, GoodM
  PROVE  /\ nextM.status = E.status /\ nextM.icode = E.icode /\ nextM.pc = E.pc
         /\ nextM.dstM = E.dstM /\ nextM.valA = E.valA
         /\ nextM.Cnd = cond_holds(cc, E.ifun)
         /\ E.status = "BUB" => nextM.dstE = RNONE
         /\ E.status # "BUB" => IsExecuted(code, nextM, AfterM)
         /\ cc_in = AfterE.cc
         /\ GoodE => AfterE.r = SetReg(SetReg(AfterM.r, nextM.dstE, nextM.valE),
                                       nextM.dstM, do_mem(nextM, AfterM.m).valM)
<1>1. /\ nextM = do_ex(E, cond_holds(cc, E.ifun)) /\ cc = AfterM.cc
      /\ IsState(AfterM) /\ LegalProgram(code)
      /\ E.status = "BUB" => E.icode = "NOP" /\ E.dstE = RNONE /\ E.dstM = RNONE
      /\ E.status # "BUB" => IsDecoded(code, E, AfterM)
  BY StatesTyped DEF PipeInv, PipeTyped, Computed, Bubbles, InOrder
<1>2. /\ nextM.status = E.status /\ nextM.icode = E.icode /\ nextM.pc = E.pc
      /\ nextM.dstM = E.dstM /\ nextM.valA = E.valA
      /\ nextM.Cnd = cond_holds(cc, E.ifun)
      /\ E.status = "BUB" => nextM.dstE = RNONE
  BY <1>1 DEF do_ex
<1>3. E.status # "BUB" => IsExecuted(code, nextM, AfterM)
  BY <1>1, ExecuteIs
<1>4. GoodE => AfterE.r = SetReg(SetReg(AfterM.r, nextM.dstE, nextM.valE),
                                 nextM.dstM, do_mem(nextM, AfterM.m).valM)
  <2> SUFFICES ASSUME GoodE
               PROVE  AfterE.r = SetReg(SetReg(AfterM.r, nextM.dstE, nextM.valE),
                                        nextM.dstM, do_mem(nextM, AfterM.m).valM)
    OBVIOUS
  <2>1. Survives(code, nextM, AfterM)
    BY <1>2 DEF GoodE, Survives
  <2>2. Then(code, nextM, AfterM) = AfterE
    BY <1>2 DEF Then, AfterE
  <2> DEFINE w == do_mem(nextM, AfterM.m)
  <2>3. w.dstE = nextM.dstE /\ w.valE = nextM.valE /\ w.dstM = nextM.dstM
    BY DEF do_mem
  <2>4. Then(code, nextM, AfterM).r
          = SetReg(SetReg(AfterM.r, w.dstE, w.valE), w.dstM, w.valM)
    BY <1>1, <1>2, <1>3, <2>1, ThenIs
  <2> HIDE DEF w
  <2> QED
    BY <2>2, <2>3, <2>4 DEF w
<1>5. cc_in = AfterE.cc
  <2>1. cc_in = IF E.icode \in {"OPQ", "IADDQ"} THEN compute_cc(alufun(E), aluA(E), aluB(E)) ELSE cc
    <3>1. nextW.status \notin Bad /\ W.status \notin Bad
      BY MemoryIs DEF PipeInv, Computed, Running, Bad
    <3> QED
      BY <3>1 DEF PipeInv, Computed, set_cc
  <2>2. CASE E.status = "BUB"
    BY <1>1, <2>1, <2>2 DEF AfterE, Then
  <2>3. CASE E.status # "BUB"
    <3> DEFINE u == PipeStep(code, AfterM)
               y == Operands(InstrAt(code, AfterM.pc), AfterM)
    <3>1. Outcome(code, nextM, AfterM, do_mem(nextM, AfterM.m), u)
      BY <1>1, <1>3, <2>3, ExecutedDoes
    <3>2. AfterE.cc = u.cc
      BY <2>3 DEF AfterE, Then, AfterStep, State
    <3>3. /\ E.icode = InstrAt(code, AfterM.pc).icode
          /\ alufun(E) = alufun(y) /\ aluA(E) = aluA(y) /\ aluB(E) = aluB(y)
      BY <1>1, <2>3 DEF IsDecoded
    <3> HIDE DEF u
    <3>4. u.cc = IF E.icode \in {"OPQ", "IADDQ"}
                 THEN compute_cc(alufun(y), aluA(y), aluB(y)) ELSE AfterM.cc
      BY <3>1, <3>3 DEF Outcome
    <3> HIDE DEF y
    <3> QED
      BY <1>1, <2>1, <3>2, <3>3, <3>4
  <2> QED
    BY <2>2, <2>3
<1> QED
  BY <1>2, <1>3, <1>4, <1>5

\* The decode stage.
LEMMA DecodeStageIs ==
  ASSUME PipeInv, Running, PathE
  PROVE  /\ nextE.status = D.status /\ nextE.icode = D.icode /\ nextE.ifun = D.ifun
         /\ nextE.pc = D.pc
         /\ D.status = "BUB" => nextE.dstE = RNONE /\ nextE.dstM = RNONE
         /\ D.status # "BUB" /\ ~LoadUse(D, E) => IsDecoded(code, nextE, AfterE)
<1>1. /\ nextE = do_id(D, reg, nextM, M, nextW, W) /\ GoodE /\ GoodM
      /\ D.status = "BUB" => D.icode = "NOP"
      /\ D.status # "BUB" => D = Fetched(InstrAt(code, AfterE.pc), AfterE.pc)
  BY DEF PipeInv, Computed, Bubbles, InOrder, PathE, GoodE
<1>2. /\ nextE.status = D.status /\ nextE.icode = D.icode /\ nextE.ifun = D.ifun
      /\ nextE.pc = D.pc
      /\ D.status = "BUB" => nextE.dstE = RNONE /\ nextE.dstM = RNONE
  BY <1>1 DEF do_id, dstE, dstM
<1>3. ASSUME NEW src \in Reg, E.dstM # src
      PROVE  Forward(src, reg, nextM, M, nextW, W) = AfterE.r[src]
  <2> DEFINE v == do_mem(nextM, AfterM.m).valM
  <2>1. AfterE.r = SetReg(SetReg(AfterM.r, nextM.dstE, nextM.valE), nextM.dstM, v)
    BY <1>1, ExecuteStageIs
  <2>2. AfterM.r = SetReg(SetReg(Done.r, M.dstE, M.valE), M.dstM, nextW.valM)
    BY <1>1, MemoryIs
  <2>3. Done.r = SetReg(SetReg(reg, W.dstE, W.valE), W.dstM, W.valM)
    BY DEF Done, State, WriteBack, PipeInv, Computed
  <2>4. /\ TypedM(nextM) /\ TypedM(M) /\ TypedW(nextW) /\ TypedW(W) /\ reg \in RegFile
    BY DEF PipeInv, PipeTyped
  <2>5. v \in Word
    BY <1>1, <2>4, MemoryTyped, StatesTyped DEF IsState, TypedW
  <2>6. nextM.dstM # src
    BY <1>1, <1>3, ExecuteStageIs
  <2> HIDE DEF v
  <2> QED
    BY <2>1, <2>2, <2>3, <2>4, <2>5, <2>6, ForwardIs
<1>4. ASSUME D.status # "BUB", ~LoadUse(D, E)
      PROVE  IsDecoded(code, nextE, AfterE)
  <2>1. \A src \in Reg \cap {srcA(D), srcB(D)} : E.dstM # src
    <3>1. E.icode \notin {"MRMOVQ", "POPQ"} => E.dstM = RNONE
      <4>1. CASE E.status = "BUB"
        BY <4>1 DEF PipeInv, Bubbles
      <4>2. CASE E.status # "BUB"
        BY <1>1, <4>2 DEF PipeInv, InOrder, IsDecoded, dstM
      <4> QED
        BY <4>1, <4>2
    <3> QED
      BY <1>4, <3>1, Sizes DEF LoadUse
  <2>2. \A src \in Reg \cap {srcA(D), srcB(D)} :
          Forward(src, reg, nextM, M, nextW, W) = AfterE.r[src]
    BY <1>3, <2>1
  <2>3. IsState(AfterE) /\ LegalProgram(code) /\ SourcesNamed(code)
    BY <1>1, StatesTyped DEF PipeInv, PipeTyped
  <2> QED
    BY <1>1, <1>4, <2>2, <2>3, DecodeIs
<1> QED
  BY <1>2, <1>4

\* An edge after which the processor still runs.
LEMMA RunningEdge ==
  ASSUME PipeInv, HNext, Running'
  PROVE  /\ Running /\ GoodM /\ nextW.status \notin Bad
         /\ W' = nextW /\ M' = nextM /\ code' = code
         /\ cc' = AfterE.cc /\ ccW' = cc
         /\ E' = IF E_bubble(D, E, nextM.Cnd) THEN BubE ELSE nextE
         /\ D' = IF LoadUse(D, E) THEN D
                 ELSE IF D_bubble(D, E, M, nextM.Cnd) THEN BubD ELSE nextD
         /\ F' = IF F_stall(D, E, M) THEN F ELSE nextF
         /\ Mispredicted(E, nextM.Cnd) <=> NotTaken(E, cc)
         /\ nextE.status = D.status /\ nextE.icode = D.icode /\ nextE.pc = D.pc
         /\ nextE.ifun = D.ifun
         /\ D.status = "BUB" => nextE.dstE = RNONE /\ nextE.dstM = RNONE
<1>1. Running
  BY DEF HNext, Next, Cycle
<1>2. Computed /\ Bubbles
  BY <1>1 DEF PipeInv
<1>3. status' = IF W'.status = "BUB" THEN "AOK" ELSE W'.status
  BY <1>1, <1>2, EdgeIs DEF Stages
<1>4. nextW.status \notin Bad
  BY <1>1, <1>2, <1>3, EdgeIs DEF Running, Bad
<1>5. GoodM
  BY <1>1, <1>4, MemoryIs
<1>6. cc' = AfterE.cc
  BY <1>1, <1>2, <1>5, EdgeIs, ExecuteStageIs
<1>7. Mispredicted(E, nextM.Cnd) <=> NotTaken(E, cc)
  BY <1>1, <1>5, ExecuteStageIs DEF Mispredicted, NotTaken
<1>8. /\ nextE.status = D.status /\ nextE.icode = D.icode /\ nextE.pc = D.pc
      /\ nextE.ifun = D.ifun
      /\ D.status = "BUB" => nextE.dstE = RNONE /\ nextE.dstM = RNONE
  BY <1>2 DEF Computed, Bubbles, do_id, dstE, dstM
<1> QED
  BY <1>1, <1>2, <1>4, <1>5, <1>6, <1>7, <1>8, EdgeIs

\* A fetched instruction is no bubble.
LEMMA FetchedNoBubble ==
  ASSUME NEW p
  PROVE  do_if(p) = Fetched(InstrAt(code, p), p) /\ do_if(p).status # "BUB" /\ do_if(p).pc = p
BY DEF do_if, InstrAt, Fetched, f_stat

LEMMA BubblesNext ==
  ASSUME PipeInv, HNext, Running'
  PROVE  Bubbles'
<1>1. Bubbles /\ Running
  BY RunningEdge DEF PipeInv
<1>2. /\ BubD.status = "BUB" /\ BubD.icode = "NOP"
      /\ BubE.status = "BUB" /\ BubE.icode = "NOP" /\ BubE.dstE = RNONE /\ BubE.dstM = RNONE
  BY DEF BubD, BubE
<1>3. D'.status = "BUB" => D'.icode = "NOP"
  <2>1. nextD.status = "BUB" => nextD.icode = "NOP"
    BY <1>2, FetchedNoBubble DEF PipeInv, Computed
  <2> QED
    BY <1>1, <1>2, <2>1, RunningEdge DEF Bubbles
<1>4. E'.status = "BUB" => E'.icode = "NOP" /\ E'.dstE = RNONE /\ E'.dstM = RNONE
  BY <1>1, <1>2, RunningEdge DEF Bubbles
<1>5. M'.status = "BUB" => M'.icode = "NOP" /\ M'.dstE = RNONE /\ M'.dstM = RNONE
  BY <1>1, RunningEdge, ExecuteStageIs DEF Bubbles
<1>6. W'.icode = "RET" => M'.status = "BUB" /\ E'.status = "BUB" /\ D'.status = "BUB"
  <2> SUFFICES ASSUME W'.icode = "RET"
               PROVE  M'.status = "BUB" /\ E'.status = "BUB" /\ D'.status = "BUB"
    OBVIOUS
  <2>1. M.icode = "RET"
    BY <1>1, RunningEdge, MemoryIs
  <2>2. E.status = "BUB" /\ D.status = "BUB" /\ E.icode = "NOP"
    BY <1>1, <2>1 DEF Bubbles
  <2>3. ~LoadUse(D, E) /\ D_bubble(D, E, M, nextM.Cnd)
    BY <2>1, <2>2 DEF LoadUse, D_bubble, RetInFlight
  <2> QED
    BY <1>1, <1>2, <2>2, <2>3, RunningEdge, ExecuteStageIs
<1>7. M'.icode = "RET" => E'.status = "BUB" /\ D'.status = "BUB"
  <2> SUFFICES ASSUME M'.icode = "RET"
               PROVE  E'.status = "BUB" /\ D'.status = "BUB"
    OBVIOUS
  <2>1. E.icode = "RET"
    BY <1>1, RunningEdge, ExecuteStageIs
  <2>2. D.status = "BUB"
    BY <1>1, <2>1 DEF Bubbles
  <2>3. ~LoadUse(D, E) /\ D_bubble(D, E, M, nextM.Cnd)
    BY <2>1 DEF LoadUse, D_bubble, RetInFlight
  <2> QED
    BY <1>2, <2>2, <2>3, RunningEdge
<1>8. E'.icode = "RET" => D'.status = "BUB"
  <2> SUFFICES ASSUME E'.icode = "RET" PROVE D'.status = "BUB"
    OBVIOUS
  <2>1. D.icode = "RET" /\ ~E_bubble(D, E, nextM.Cnd)
    BY <1>2, RunningEdge
  <2>2. ~LoadUse(D, E) /\ D_bubble(D, E, M, nextM.Cnd)
    BY <2>1 DEF E_bubble, D_bubble, RetInFlight
  <2> QED
    BY <1>2, <2>2, RunningEdge
<1>9. M'.icode = "JXX" /\ ~M'.Cnd => E'.status = "BUB" /\ D'.status = "BUB"
  <2> SUFFICES ASSUME M'.icode = "JXX", ~M'.Cnd
               PROVE  E'.status = "BUB" /\ D'.status = "BUB"
    OBVIOUS
  <2>1. E.icode = "JXX" /\ ~nextM.Cnd
    BY <1>1, RunningEdge, ExecuteStageIs
  <2>2. E_bubble(D, E, nextM.Cnd) /\ ~LoadUse(D, E) /\ D_bubble(D, E, M, nextM.Cnd)
    BY <2>1 DEF E_bubble, LoadUse, D_bubble, Mispredicted
  <2> QED
    BY <1>2, <2>2, RunningEdge
<1> QED
  BY <1>3, <1>4, <1>5, <1>6, <1>7, <1>8, <1>9 DEF Bubbles

\* A ret goes on where the memory says, a branch that is not taken at valA.
LEMMA RetIs ==
  ASSUME PipeInv, Running, GoodM, M.icode = "RET"
  PROVE  nextW.valM = AfterM.pc
<1>1. M.status # "BUB"
  BY DEF PipeInv, Bubbles
<1>2. Outcome(code, M, Done, nextW, PipeStep(code, Done)) /\ IsExecuted(code, M, Done)
  BY <1>1, MemoryIs DEF PipeInv, InOrder
<1>3. AfterM.pc = PipeStep(code, Done).pc /\ PipeStep(code, Done).stat = "AOK"
  BY <1>1 DEF AfterM, Then, AfterStep, State, GoodM, Survives, GoesOn
<1> QED
  BY <1>2, <1>3 DEF Outcome, IsExecuted

LEMMA NotTakenIs ==
  ASSUME PipeInv, Running, GoodE, NotTaken(E, cc)
  PROVE  nextM.valA = AfterE.pc
<1>1. E.status # "BUB" /\ GoodM /\ ~nextM.Cnd /\ nextM.icode = "JXX"
  BY ExecuteStageIs DEF PipeInv, Bubbles, NotTaken, GoodE
<1>2. IsExecuted(code, nextM, AfterM)
  BY <1>1, ExecuteStageIs
<1>3. Outcome(code, nextM, AfterM, do_mem(nextM, AfterM.m), PipeStep(code, AfterM))
  BY <1>1, <1>2, StatesTyped, ExecutedDoes DEF PipeInv, PipeTyped
<1>4. AfterE.pc = PipeStep(code, AfterM).pc /\ PipeStep(code, AfterM).stat = "AOK"
  BY <1>1 DEF AfterE, Then, AfterStep, State, GoodE, Survives, GoesOn
<1> QED
  BY <1>1, <1>2, <1>3, <1>4 DEF Outcome, IsExecuted

\* The program goes on at the oldest instruction behind the one in memory.
LEMMA OldestNext ==
  ASSUME PipeInv, HNext, Running'
  PROVE  OldestPc' = AfterM.pc
<1>1. Bubbles /\ InOrder /\ Running /\ GoodM /\ Computed
  BY RunningEdge DEF PipeInv
<1>2. CASE E.status # "BUB"
  <2>1. E.pc = AfterM.pc
    BY <1>1, <1>2 DEF InOrder, IsDecoded
  <2> QED
    BY <1>1, <1>2, <2>1, RunningEdge, ExecuteStageIs DEF OldestPc
<1>3. CASE E.status = "BUB"
  <2>1. E.icode = "NOP" /\ AfterE = AfterM /\ PathE
    BY <1>1, <1>3 DEF Bubbles, AfterE, Then, PathE, GoodE, Survives, NotTaken
  <2>2. ~E_bubble(D, E, nextM.Cnd) /\ ~LoadUse(D, E) /\ ~Mispredicted(E, nextM.Cnd)
    BY <2>1 DEF E_bubble, LoadUse, Mispredicted
  <2>3. /\ E' = nextE /\ E'.status = D.status /\ E'.pc = D.pc
        /\ M'.status = "BUB" /\ M'.icode = "NOP"
    BY <1>1, <1>3, <2>1, <2>2, RunningEdge, ExecuteStageIs
  <2>4. CASE D.status # "BUB"
    <3>1. D.pc = AfterE.pc
      BY <1>1, <2>1, <2>4 DEF InOrder, Fetched
    <3> QED
      BY <2>1, <2>3, <2>4, <3>1 DEF OldestPc
  <2>5. CASE D.status = "BUB"
    <3>1. D.icode = "NOP" /\ AfterD = AfterM /\ PathD
      BY <1>1, <2>1, <2>5 DEF Bubbles, AfterD, Then, PathD, GoodD, Survives, NotTaken
    <3>2. CASE M.icode = "RET"
      <4>1. D_bubble(D, E, M, nextM.Cnd)
        BY <2>2, <3>2 DEF D_bubble, RetInFlight
      <4>2. D'.status = "BUB"
        BY <2>2, <4>1, RunningEdge DEF BubD
      <4>3. W'.icode = "RET" /\ W'.valM = AfterM.pc
        BY <1>1, <3>2, RunningEdge, RetIs, MemoryIs
      <4> QED
        BY <2>3, <2>5, <4>2, <4>3 DEF OldestPc, f_pc
    <3>3. CASE M.icode # "RET"
      <4>1. ~RetInFlight(D, E, M) /\ ~D_bubble(D, E, M, nextM.Cnd) /\ ~F_stall(D, E, M)
        BY <2>1, <2>2, <3>1, <3>3 DEF D_bubble, RetInFlight, F_stall
      <4>2. f_pc(F, M, W) = AfterM.pc
        BY <1>1, <3>1, <4>1 DEF InOrder
      <4>3. D' = nextD /\ F' = nextF /\ W'.icode # "RET"
        BY <1>1, <2>2, <3>3, <4>1, RunningEdge, MemoryIs
      <4>4. CASE nextD = do_if(f_pc(F, M, W))
        BY <2>3, <2>5, <4>2, <4>3, <4>4, FetchedNoBubble DEF OldestPc
      <4>5. CASE nextD = BubD /\ nextF.pc = f_pc(F, M, W)
        BY <2>3, <2>5, <4>2, <4>3, <4>5 DEF OldestPc, f_pc, BubD
      <4> QED
        BY <1>1, <4>4, <4>5 DEF Computed
    <3> QED
      BY <3>2, <3>3
  <2> QED
    BY <2>4, <2>5
<1> QED
  BY <1>2, <1>3

\* The instruction in memory is done with the edge.
LEMMA DoneNext ==
  ASSUME PipeInv, HNext, Running'
  PROVE  /\ Done' = AfterM /\ AfterM' = AfterE
         /\ GoodM' <=> GoodE
<1>1. InOrder /\ Running /\ GoodM /\ Computed
  BY RunningEdge DEF PipeInv
<1>2. WriteBack(reg)' = AfterM.r
  <2>1. Computed'
    BY <1>1, ComputedNext
  <2>2. wb' = [dstE |-> W'.dstE, valE |-> W'.valE, dstM |-> W'.dstM, valM |-> W'.valM]
    BY <2>1 DEF Computed
  <2>3. WriteBack(reg)' = SetReg(SetReg(reg', nextW.dstE, nextW.valE), nextW.dstM, nextW.valM)
    BY <2>2, RunningEdge DEF WriteBack
  <2>4. reg' = Done.r
    BY <1>1, EdgeIs DEF Done, State
  <2> QED
    BY <1>1, <2>3, <2>4, MemoryIs
<1>3. mem' = AfterM.m
  BY <1>1, EdgeIs, MemoryIs
<1>4. ccW' = AfterM.cc
  BY <1>1, RunningEdge DEF InOrder
<1>5. Done' = State(AfterM.pc, AfterM.r, AfterM.m, AfterM.cc)
  BY <1>2, <1>3, <1>4, OldestNext DEF Done
<1>6. Done' = AfterM
  BY <1>1, <1>5, StatesTyped DEF IsState
<1>7. M'.status = E.status /\ code' = code
  BY <1>1, RunningEdge, ExecuteStageIs
<1>8. AfterM' = AfterE
  BY <1>6, <1>7 DEF AfterM, AfterE, Then
<1>9. GoodM' <=> GoodE
  BY <1>1, <1>6, <1>7 DEF GoodM, GoodE, Survives
<1> QED
  BY <1>6, <1>8, <1>9

\* The path on which decode is, in the next cycle: a stall, a bubble or a load.
StalledNext ==
  /\ PathE' /\ D'.status # "BUB" => D' = Fetched(InstrAt(code', AfterE'.pc), AfterE'.pc)
  /\ PathD' /\ ~RetInFlight(D', E', M') => f_pc(F', M', W') = AfterD'.pc

LEMMA StallKeepsOrder ==
  ASSUME PipeInv, HNext, Running', LoadUse(D, E)
  PROVE  StalledNext
<1>1. Bubbles /\ InOrder /\ Running /\ GoodM
  BY RunningEdge DEF PipeInv
<1>2. /\ E.icode \in {"MRMOVQ", "POPQ"} /\ E.status # "BUB"
      /\ E_bubble(D, E, nextM.Cnd) /\ F_stall(D, E, M) /\ ~NotTaken(E, cc)
  BY <1>1 DEF LoadUse, Bubbles, E_bubble, F_stall, NotTaken
<1>3. /\ E' = BubE /\ D' = D /\ F' = F /\ M' = nextM /\ W' = nextW /\ code' = code
      /\ cc' = AfterE.cc
  BY <1>2, RunningEdge
<1>4. BubE.status = "BUB" /\ BubE.icode = "NOP"
  BY DEF BubE
<1>5. AfterE' = AfterE /\ AfterD' = AfterD
  BY <1>3, <1>4, DoneNext DEF AfterE, AfterD, Then
<1>6. PathE' => PathE
  BY <1>2, DoneNext DEF PathE, GoodE
<1>7. PathD' => PathD
  BY <1>3, <1>5, <1>6 DEF PathD, GoodD, Survives
<1>8. ~RetInFlight(D', E', M') => ~RetInFlight(D, E, M)
  BY <1>1, <1>2, <1>3 DEF RetInFlight, Bubbles
<1>9. f_pc(F', M', W') = f_pc(F, M, W)
  <2>1. ~(M.icode = "JXX" /\ ~M.Cnd) /\ W.icode # "RET" /\ M.icode # "RET"
    BY <1>1, <1>2 DEF Bubbles
  <2>2. M'.icode \in {"MRMOVQ", "POPQ"} /\ W'.icode # "RET"
    BY <1>1, <1>2, <1>3, <2>1, ExecuteStageIs, MemoryIs
  <2> QED
    BY <1>3, <2>1, <2>2 DEF f_pc
<1> QED
  BY <1>1, <1>3, <1>5, <1>6, <1>7, <1>8, <1>9 DEF StalledNext, InOrder

LEMMA BubbleKeepsOrder ==
  ASSUME PipeInv, HNext, Running', ~LoadUse(D, E), D_bubble(D, E, M, nextM.Cnd)
  PROVE  StalledNext
<1>1. Bubbles /\ InOrder /\ Running /\ GoodM
  BY RunningEdge DEF PipeInv
<1>2. D' = BubD /\ BubD.status = "BUB" /\ BubE.status = "BUB" /\ M' = nextM /\ W' = nextW
  BY RunningEdge DEF BubD, BubE
<1>3. AfterD' = AfterE'
  BY <1>2 DEF AfterD, Then
<1> SUFFICES ASSUME PathD', ~RetInFlight(D', E', M')
             PROVE  f_pc(F', M', W') = AfterE'.pc
  BY <1>2, <1>3 DEF StalledNext
<1>4. GoodE
  BY DoneNext DEF PathD, GoodD, PathE, GoodE
<1>5. CASE NotTaken(E, cc)
  <2>1. E' = BubE
    BY <1>5, RunningEdge DEF E_bubble
  <2>2. AfterE' = AfterE
    BY <1>2, <2>1, DoneNext DEF AfterE, Then
  <2>3. M'.icode = "JXX" /\ ~M'.Cnd /\ M'.valA = AfterE.pc
    BY <1>1, <1>2, <1>4, <1>5, ExecuteStageIs, NotTakenIs DEF NotTaken
  <2> QED
    BY <2>2, <2>3 DEF f_pc
<1>6. CASE ~NotTaken(E, cc)
  <2>1. ~Mispredicted(E, nextM.Cnd) /\ RetInFlight(D, E, M)
    BY <1>6, RunningEdge DEF D_bubble
  <2>2. E' = nextE
    BY <2>1, RunningEdge DEF E_bubble
  <2>3. D.icode # "RET" /\ E.icode # "RET"
    BY <1>1, <1>2, <2>2, RunningEdge, ExecuteStageIs DEF RetInFlight
  <2>4. M.icode = "RET"
    BY <2>1, <2>3 DEF RetInFlight
  <2>5. E.status = "BUB" /\ D.status = "BUB" /\ E.icode = "NOP"
    BY <1>1, <2>4 DEF Bubbles
  <2>6. AfterE' = AfterM
    BY <2>2, <2>5, DoneNext, RunningEdge DEF AfterE, Then
  <2>7. W'.icode = "RET" /\ W'.valM = AfterM.pc /\ M'.icode = "NOP"
    BY <1>1, <1>2, <2>4, <2>5, RetIs, MemoryIs, ExecuteStageIs
  <2> QED
    BY <2>6, <2>7 DEF f_pc
<1> QED
  BY <1>5, <1>6

LEMMA LoadKeepsOrder ==
  ASSUME PipeInv, HNext, Running', ~LoadUse(D, E), ~D_bubble(D, E, M, nextM.Cnd)
  PROVE  StalledNext
<1>1. Bubbles /\ InOrder /\ Running /\ GoodM /\ Computed /\ LegalProgram(code)
  BY RunningEdge DEF PipeInv, PipeTyped
<1>2. ~Mispredicted(E, nextM.Cnd) /\ ~RetInFlight(D, E, M) /\ ~NotTaken(E, cc)
  BY RunningEdge DEF D_bubble
<1>3. ~E_bubble(D, E, nextM.Cnd) /\ ~F_stall(D, E, M)
  BY <1>2 DEF E_bubble, F_stall
<1>4. /\ E' = nextE /\ D' = nextD /\ F' = nextF /\ M' = nextM /\ W' = nextW /\ code' = code
      /\ cc' = AfterE.cc
      /\ E'.status = D.status /\ E'.icode = D.icode /\ E'.ifun = D.ifun
  BY <1>3, RunningEdge
<1>5. AfterE' = AfterD
  BY <1>4, DoneNext DEF AfterE, AfterD, Then
<1>6. PathE' => PathD /\ f_pc(F, M, W) = AfterD.pc
  <2> SUFFICES ASSUME PathE' PROVE PathD
    BY <1>1, <1>2 DEF InOrder
  <2>1. GoodE' /\ ~NotTaken(E', cc')
    BY DEF PathE
  <2>2. GoodM' /\ Survives(code, E', AfterE)
    BY <1>4, <2>1, DoneNext DEF GoodE
  <2>3. GoodE /\ Survives(code, D, AfterE)
    BY <1>4, <2>2, DoneNext DEF Survives
  <2>4. ~NotTaken(D, AfterE.cc)
    BY <1>4, <2>1 DEF NotTaken
  <2> QED
    BY <1>2, <2>3, <2>4 DEF PathD, GoodD, PathE
<1>7. f_pc(F', M', W') = nextF.pc
  <2>1. ~(M'.icode = "JXX" /\ ~M'.Cnd)
    BY <1>1, <1>2, <1>4, ExecuteStageIs DEF Mispredicted
  <2>2. W'.icode # "RET"
    BY <1>1, <1>2, <1>4, MemoryIs DEF RetInFlight
  <2> QED
    BY <1>4, <2>1, <2>2 DEF f_pc
<1> DEFINE p == f_pc(F, M, W)
<1>8. CASE nextD = BubD /\ nextF.pc = p
  <2>1. D'.status = "BUB"
    BY <1>4, <1>8 DEF BubD
  <2>2. AfterD' = AfterE'
    BY <2>1 DEF AfterD, Then
  <2>3. PathD' => PathE'
    BY DEF PathD, GoodD
  <2> QED
    BY <1>5, <1>6, <1>7, <1>8, <2>1, <2>2, <2>3 DEF StalledNext
<1>9. CASE nextD = do_if(p) /\ nextF = Predicted(nextD)
  <2>1. nextD = Fetched(InstrAt(code, p), p) /\ D'.status # "BUB"
    BY <1>4, <1>9, FetchedNoBubble
  <2>2. PathE' => D' = Fetched(InstrAt(code', AfterE'.pc), AfterE'.pc)
    BY <1>4, <1>5, <1>6, <2>1
  <2>3. ASSUME PathD', ~RetInFlight(D', E', M')
        PROVE  nextF.pc = AfterD'.pc
    <3>1. PathE' /\ GoodD' /\ ~NotTaken(D', AfterE'.cc)
      BY <2>3 DEF PathD, GoodD
    <3>2. PathD /\ p = AfterD.pc
      BY <1>6, <3>1
    <3>3. IsState(AfterD)
      BY <3>2, StatesTyped DEF PathD
    <3>4. GoesOn(code, AfterD)
      BY <1>4, <1>5, <2>1, <3>1 DEF GoodD, Survives
    <3> DEFINE i == InstrAt(code, AfterD.pc)
    <3>5. D'.icode = i.icode /\ D'.ifun = i.ifun
      BY <1>4, <2>1, <3>2 DEF Fetched
    <3>6. i.icode # "RET" /\ ~(i.icode = "JXX" /\ ~cond_holds(AfterD.cc, i.ifun))
      BY <1>5, <2>3, <3>1, <3>5 DEF RetInFlight, NotTaken
    <3>7. Predicted(Fetched(i, AfterD.pc)).pc = AfterStep(code, AfterD).pc
      BY <1>1, <3>3, <3>4, <3>6, PredictedIs
    <3>8. AfterD' = AfterStep(code, AfterD)
      BY <1>4, <1>5, <2>1 DEF AfterD, Then
    <3> QED
      BY <1>9, <2>1, <3>2, <3>7, <3>8
  <2> QED
    BY <1>7, <2>2, <2>3 DEF StalledNext
<1> QED
  BY <1>1, <1>8, <1>9 DEF Computed

LEMMA InOrderNext ==
  ASSUME PipeInv, HNext, Running'
  PROVE  InOrder'
<1>1. InOrder /\ Running /\ GoodM
  BY RunningEdge DEF PipeInv
<1>2. M' = nextM /\ code' = code /\ cc' = AfterE.cc
  BY RunningEdge
<1>3. M'.status # "BUB" => IsExecuted(code', M', Done')
  BY <1>1, <1>2, ExecuteStageIs, DoneNext
<1>4. cc' = AfterM'.cc
  BY <1>2, DoneNext
<1>5. GoodM' /\ E'.status # "BUB" => IsDecoded(code', E', AfterM')
  <2> SUFFICES ASSUME GoodM', E'.status # "BUB" PROVE IsDecoded(code', E', AfterM')
    OBVIOUS
  <2>1. E' = nextE /\ ~E_bubble(D, E, nextM.Cnd)
    BY RunningEdge DEF BubE
  <2>2. PathE /\ ~LoadUse(D, E)
    BY <2>1, RunningEdge, DoneNext DEF E_bubble, PathE
  <2>3. IsDecoded(code, nextE, AfterE)
    BY <1>1, <2>1, <2>2, DecodeStageIs
  <2> QED
    BY <1>2, <2>1, <2>3, DoneNext
<1>6. StalledNext
  BY StallKeepsOrder, BubbleKeepsOrder, LoadKeepsOrder
<1> QED
  BY <1>3, <1>4, <1>5, <1>6 DEF InOrder, StalledNext

LEMMA PipeInvInit == HInit /\ LegalProgram(code) /\ SourcesNamed(code) => PipeInv
<1> SUFFICES ASSUME HInit, LegalProgram(code), SourcesNamed(code) PROVE PipeInv
  OBVIOUS
<1>1. PipeTyped /\ FaultInv /\ Computed
  BY PipeTypedInit, FaultInit, ComputedInit
<1>2. /\ D.status = "BUB" /\ E.status = "BUB" /\ M.status = "BUB"
      /\ D.icode = "NOP" /\ E.icode = "NOP" /\ M.icode = "NOP" /\ W.icode = "NOP"
      /\ E.dstE = RNONE /\ E.dstM = RNONE /\ M.dstE = RNONE /\ M.dstM = RNONE
      /\ cc = ccW
  BY DEF HInit, Init, BubD, BubE, BubM, BubW
<1>3. Bubbles
  BY <1>2 DEF Bubbles
<1>4. AfterM = Done /\ AfterE = Done /\ AfterD = Done
  BY <1>2 DEF AfterM, AfterE, AfterD, Then
<1>5. Done.pc = f_pc(F, M, W) /\ Done.cc = ccW
  BY <1>2 DEF Done, State, OldestPc
<1>6. InOrder
  BY <1>2, <1>4, <1>5 DEF InOrder
<1> QED
  BY <1>1, <1>3, <1>6 DEF PipeInv

LEMMA PipeInvNext == PipeInv /\ [HNext]_hvars => PipeInv'
<1> SUFFICES ASSUME PipeInv, [HNext]_hvars PROVE PipeInv'
  OBVIOUS
<1>1. PipeTyped' /\ FaultInv'
  BY PipeTypedNext, FaultNext DEF PipeInv, FaultInv
<1>2. CASE HNext
  <2>1. Computed' /\ code' = code
    BY <1>2, ComputedNext DEF PipeInv, HNext, Next, Cycle, sim_step_pipe
  <2>2. Running' => Bubbles' /\ InOrder'
    BY <1>2, BubblesNext, InOrderNext
  <2> QED
    BY <1>1, <2>1, <2>2 DEF PipeInv
<1>3. CASE UNCHANGED hvars
  <2>1. /\ code' = code /\ F' = F /\ D' = D /\ E' = E /\ M' = M /\ W' = W
        /\ nextF' = nextF /\ nextD' = nextD /\ nextE' = nextE /\ nextM' = nextM
        /\ nextW' = nextW /\ op' = op /\ reg' = reg /\ mem' = mem /\ cc' = cc /\ cc_in' = cc_in
        /\ wb' = wb /\ store' = store /\ status' = status /\ ccW' = ccW
    BY <1>3 DEF hvars, vars, pipes
  <2>2. Computed'
    BY <2>1 DEF PipeInv, Computed, do_if
  <2>3. Running' = Running /\ Bubbles' = Bubbles
    BY <2>1 DEF Running, Bubbles
  <2>4. Done' = Done
    BY <2>1 DEF Done, OldestPc, WriteBack
  <2>5. AfterM' = AfterM /\ GoodM' = GoodM
    BY <2>1, <2>4 DEF AfterM, GoodM
  <2>6. AfterE' = AfterE /\ GoodE' = GoodE
    BY <2>1, <2>5 DEF AfterE, GoodE
  <2>7. AfterD' = AfterD /\ PathE' = PathE /\ GoodD' = GoodD /\ PathD' = PathD
    BY <2>1, <2>6 DEF AfterD, GoodD, PathE, PathD
  <2>8. InOrder' = InOrder
    BY <2>1, <2>4, <2>5, <2>6, <2>7 DEF InOrder
  <2> QED
    BY <1>1, <2>1, <2>2, <2>3, <2>8 DEF PipeInv
<1> QED
  BY <1>2, <1>3
-----------------------------------------------------------------------------
(***************************************************************************)
(* What the program sees.                                                   *)
(***************************************************************************)

\* The fetch looks at the byte FetchAhead bytes after pc and finds an address
\* bad when that byte is missing, even if the instruction itself is shorter.
\* The program stays away from the end of memory, or leaves it altogether.
AwayFromEnd == Running /\ ByteOk(OldestPc) => ByteOk(OldestPc + FetchAhead)

\* The instruction set is the same seen from Program.
LEMMA ProgramIs ==
  \A s, prog : Program!step_state(s, prog) = step_state(s, prog)
<1>1. \A i, p : Program!NextPc(i, p) = NextPc(i, p)
  BY DEF Program!NextPc, NextPc, Program!ValcAt, ValcAt, Program!NeedRegids, NeedRegids,
         Program!NeedValC, NeedValC
<1>2. \A prog, p : Program!CodeAt(prog, p) = CodeAt(prog, p)
  BY DEF Program!CodeAt, CodeAt, Program!HaltInstr, HaltInstr
<1>3. \A i, p : Program!RefusedAs(p, i) = RefusedAs(p, i)
  BY DEF Program!RefusedAs, RefusedAs, Program!ByteOk, ByteOk, Program!WordOk, WordOk,
         Program!RegidsAt, RegidsAt, Program!ValcAt, ValcAt, Program!NeedRegids, NeedRegids,
         Program!NeedValC, NeedValC, Program!KnownCode, KnownCode,
         Program!NamesRegisters, NamesRegisters
<1>4. \A o, a, b : Program!compute_alu(o, a, b) = compute_alu(o, a, b)
  BY DEF Program!compute_alu, compute_alu, Program!OfBits, OfBits, Program!Wrap, Wrap,
         Program!Bit, Bit, Program!MapThenSumSet, MapThenSumSet,
         Program!MapThenFoldSet, MapThenFoldSet
<1>5. \A o, a, b : Program!compute_cc(o, a, b) = compute_cc(o, a, b)
  <2>1. \A o, a, b, v : Program!Overflow(o, a, b, v) = Overflow(o, a, b, v)
    BY Zenon DEF Program!Overflow, Overflow
  <2>2. \A o, a, b, v : Program!CcOf(o, a, b, v) = CcOf(o, a, b, v)
    BY <2>1, Zenon DEF Program!CcOf, CcOf
  <2> QED
    BY <1>4, <2>2, Zenon DEF Program!compute_cc, compute_cc
<1>6. \A f, c : Program!cond_holds(f, c) = cond_holds(f, c)
  BY DEF Program!cond_holds, cond_holds
<1>7. /\ \A r, id : Program!GetReg(r, id) = GetReg(r, id)
      /\ \A r, id, v : Program!SetReg(r, id, v) = SetReg(r, id, v)
      /\ \A m, p, v : Program!SetWord(m, p, v) = SetWord(m, p, v)
      /\ \A p : Program!WordOk(p) = WordOk(p) /\ Program!Wrap(p) = Wrap(p)
  BY DEF Program!GetReg, GetReg, Program!SetReg, SetReg, Program!SetWord, SetWord,
         Program!WordOk, WordOk, Program!Wrap, Wrap
<1>8. /\ \A p, r, m, f, t : Program!Result(p, r, m, f, t) = Result(p, r, m, f, t)
      /\ \A s, r : Program!Fault(s, r) = Fault(s, r)
  BY DEF Program!Result, Result, Program!Fault, Fault
<1>9. \A s, i, n : Program!Execute(s, i, n) = Execute(s, i, n)
  <2> TAKE s, i, n
  <2>1. Program!Popped(s.r) = Popped(s.r)
    BY <1>7 DEF Program!Popped, Popped
  <2>2. Program!Ret(s) = Ret(s)
    BY <1>7, <1>8, <2>1 DEF Program!Ret, Ret
  <2>3. Program!Pop(s, i, n) = Pop(s, i, n)
    BY <1>7, <1>8, <2>1 DEF Program!Pop, Pop
  <2>4. \A p, v, r, k : Program!Store(s, p, v, r, k) = Store(s, p, v, r, k)
    BY <1>7, <1>8 DEF Program!Store, Store
  <2>5. \A v, k : Program!Push(s, v, k) = Push(s, v, k)
    BY <1>7, <2>4 DEF Program!Push, Push
  <2>6. \A p, k : Program!Load(s, i, p, k) = Load(s, i, p, k)
    BY <1>7, <1>8 DEF Program!Load, Load
  <2>7. \A o, a, b, id, k : Program!Arith(s, o, a, b, id, k) = Arith(s, o, a, b, id, k)
    BY <1>4, <1>5, <1>7, <1>8 DEF Program!Arith, Arith
  <2> QED
    BY <1>6, <1>7, <1>8, <2>2, <2>3, <2>4, <2>5, <2>6, <2>7 DEF Program!Execute, Execute
<1>10. \A s, i : Program!StepInstr(s, i) = StepInstr(s, i)
  BY <1>1, <1>3, <1>8, <1>9 DEF Program!StepInstr, StepInstr
<1> QED
  BY <1>2, <1>10 DEF Program!step_state, step_state

LEMMA PipeStepIs ==
  ASSUME Running, AwayFromEnd
  PROVE  PipeStep(code, Done) = step_state(Done, code)
<1>1. Done.pc = OldestPc
  BY DEF Done, State
<1>2. CASE ~imem_error(Done.pc)
  BY <1>2 DEF PipeStep
<1>3. CASE imem_error(Done.pc)
  <2>1. ~ByteOk(Done.pc)
    BY <1>1, <1>3 DEF imem_error, AwayFromEnd
  <2>2. \A i : RefusedAs(Done.pc, i) = "ADR"
    BY <2>1 DEF RefusedAs
  <2> QED
    BY <1>3, <2>2 DEF PipeStep, step_state, StepInstr
<1> QED
  BY <1>2, <1>3

\* The values that Program gives its variables while the processor runs.
LEMMA SeenRunning ==
  ASSUME Running
  PROVE  /\ (IF Running THEN OldestPc ELSE W.pc) = Done.pc
         /\ (IF Running THEN WriteBack(reg) ELSE reg) = Done.r
         /\ mem = Done.m /\ ccW = Done.cc
BY DEF Done, State

\* A step, given the state before it and after it.
LEMMA StepFrom ==
  ASSUME NEW t, t = step_state(Done, code), Running,
         code' = code, status' = t.stat, mem' = t.m, ccW' = t.cc,
         (IF Running THEN OldestPc ELSE W.pc)' = t.pc,
         \/ (IF Running THEN WriteBack(reg) ELSE reg)' = t.r
         \/ t.stat = "ADR" /\ (IF Running THEN WriteBack(reg) ELSE reg)' = Done.r
  PROVE  Program!Step
<1>1. [pc |-> IF Running THEN OldestPc ELSE W.pc,
       r |-> IF Running THEN WriteBack(reg) ELSE reg, m |-> mem, cc |-> ccW] = Done
  BY DEF Done, State
<1>2. t = Program!step_state(Done, code)
  BY ProgramIs
<1>3. Program!Becomes(t)
  BY SeenRunning DEF Program!Becomes
<1>4. status = "AOK"
  BY DEF Running
<1> QED
  BY <1>1, <1>2, <1>3, <1>4 DEF Program!Step

\* An edge: an instruction leaves the memory stage, or a bubble does.
LEMMA EdgeIsStep ==
  ASSUME PipeInv, AwayFromEnd, HNext
  PROVE  [Program!Step]_Program!vars
<1>1. Running /\ Computed /\ Bubbles /\ code' = code
  BY EdgeIs DEF HNext, Next, Cycle, PipeInv
<1>2. /\ W' = nextW /\ ccW' = cc /\ reg' = Done.r
      /\ mem' = IF mem_write(M) THEN SetWord(mem, mem_addr(M), M.valA) ELSE mem
      /\ status' = IF nextW.status = "BUB" THEN "AOK" ELSE nextW.status
  BY <1>1, EdgeIs DEF Stages, Done, State
<1>3. CASE Running'
  <2>1. Done' = AfterM /\ GoodM /\ status' = "AOK"
    BY <1>3, DoneNext, RunningEdge DEF Running
  <2>2. /\ (IF Running THEN OldestPc ELSE W.pc)' = AfterM.pc
        /\ (IF Running THEN WriteBack(reg) ELSE reg)' = AfterM.r
        /\ mem' = AfterM.m /\ ccW' = AfterM.cc
    <3>1. Done' = [pc |-> OldestPc', r |-> WriteBack(reg)', m |-> mem', cc |-> ccW']
      BY DEF Done, State
    <3> QED
      BY <1>3, <2>1, <3>1
  <2>3. CASE M.status = "BUB"
    <3>1. AfterM = Done
      BY <2>3 DEF AfterM, Then
    <3> QED
      BY <1>1, <2>1, <2>2, <3>1, SeenRunning DEF Program!vars, Running
  <2>4. CASE M.status # "BUB"
    <3> DEFINE t == PipeStep(code, Done)
    <3>1. t = step_state(Done, code)
      BY <1>1, PipeStepIs
    <3>2. t.stat = "AOK" /\ AfterM = State(t.pc, t.r, t.m, t.cc)
      BY <2>1, <2>4 DEF GoodM, Survives, GoesOn, AfterM, Then, AfterStep
    <3> HIDE DEF t
    <3>3. AfterM.pc = t.pc /\ AfterM.r = t.r /\ AfterM.m = t.m /\ AfterM.cc = t.cc
      BY <3>2 DEF State
    <3>4. Program!Step
      BY <1>1, <2>1, <2>2, <3>1, <3>2, <3>3, StepFrom
    <3> QED
      BY <3>4
  <2> QED
    BY <2>3, <2>4
<1>4. CASE ~Running'
  <2>1. nextW.status \notin {"AOK", "BUB"}
    BY <1>2, <1>4 DEF Running
  <2> DEFINE t == PipeStep(code, Done)
  <2>2. /\ M.status # "BUB" /\ Outcome(code, M, Done, nextW, t) /\ IsExecuted(code, M, Done)
        /\ nextW.pc = M.pc
    BY <1>1, <2>1, MemoryIs DEF PipeInv, InOrder
  <2>3. t = step_state(Done, code)
    BY <1>1, PipeStepIs
  <2> HIDE DEF t
  <2>4. /\ t.stat = nextW.status /\ t.pc = Done.pc /\ t.m = mem /\ t.cc = ccW
        /\ ~mem_write(M) \/ ~WordOk(mem_addr(M))
        /\ t.stat # "ADR" => t.r = Done.r
    BY <2>1, <2>2, <1>1, SeenRunning DEF Outcome
  <2>5. mem' = mem
    BY <1>2, <2>4 DEF SetWord
  <2>6. ccW' = ccW
    <3>1. cc = AfterM.cc
      BY <1>1 DEF PipeInv, InOrder
    <3>2. AfterM.cc = t.cc
      BY <2>2 DEF AfterM, Then, AfterStep, State, t
    <3> QED
      BY <1>2, <2>4, <3>1, <3>2
  <2>7. (IF Running THEN OldestPc ELSE W.pc)' = t.pc
    BY <1>2, <1>4, <2>2, <2>4 DEF IsExecuted
  <2>8. (IF Running THEN WriteBack(reg) ELSE reg)' = Done.r
    BY <1>2, <1>4
  <2>9. status' = t.stat
    BY <1>2, <2>1, <2>4
  <2>10. Program!Step
    BY <1>1, <2>3, <2>4, <2>5, <2>6, <2>7, <2>8, <2>9, StepFrom
  <2> QED
    BY <2>10
<1> QED
  BY <1>3, <1>4

LEMMA SeenFirst == HInit => Program!Init
<1> SUFFICES ASSUME HInit PROVE Program!Init
  OBVIOUS
<1>1. /\ M.status = "BUB" /\ E.status = "BUB" /\ D.status = "BUB" /\ f_pc(F, M, W) = 0
      /\ wb.dstE = RNONE /\ wb.dstM = RNONE
      /\ reg = [id \in Reg |-> 0] /\ mem = [a \in Addr |-> 0]
      /\ status = "AOK" /\ ccW = DEFAULT_CC
  BY DEF HInit, Init, BubF, BubD, BubE, BubM, BubW, f_pc
<1>2. Running /\ OldestPc = 0
  BY <1>1 DEF Running, OldestPc
<1>3. WriteBack(reg) = reg
  BY <1>1, NoneIs DEF WriteBack
<1> QED
  BY <1>1, <1>2, <1>3 DEF Program!Init, Program!Addr, Addr, Program!DEFAULT_CC, DEFAULT_CC

\* The pipeline (psim.c with the control logic of pipe-full.hcl), with its
\* forwarding, its stalls and bubbles, its predicted branches and its precise
\* exceptions, completes one after another the instructions that step_state of
\* isa.c executes, with its results: for words, memories and register files of
\* any size, and every program that names the registers it reads and stays
\* away from the last bytes of memory, where psim.c and isa.c differ.
THEOREM PipeCorrect ==
  HSpec /\ LegalProgram(code) /\ SourcesNamed(code) /\ []AwayFromEnd => ImplementsIsa
<1>1. HInit /\ LegalProgram(code) /\ SourcesNamed(code) => PipeInv /\ Program!Init
  BY PipeInvInit, SeenFirst
<1>2. PipeInv /\ [HNext]_hvars => PipeInv'
  BY PipeInvNext
<1>3. PipeInv /\ AwayFromEnd /\ [HNext]_hvars => [Program!Step]_Program!vars
  <2>1. UNCHANGED hvars => UNCHANGED Program!vars
    BY DEF hvars, vars, pipes, Program!vars, Running, OldestPc, WriteBack
  <2> QED
    BY <2>1, EdgeIsStep
<1> QED
  BY <1>1, <1>2, <1>3, PTL DEF HSpec, ImplementsIsa, Program!Spec
=============================================================================
