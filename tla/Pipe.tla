-------------------------------- MODULE Pipe --------------------------------
(***************************************************************************)
(* The pipelined processor: the simulator psim.c with the control logic of   *)
(* pipe-full.hcl, both in icslabs/lab6/sim/pipe.  One action is one call of   *)
(* sim_step_pipe: the clock edge (update_state, update_pipes), then the        *)
(* stages of the new cycle, which compute what the next edge will load.        *)
(*                                                                         *)
(* F, D, E, M and W are the current contents of the pipeline registers,       *)
(* nextF .. nextW what the stages computed for them.                           *)
(***************************************************************************)
EXTENDS Hcl

CONSTANT FetchAhead   \* the byte that must exist after pc for a fetch; 5 in the source

ASSUME FetchAssumption == FetchAhead \in Nat

VARIABLES
  code,                 \* the program
  F, D, E, M, W,        \* pc_curr .. mem_wb_curr
  nextF, nextD, nextE, nextM, nextW,
  op,                   \* what the next edge does with each register
  reg, mem, cc, cc_in,
  wb,                   \* the register writes of the next edge
  store,                \* the memory write of the next edge
  status

pipes == <<F, D, E, M, W, nextF, nextD, nextE, nextM, nextW, op>>
vars == <<code, pipes, reg, mem, cc, cc_in, wb, store, status>>

Bad == {"ADR", "INS", "HLT"}

BubF == [pc |-> 0, status |-> "AOK"]
BubD == [icode |-> "NOP", ifun |-> "NONE", rA |-> RNONE, rB |-> RNONE,
         valC |-> 0, valP |-> 0, status |-> "BUB", pc |-> 0]
BubE == [icode |-> "NOP", ifun |-> "NONE", valC |-> 0, valA |-> 0, valB |-> 0,
         srcA |-> RNONE, srcB |-> RNONE, dstE |-> RNONE, dstM |-> RNONE,
         status |-> "BUB", pc |-> 0]
BubM == [icode |-> "NOP", Cnd |-> FALSE, valE |-> 0, valA |-> 0,
         dstE |-> RNONE, dstM |-> RNONE, status |-> "BUB", pc |-> 0]
BubW == [icode |-> "NOP", valE |-> 0, valM |-> 0,
         dstE |-> RNONE, dstM |-> RNONE, status |-> "BUB", pc |-> 0]

LoadAll == [s \in {"F", "D", "E", "M", "W"} |-> "LOAD"]

Init ==
  /\ F = BubF /\ D = BubD /\ E = BubE /\ M = BubM /\ W = BubW
  /\ nextF = BubF /\ nextD = BubD /\ nextE = BubE /\ nextM = BubM /\ nextW = BubW
  /\ op = LoadAll
  /\ reg = [id \in Reg |-> 0]
  /\ mem = [a \in Addr |-> 0]
  /\ cc = DEFAULT_CC /\ cc_in = DEFAULT_CC
  /\ wb = [dstE |-> RNONE, valE |-> 0, dstM |-> RNONE, valM |-> 0]
  /\ store = [write |-> FALSE, addr |-> 0, data |-> 0]
  /\ status = "AOK"

----------------------------------------------------------------------------
(* Fetch.                                                                  *)

f_pc(f, m, w) ==
  CASE m.icode = "JXX" /\ ~m.Cnd -> m.valA
    [] ~(m.icode = "JXX" /\ ~m.Cnd) /\ w.icode = "RET" -> w.valM
    [] OTHER -> f.pc

imem_error(pc) == ~ByteOk(pc) \/ ~ByteOk(pc + FetchAhead)

f_stat(i, pc) ==
  IF imem_error(pc) THEN "ADR"
  ELSE IF i.icode \notin KnownCode THEN "INS"
  ELSE IF i.icode = "HALT" THEN "HLT" ELSE "AOK"

Fetched(i, pc) ==
  [icode  |-> i.icode, ifun |-> i.ifun,
   rA     |-> IF ByteOk(RegidsAt(pc)) THEN i.rA ELSE RNONE,
   rB     |-> IF ByteOk(RegidsAt(pc)) THEN i.rB ELSE RNONE,
   valC   |-> IF WordOk(ValcAt(i.icode, pc)) THEN i.valC ELSE 0,
   valP   |-> NextPc(i.icode, pc),
   status |-> f_stat(i, pc),
   pc     |-> pc]

NopInstr == [HaltInstr EXCEPT !.icode = "NOP"]
do_if(pc) == Fetched(IF imem_error(pc) THEN NopInstr ELSE CodeAt(code, pc), pc)

Predicted(d) == [pc |-> IF d.icode \in {"JXX", "CALL"} THEN d.valC ELSE d.valP,
                 status |-> IF d.status = "AOK" THEN "AOK" ELSE "BUB"]

----------------------------------------------------------------------------
(* Memory.                                                                 *)

do_mem(m, memory) ==
  [icode  |-> m.icode,
   valE   |-> m.valE,
   valM   |-> IF mem_read(m) /\ WordOk(mem_addr(m)) THEN memory[mem_addr(m)] ELSE 0,
   dstE   |-> m.dstE, dstM |-> m.dstM,
   status |-> IF (mem_read(m) \/ mem_write(m)) /\ ~WordOk(mem_addr(m)) THEN "ADR" ELSE m.status,
   pc     |-> m.pc]

----------------------------------------------------------------------------
(* Execute.                                                                *)

\* Faulty: whatever is ahead.
set_ccAlways(e, m_stat, w) == e.icode \in {"OPQ", "IADDQ"}
set_cc(e, m_stat, w) ==
  e.icode \in {"OPQ", "IADDQ"} /\ m_stat \notin Bad /\ w.status \notin Bad

do_ex(e, e_Cnd) ==
  [icode |-> e.icode, Cnd |-> e_Cnd,
   valE  |-> compute_alu(alufun(e), aluA(e), aluB(e)),
   valA  |-> e.valA,
   dstE  |-> IF e.icode = "RRMOVQ" /\ ~e_Cnd THEN RNONE ELSE e.dstE,
   dstM  |-> e.dstM, status |-> e.status, pc |-> e.pc]

----------------------------------------------------------------------------
(* Decode.                                                                 *)

\* The value of source register src.  e and mw are what execute and memory
\* have just computed, m and w what the later pipeline registers hold.
\* Faulty: the oldest value in flight.
ForwardOldest(src, regs, e, m, mw, w) ==
  IF src = w.dstM THEN w.valM
  ELSE IF src = w.dstE THEN w.valE
  ELSE IF src = m.dstM THEN mw.valM
  ELSE IF src = m.dstE THEN m.valE
  ELSE IF src = e.dstE THEN e.valE
  ELSE GetReg(regs, src)
Forward(src, regs, e, m, mw, w) ==
  IF src = e.dstE THEN e.valE
  ELSE IF src = m.dstM THEN mw.valM
  ELSE IF src = m.dstE THEN m.valE
  ELSE IF src = w.dstM THEN w.valM
  ELSE IF src = w.dstE THEN w.valE
  ELSE GetReg(regs, src)

do_id(d, regs, e, m, mw, w) ==
  [icode |-> d.icode, ifun |-> d.ifun, valC |-> d.valC,
   valA  |-> IF d.icode \in {"CALL", "JXX"} THEN d.valP
             ELSE Forward(srcA(d), regs, e, m, mw, w),
   valB  |-> Forward(srcB(d), regs, e, m, mw, w),
   srcA  |-> srcA(d), srcB |-> srcB(d), dstE |-> dstE(d), dstM |-> dstM(d),
   status |-> d.status, pc |-> d.pc]

----------------------------------------------------------------------------
(* Stalls and bubbles: what the next edge does with each pipeline register.  *)

\* Faulty: any instruction in execute, also one that loads no register.
LoadUseAny(d, e) == e.dstM \in {srcA(d), srcB(d)}
LoadUse(d, e) == e.icode \in {"MRMOVQ", "POPQ"} /\ e.dstM \in {srcA(d), srcB(d)}
RetInFlight(d, e, m) == "RET" \in {d.icode, e.icode, m.icode}
Mispredicted(e, e_Cnd) == e.icode = "JXX" /\ ~e_Cnd

F_stall(d, e, m) == LoadUse(d, e) \/ RetInFlight(d, e, m)
\* Faulty: a load in front of a ret.
D_bubbleOverStall(d, e, m, e_Cnd) == Mispredicted(e, e_Cnd) \/ RetInFlight(d, e, m)
D_bubble(d, e, m, e_Cnd) ==
  Mispredicted(e, e_Cnd) \/ (~LoadUse(d, e) /\ RetInFlight(d, e, m))
E_bubble(d, e, e_Cnd) == Mispredicted(e, e_Cnd) \/ LoadUse(d, e)
M_bubble(m_stat, w) == m_stat \in Bad \/ w.status \in Bad

pipe_cntl(stall, bubble) ==
  CASE stall /\ bubble -> "ERROR"
    [] stall /\ ~bubble -> "STALL"
    [] ~stall /\ bubble -> "BUBBLE"
    [] OTHER -> "LOAD"

do_stall_check(d, e, m, w, e_Cnd, m_stat) ==
  [F |-> pipe_cntl(F_stall(d, e, m), FALSE),
   D |-> pipe_cntl(LoadUse(d, e), D_bubble(d, e, m, e_Cnd)),
   E |-> pipe_cntl(FALSE, E_bubble(d, e, e_Cnd)),
   M |-> pipe_cntl(FALSE, M_bubble(m_stat, w)),
   W |-> pipe_cntl(w.status \in Bad, FALSE)]

----------------------------------------------------------------------------
(* The clock edge.                                                         *)

Update(o, curr, next, bubble) ==
  CASE o = "LOAD" -> next
    [] o = "STALL" -> curr
    [] o = "BUBBLE" -> bubble
    [] o = "ERROR" -> [bubble EXCEPT !.status = "PIP"]

update_pipes ==
  /\ F' = Update(op.F, F, nextF, BubF)
  /\ D' = Update(op.D, D, nextD, BubD)
  /\ E' = Update(op.E, E, nextE, BubE)
  /\ M' = Update(op.M, M, nextM, BubM)
  /\ W' = Update(op.W, W, nextW, BubW)

\* Of two writes of one register the one from memory counts: popq %rsp.
WriteBack(regs) == SetReg(SetReg(regs, wb.dstE, wb.valE), wb.dstM, wb.valM)

AheadMem == IF W.status # "BUB" THEN 1 ELSE 0
AheadEx  == AheadMem + (IF nextW.status # "BUB" THEN 1 ELSE 0)

\* The last instructions of a limited run change neither memory nor conditions.
update_state(left) ==
  /\ reg' = WriteBack(reg)
  /\ mem' = IF store.write /\ AheadMem < left THEN SetWord(mem, store.addr, store.data) ELSE mem
  /\ cc' = IF AheadEx < left THEN cc_in ELSE cc

\* The stages, in the order in which they need each other's results.
Stages ==
  /\ nextD' = do_if(f_pc(F', M', W'))
  /\ nextF' = Predicted(nextD')
  /\ nextW' = do_mem(M', mem')
  /\ store' = [write |-> mem_write(M'), addr |-> mem_addr(M'), data |-> M'.valA]
  /\ nextM' = do_ex(E', cond_holds(cc', E'.ifun))
  /\ cc_in' = IF set_cc(E', nextW'.status, W')
              THEN compute_cc(alufun(E'), aluA(E'), aluB(E')) ELSE cc_in
  /\ nextE' = do_id(D', reg', nextM', M', nextW', W')
  /\ wb' = [dstE |-> W'.dstE, valE |-> W'.valE, dstM |-> W'.dstM, valM |-> W'.valM]
  /\ status' = IF W'.status = "BUB" THEN "AOK" ELSE W'.status
  /\ op' = do_stall_check(D', E', M', W', nextM'.Cnd, nextW'.status)

\* sim_step_pipe, when left more instructions may complete.
sim_step_pipe(left) ==
  /\ update_state(left)
  /\ update_pipes
  /\ Stages
  /\ UNCHANGED code

\* sim_run_pipe, far from its limits: 10000 instructions and five cycles each.
Running == status = "AOK"
FarFromLimit == 3
Cycle == Running /\ sim_step_pipe(FarFromLimit)

Next == Cycle
Spec == Init /\ [][Next]_vars /\ WF_vars(Cycle)
=============================================================================
