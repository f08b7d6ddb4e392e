-------------------------- MODULE SimulatorProofs --------------------------
(***************************************************************************)
(* Proofs about the simulators, for words, memories and register files of   *)
(* any size and every program that lies in memory, and about the assembler,  *)
(* for every source.                                                         *)
(***************************************************************************)
EXTENDS Simulators, NatSets, FiniteSetTheorems, SequenceTheorems

RegFile == [Reg -> Word]
Memory == [Addr -> Word]

-----------------------------------------------------------------------------
\* What the assumptions on the constants say of sizes.
LEMMA Sizes ==
  /\ WORD \in Nat /\ WORD >= 1 /\ WORD < Half /\ Half \in Nat /\ Half >= 1 /\ MemLen \in Nat
  /\ RSP \in Reg /\ RNONE \notin Reg /\ 0 \in Word /\ RSP # RNONE
BY Y86Assumption DEF Word

\* Wrap makes words, and leaves words as they are.
LEMMA WrapIs ==
  /\ \A n \in Int : Wrap(n) \in Word
  /\ \A n \in Word : Wrap(n) = n
<1>1. Half \in Nat /\ Half >= 1
  BY Sizes
<1>2. ASSUME NEW n \in Int PROVE Wrap(n) \in Word
  <2>1. (n + Half) % (2 * Half) \in 0 .. 2 * Half - 1
    BY <1>1
  <2> QED
    BY <1>1, <2>1 DEF Wrap, Word
<1>3. ASSUME NEW n \in Word PROVE Wrap(n) = n
  <2>1. n + Half \in 0 .. 2 * Half - 1
    BY <1>1 DEF Word
  <2>2. (n + Half) % (2 * Half) = n + Half
    BY <1>1, <2>1
  <2> QED
    BY <1>1, <2>2 DEF Wrap, Word
<1> QED
  BY <1>2, <1>3

\* The operators of Y86 and Hcl are the same in each machine.
LEMMA SsimMemory ==
  /\ \A p : Ssim!ByteOk(p) = ByteOk(p) /\ Ssim!WordOk(p) = WordOk(p)
  /\ \A i, p : Ssim!NextPc(i, p) = NextPc(i, p) /\ Ssim!ValcAt(i, p) = ValcAt(i, p)
  /\ \A prog, p : Ssim!CodeAt(prog, p) = CodeAt(prog, p)
  /\ \A m, p, v : Ssim!SetWord(m, p, v) = SetWord(m, p, v)
  /\ \A r, id : Ssim!GetReg(r, id) = GetReg(r, id)
  /\ \A r, id, v : Ssim!SetReg(r, id, v) = SetReg(r, id, v)
  /\ Ssim!NopInstr = NopInstr /\ Ssim!KnownCode = KnownCode
BY DEF Ssim!ByteOk, ByteOk, Ssim!WordOk, WordOk, Ssim!NextPc, NextPc, Ssim!ValcAt, ValcAt,
       Ssim!CodeAt, CodeAt, Ssim!HaltInstr, HaltInstr, Ssim!SetWord, SetWord,
       Ssim!GetReg, GetReg, Ssim!SetReg, SetReg, Ssim!NopInstr, NopInstr,
       Ssim!NeedRegids, NeedRegids, Ssim!NeedValC, NeedValC, Ssim!KnownCode, KnownCode

\* The ALU and the conditions are the same in ssim.
LEMMA SsimAlu ==
  /\ \A o, a, b : Ssim!compute_alu(o, a, b) = compute_alu(o, a, b)
  /\ \A o, a, b : Ssim!compute_cc(o, a, b) = compute_cc(o, a, b)
  /\ \A f, c : Ssim!cond_holds(f, c) = cond_holds(f, c)
<1>1. \A o, a, b : Ssim!compute_alu(o, a, b) = compute_alu(o, a, b)
  BY DEF Ssim!compute_alu, compute_alu, Ssim!OfBits, OfBits, Ssim!Wrap, Wrap, Ssim!Bit, Bit,
         Ssim!MapThenSumSet, MapThenSumSet, Ssim!MapThenFoldSet, MapThenFoldSet
<1>2. \A o, a, b : Ssim!compute_cc(o, a, b) = compute_cc(o, a, b)
  <2>1. \A o, a, b, v : Ssim!Overflow(o, a, b, v) = Overflow(o, a, b, v)
    BY Zenon DEF Ssim!Overflow, Overflow
  <2>2. \A o, a, b, v : Ssim!CcOf(o, a, b, v) = CcOf(o, a, b, v)
    BY <2>1, Zenon DEF Ssim!CcOf, CcOf
  <2> QED
    BY <1>1, <2>2, Zenon DEF Ssim!compute_cc, compute_cc
<1>3. \A f, c : Ssim!cond_holds(f, c) = cond_holds(f, c)
  BY DEF Ssim!cond_holds, cond_holds
<1> QED
  BY <1>1, <1>2, <1>3

\* The signals of the HCL files are the same in ssim.
LEMMA SsimSignals ==
  ASSUME NEW d
  PROVE  /\ Ssim!srcA(d) = srcA(d) /\ Ssim!srcB(d) = srcB(d)
         /\ Ssim!dstE(d) = dstE(d) /\ Ssim!dstM(d) = dstM(d)
         /\ Ssim!aluA(d) = aluA(d) /\ Ssim!aluB(d) = aluB(d) /\ Ssim!alufun(d) = alufun(d)
         /\ Ssim!mem_read(d) = mem_read(d) /\ Ssim!mem_write(d) = mem_write(d)
         /\ Ssim!mem_addr(d) = mem_addr(d)
BY DEF Ssim!srcA, srcA, Ssim!srcB, srcB, Ssim!dstE, dstE, Ssim!dstM, dstM, Ssim!aluA, aluA,
       Ssim!aluB, aluB, Ssim!alufun, alufun, Ssim!mem_read, mem_read, Ssim!mem_write, mem_write,
       Ssim!mem_addr, mem_addr

\* The instruction set that ssim implements is that of Y86.
LEMMA IsaIs ==
  \A s, prog : SeqProgram!step_state(s, prog) = step_state(s, prog)
<1>1. \A i, p : SeqProgram!NextPc(i, p) = NextPc(i, p)
  BY DEF SeqProgram!NextPc, NextPc, SeqProgram!ValcAt, ValcAt, SeqProgram!NeedRegids, NeedRegids,
         SeqProgram!NeedValC, NeedValC
<1>2. \A prog, p : SeqProgram!CodeAt(prog, p) = CodeAt(prog, p)
  BY DEF SeqProgram!CodeAt, CodeAt, SeqProgram!HaltInstr, HaltInstr
<1>3. \A i, p : SeqProgram!RefusedAs(p, i) = RefusedAs(p, i)
  BY DEF SeqProgram!RefusedAs, RefusedAs, SeqProgram!ByteOk, ByteOk, SeqProgram!WordOk, WordOk,
         SeqProgram!RegidsAt, RegidsAt, SeqProgram!ValcAt, ValcAt, SeqProgram!NeedRegids, NeedRegids,
         SeqProgram!NeedValC, NeedValC, SeqProgram!KnownCode, KnownCode,
         SeqProgram!NamesRegisters, NamesRegisters
<1>4. \A o, a, b : SeqProgram!compute_alu(o, a, b) = compute_alu(o, a, b)
  BY DEF SeqProgram!compute_alu, compute_alu, SeqProgram!OfBits, OfBits, SeqProgram!Wrap, Wrap,
         SeqProgram!Bit, Bit, SeqProgram!MapThenSumSet, MapThenSumSet,
         SeqProgram!MapThenFoldSet, MapThenFoldSet
<1>5. \A o, a, b : SeqProgram!compute_cc(o, a, b) = compute_cc(o, a, b)
  <2>1. \A o, a, b, v : SeqProgram!Overflow(o, a, b, v) = Overflow(o, a, b, v)
    BY Zenon DEF SeqProgram!Overflow, Overflow
  <2>2. \A o, a, b, v : SeqProgram!CcOf(o, a, b, v) = CcOf(o, a, b, v)
    BY <2>1, Zenon DEF SeqProgram!CcOf, CcOf
  <2> QED
    BY <1>4, <2>2, Zenon DEF SeqProgram!compute_cc, compute_cc
<1>6. \A f, c : SeqProgram!cond_holds(f, c) = cond_holds(f, c)
  BY DEF SeqProgram!cond_holds, cond_holds
<1>7. /\ \A r, id : SeqProgram!GetReg(r, id) = GetReg(r, id)
      /\ \A r, id, v : SeqProgram!SetReg(r, id, v) = SetReg(r, id, v)
      /\ \A m, p, v : SeqProgram!SetWord(m, p, v) = SetWord(m, p, v)
      /\ \A p : SeqProgram!WordOk(p) = WordOk(p) /\ SeqProgram!Wrap(p) = Wrap(p)
  BY DEF SeqProgram!GetReg, GetReg, SeqProgram!SetReg, SetReg, SeqProgram!SetWord, SetWord,
         SeqProgram!WordOk, WordOk, SeqProgram!Wrap, Wrap
<1>8. /\ \A p, r, m, f, t : SeqProgram!Result(p, r, m, f, t) = Result(p, r, m, f, t)
      /\ \A s, r : SeqProgram!Fault(s, r) = Fault(s, r)
  BY DEF SeqProgram!Result, Result, SeqProgram!Fault, Fault
<1>9. \A s, i, n : SeqProgram!Execute(s, i, n) = Execute(s, i, n)
  <2> TAKE s, i, n
  <2>1. SeqProgram!Popped(s.r) = Popped(s.r)
    BY <1>7 DEF SeqProgram!Popped, Popped
  <2>2. SeqProgram!Ret(s) = Ret(s)
    BY <1>7, <1>8, <2>1 DEF SeqProgram!Ret, Ret
  <2>3. SeqProgram!Pop(s, i, n) = Pop(s, i, n)
    BY <1>7, <1>8, <2>1 DEF SeqProgram!Pop, Pop
  <2>4. \A p, v, r, k : SeqProgram!Store(s, p, v, r, k) = Store(s, p, v, r, k)
    BY <1>7, <1>8 DEF SeqProgram!Store, Store
  <2>5. \A v, k : SeqProgram!Push(s, v, k) = Push(s, v, k)
    BY <1>7, <2>4 DEF SeqProgram!Push, Push
  <2>6. \A p, k : SeqProgram!Load(s, i, p, k) = Load(s, i, p, k)
    BY <1>7, <1>8 DEF SeqProgram!Load, Load
  <2>7. \A o, a, b, id, k : SeqProgram!Arith(s, o, a, b, id, k) = Arith(s, o, a, b, id, k)
    BY <1>4, <1>5, <1>7, <1>8 DEF SeqProgram!Arith, Arith
  <2> QED
    BY <1>6, <1>7, <1>8, <2>2, <2>3, <2>4, <2>5, <2>6, <2>7 DEF SeqProgram!Execute, Execute
<1>10. \A s, i : SeqProgram!StepInstr(s, i) = StepInstr(s, i)
  BY <1>1, <1>3, <1>8, <1>9 DEF SeqProgram!StepInstr, StepInstr
<1> QED
  BY <1>2, <1>10 DEF SeqProgram!step_state, step_state

\* The bytes of an instruction in memory are in memory.
LEMMA WholeIs ==
  ASSUME NEW i, NEW p \in Int, WellPlaced(i, p)
  PROVE  /\ ByteOk(p) /\ i \in Instr
         /\ NeedRegids(i.icode) => ByteOk(RegidsAt(p))
         /\ NeedValC(i.icode) => WordOk(ValcAt(i.icode, p))
<1>1. ByteOk(p) /\ i \in Instr
  BY Sizes DEF WellPlaced, Addr, ByteOk
<1>2. NeedRegids(i.icode) => ByteOk(RegidsAt(p))
  <2>1. NextPc(i.icode, p) <= MemLen
    BY DEF WellPlaced
  <2>2. NeedRegids(i.icode) => NextPc(i.icode, p) >= p + 2
    BY Sizes DEF NextPc, ValcAt
  <2>3. p >= 0
    BY <1>1 DEF ByteOk
  <2> QED
    BY <2>1, <2>2, <2>3, Sizes DEF ByteOk, RegidsAt, NextPc, ValcAt
<1>3. NeedValC(i.icode) => WordOk(ValcAt(i.icode, p))
  BY <1>1, Sizes DEF WellPlaced, NextPc, ValcAt, WordOk, ByteOk
<1> QED
  BY <1>1, <1>2, <1>3

\* An instruction in memory, as it is fetched.
LEMMA FetchIs ==
  ASSUME NEW i, NEW p \in Int, WellPlaced(i, p)
  PROVE  LET d == Ssim!Fetch(i, p)
         IN  /\ d.icode = i.icode /\ d.ifun = i.ifun /\ d.valP = NextPc(i.icode, p)
             /\ NeedRegids(i.icode) => d.rA = i.rA /\ d.rB = i.rB
             /\ NeedValC(i.icode) => d.valC = i.valC
             /\ ByteOk(p) /\ d.valP \in Int /\ (i.icode = "CALL" => d.valP \in Word)
             /\ RefusedAs(p, i) = IF i.icode = "HALT" THEN "HLT"
                                  ELSE IF i.icode \notin KnownCode THEN "INS" ELSE "AOK"
<1>1. ByteOk(p) /\ i \in Instr
  BY WholeIs
<1>2. NeedRegids(i.icode) => ByteOk(RegidsAt(p))
  BY WholeIs
<1>3. NeedValC(i.icode) => WordOk(ValcAt(i.icode, p))
  BY WholeIs
<1>4. /\ NamesRegisters(i) /\ NextPc(i.icode, p) \in Int
      /\ i.icode = "CALL" => NextPc(i.icode, p) \in Word
  BY Sizes DEF WellPlaced, NextPc, ValcAt
<1>5. RefusedAs(p, i) = IF i.icode = "HALT" THEN "HLT"
                        ELSE IF i.icode \notin KnownCode THEN "INS" ELSE "AOK"
  BY <1>1, <1>2, <1>3, <1>4 DEF RefusedAs, KnownCode
<1>6. Ssim!RegidsAt(p) = RegidsAt(p)
  BY DEF Ssim!RegidsAt, RegidsAt
<1> QED
  BY <1>1, <1>2, <1>3, <1>4, <1>5, <1>6, SsimMemory DEF Ssim!Fetch

-----------------------------------------------------------------------------
(***************************************************************************)
(* ssim on one instruction.                                                 *)
(***************************************************************************)

\* The instruction i at p, decoded, and what comes of it in the state s.
Decoded(i, p, s) ==
  Ssim!Decode(Ssim!Fetch(i, p), s.r, Ssim!cond_holds(s.cc, Ssim!Fetch(i, p).ifun))

State(p, r, m, f) == [pc |-> p, r |-> r, m |-> m, cc |-> f]
IsState(s) ==
  /\ s = State(s.pc, s.r, s.m, s.cc)
  /\ s.pc \in Int /\ s.r \in RegFile /\ s.m \in Memory

\* t is what ssim makes of the state s by the decoded instruction x.
Does(x, s, t) ==
  LET a == Ssim!Access(x)
      v == Ssim!ValM(a, s.m)
  IN  /\ t.stat = Ssim!StatOf(x, a, s.pc) /\ t.stat \in Stat
      /\ t.stat = "AOK" =>
           /\ t.pc = Ssim!new_pc(x, v)
           /\ t.r = SetReg(SetReg(s.r, x.dstE, a.valE), x.dstM, v)
           /\ t.m = IF mem_write(a) THEN SetWord(s.m, mem_addr(a), Ssim!mem_data(x)) ELSE s.m
           /\ t.cc = IF x.icode \in {"OPQ", "IADDQ"}
                     THEN compute_cc(alufun(x), aluA(x), aluB(x)) ELSE s.cc
      /\ t.stat # "AOK" => t.pc = s.pc /\ t.m = s.m /\ t.cc = s.cc
      /\ t.stat \notin {"AOK", "ADR"} => t.r = s.r

\* What it keeps for the next step has its type.
Keeps(x, s) ==
  LET a == Ssim!Access(x)
      v == Ssim!ValM(a, s.m)
  IN  /\ {x.dstE, x.dstM} \subseteq Reg \cup {RNONE}
      /\ {a.valE, v, Ssim!mem_data(x)} \subseteq Word
      /\ mem_addr(a) \in Int /\ Ssim!new_pc(x, v) \in Int

LEMMA DecodedIs ==
  ASSUME NEW i, NEW s, IsState(s), WellPlaced(i, s.pc)
  PROVE  LET x == Decoded(i, s.pc, s)
             a == Ssim!Access(x)
         IN  /\ x.icode = i.icode /\ x.ifun = i.ifun /\ x.valP = NextPc(i.icode, s.pc)
             /\ x.valP \in Int /\ (i.icode = "CALL" => x.valP \in Word)
             /\ NeedValC(i.icode) => x.valC = i.valC
             /\ x.Cnd = cond_holds(s.cc, i.ifun)
             /\ x.valA = GetReg(s.r, srcA(i)) /\ x.valB = GetReg(s.r, srcB(i))
             /\ x.dstE = IF i.icode = "RRMOVQ" /\ ~x.Cnd THEN RNONE ELSE dstE(i)
             /\ x.dstM = dstM(i)
             /\ a.icode = i.icode /\ a.valA = x.valA
             /\ a.valE = compute_alu(alufun(x), aluA(x), aluB(x))
             /\ ByteOk(s.pc)
<1> DEFINE d == Ssim!Fetch(i, s.pc)
<1>1. /\ d.icode = i.icode /\ d.ifun = i.ifun /\ d.valP = NextPc(i.icode, s.pc)
      /\ NeedValC(i.icode) => d.valC = i.valC
      /\ ByteOk(s.pc) /\ d.valP \in Int /\ (i.icode = "CALL" => d.valP \in Word)
  BY FetchIs DEF IsState
<1>2. /\ Ssim!srcA(d) = srcA(i) /\ Ssim!srcB(d) = srcB(i)
      /\ Ssim!dstE(d) = dstE(i) /\ Ssim!dstM(d) = dstM(i)
  <2>1. NeedRegids(i.icode) => d.rA = i.rA /\ d.rB = i.rB
    BY FetchIs DEF IsState
  <2>2. srcA(d) = srcA(i) /\ srcB(d) = srcB(i) /\ dstE(d) = dstE(i) /\ dstM(d) = dstM(i)
    BY <1>1, <2>1 DEF srcA, srcB, dstE, dstM, NeedRegids
  <2> QED
    BY <2>2, SsimSignals
<1> HIDE DEF d
<1> DEFINE x == Decoded(i, s.pc, s)
<1>3. x = [icode |-> d.icode, ifun |-> d.ifun, valC |-> d.valC, valP |-> d.valP,
           Cnd |-> cond_holds(s.cc, d.ifun),
           valA |-> GetReg(s.r, srcA(i)), valB |-> GetReg(s.r, srcB(i)),
           dstE |-> IF d.icode = "RRMOVQ" /\ ~cond_holds(s.cc, d.ifun) THEN RNONE ELSE dstE(i),
           dstM |-> dstM(i)]
  BY <1>2, SsimMemory, SsimAlu DEF Decoded, Ssim!Decode, d
<1>4. /\ x.icode = d.icode /\ x.ifun = d.ifun /\ x.Cnd = cond_holds(s.cc, d.ifun)
      /\ x.valC = d.valC /\ x.valP = d.valP
      /\ x.valA = GetReg(s.r, srcA(i)) /\ x.valB = GetReg(s.r, srcB(i))
      /\ x.dstE = IF d.icode = "RRMOVQ" /\ ~cond_holds(s.cc, d.ifun) THEN RNONE ELSE dstE(i)
      /\ x.dstM = dstM(i)
  BY <1>3
<1> HIDE DEF x
<1> DEFINE a == Ssim!Access(x)
<1>5. a = [icode |-> x.icode, valA |-> x.valA, valE |-> compute_alu(alufun(x), aluA(x), aluB(x))]
  BY SsimSignals, SsimAlu DEF Ssim!Access
<1>6. /\ a.icode = x.icode /\ a.valA = x.valA
      /\ a.valE = compute_alu(alufun(x), aluA(x), aluB(x))
  BY <1>5
<1> HIDE DEF a
<1>7. /\ x.icode = i.icode /\ x.ifun = i.ifun /\ x.valP = NextPc(i.icode, s.pc)
      /\ x.valP \in Int /\ (i.icode = "CALL" => x.valP \in Word)
      /\ NeedValC(i.icode) => x.valC = i.valC
      /\ x.Cnd = cond_holds(s.cc, i.ifun)
      /\ x.valA = GetReg(s.r, srcA(i)) /\ x.valB = GetReg(s.r, srcB(i))
      /\ x.dstE = IF i.icode = "RRMOVQ" /\ ~x.Cnd THEN RNONE ELSE dstE(i)
      /\ x.dstM = dstM(i)
  BY <1>1, <1>4
<1> QED
  BY <1>1, <1>6, <1>7 DEF d, x, a

\* The fold that OfBits is defined by: f is right on the subsets of S up to size n.
SumOn(S, n) == {s \in SUBSET S : Cardinality(s) <= n}
Some(s) == CHOOSE k \in s : TRUE
IsSum(f, C) == f = [s \in C |-> IF s = {} THEN 0 ELSE 2 ^ Some(s) + f[s \ {Some(s)}]]

LEMMA SmallerSet ==
  ASSUME NEW S, IsFiniteSet(S), NEW n \in Nat, NEW s \in SumOn(S, n), s # {}
  PROVE  /\ Some(s) \in s /\ n # 0 /\ s \ {Some(s)} \in SumOn(S, n - 1)
         /\ Cardinality(s) \in Nat /\ Cardinality(s \ {Some(s)}) = Cardinality(s) - 1
<1>1. Some(s) \in s
  BY DEF Some
<1>2. IsFiniteSet(s) /\ Cardinality(s) \in Nat
  BY FS_Subset, FS_CardinalityType DEF SumOn
<1>3. Cardinality(s \ {Some(s)}) = Cardinality(s) - 1
  BY <1>1, <1>2, FS_RemoveElement
<1>4. Cardinality(s) <= n /\ Cardinality(s) # 0
  BY <1>2, FS_EmptySet DEF SumOn
<1>5. s \ {Some(s)} \in SUBSET S
  BY DEF SumOn
<1> QED
  BY <1>1, <1>2, <1>3, <1>4, <1>5 DEF SumOn

\* The fold is defined for sets of every size.
LEMMA SumExists ==
  ASSUME NEW S, IsFiniteSet(S), NEW N \in Nat
  PROVE  \E f : IsSum(f, SumOn(S, N))
<1> DEFINE Wrong == {n \in 0 .. N : ~ \E f : IsSum(f, SumOn(S, n))}
<1> SUFFICES ASSUME Wrong # {} PROVE FALSE
  OBVIOUS
<1>1. PICK n \in Wrong : \A j \in Wrong : n <= j
  <2>1. Wrong \subseteq Nat
    OBVIOUS
  <2> QED
    BY <2>1, MinOfNats
<1>2. n \in Nat /\ n - 1 \notin Wrong
  BY <1>1
<1> DEFINE C == SumOn(S, n)
<1>3. CASE n = 0
  <2> DEFINE f == [s \in C |-> 0]
  <2>1. \A s \in C : s = {}
    BY <1>2, <1>3, SmallerSet
  <2>2. f = [s \in C |-> IF s = {} THEN 0 ELSE 2 ^ Some(s) + f[s \ {Some(s)}]]
    BY <2>1
  <2> HIDE DEF f
  <2> QED
    BY <1>1, <2>2 DEF IsSum
<1>4. CASE n # 0
  <2>1. PICK g : IsSum(g, SumOn(S, n - 1))
    BY <1>1, <1>2, <1>4
  <2> DEFINE f == [s \in C |-> IF s = {} THEN 0 ELSE 2 ^ Some(s) + g[s \ {Some(s)}]]
  <2>2. ASSUME NEW s \in SumOn(S, n - 1) PROVE s \in C /\ f[s] = g[s]
    <3>1. s \in C
      BY <1>2, <1>4, FS_Subset, FS_CardinalityType DEF SumOn
    <3>2. g[s] = IF s = {} THEN 0 ELSE 2 ^ Some(s) + g[s \ {Some(s)}]
      BY <2>1, Zenon DEF IsSum
    <3> QED
      BY <3>1, <3>2
  <2>3. ASSUME NEW s \in C
        PROVE  f[s] = IF s = {} THEN 0 ELSE 2 ^ Some(s) + f[s \ {Some(s)}]
    <3>1. CASE s = {}
      BY <3>1
    <3>2. CASE s # {}
      <4>1. f[s \ {Some(s)}] = g[s \ {Some(s)}]
        BY <1>2, <2>2, <3>2, SmallerSet
      <4> QED
        BY <3>2, <4>1
    <3> QED
      BY <3>1, <3>2
  <2>4. f = [s \in C |-> f[s]]
    OBVIOUS
  <2> HIDE DEF f
  <2>5. IsSum(f, C)
    BY <2>3, <2>4, Zenon DEF IsSum
  <2> QED
    BY <1>1, <2>5
<1> QED
  BY <1>3, <1>4

\* A sum of powers of two is an integer.
LEMMA SumIsInt ==
  ASSUME NEW S, S \subseteq Nat, IsFiniteSet(S)
  PROVE  MapThenSumSet(LAMBDA k : 2 ^ k, S) \in Int
<1> DEFINE f == CHOOSE f : f = [s \in SUBSET S |->
                              IF s = {} THEN 0
                              ELSE 2 ^ (CHOOSE k \in s : TRUE) + f[s \ {CHOOSE k \in s : TRUE}]]
           N == Cardinality(S)
<1>1. MapThenSumSet(LAMBDA k : 2 ^ k, S) = f[S]
  BY DEF MapThenSumSet, MapThenFoldSet
<1>2. N \in Nat /\ SUBSET S = SumOn(S, N)
  BY FS_CardinalityType, FS_Subset DEF SumOn
<1>3. IsSum(f, SUBSET S)
  <2> HIDE DEF f, N
  <2>0. \E g : IsSum(g, SumOn(S, N))
    BY <1>2, SumExists
  <2>1. PICK g : IsSum(g, SUBSET S)
    BY <1>2, <2>0
  <2> USE DEF f
  <2>2. g = [s \in SUBSET S |->
               IF s = {} THEN 0
               ELSE 2 ^ (CHOOSE k \in s : TRUE) + g[s \ {CHOOSE k \in s : TRUE}]]
    BY <2>1, Zenon DEF IsSum, Some
  <2>3. f = [s \in SUBSET S |->
               IF s = {} THEN 0
               ELSE 2 ^ (CHOOSE k \in s : TRUE) + f[s \ {CHOOSE k \in s : TRUE}]]
    BY <2>2, Zenon
  <2> HIDE DEF f
  <2> QED
    BY <2>3, Zenon DEF IsSum, Some
<1> HIDE DEF f
<1> DEFINE Wrong == {n \in 0 .. N : \E s \in SumOn(S, n) : f[s] \notin Int}
<1>4. Wrong = {}
  <2> SUFFICES ASSUME Wrong # {} PROVE FALSE
    OBVIOUS
  <2>1. PICK n \in Wrong : \A j \in Wrong : n <= j
    <3>1. Wrong \subseteq Nat
      BY <1>2
    <3> QED
      BY <3>1, MinOfNats
  <2>2. PICK s \in SumOn(S, n) : f[s] \notin Int
    BY <2>1
  <2>3. f[s] = IF s = {} THEN 0 ELSE 2 ^ Some(s) + f[s \ {Some(s)}]
    <3>1. s \in SUBSET S
      BY DEF SumOn
    <3> QED
      BY <1>3, <3>1, Zenon DEF IsSum
  <2>4. s # {}
    BY <2>2, <2>3
  <2>0. n \in Nat /\ n <= N
    BY <1>2, <2>1
  <2> HIDE DEF N, Wrong
  <2>5. Some(s) \in s /\ n # 0 /\ s \ {Some(s)} \in SumOn(S, n - 1)
    BY <2>0, <2>2, <2>4, SmallerSet
  <2>6. f[s \ {Some(s)}] \in Int
    <3>1. n - 1 \in 0 .. N /\ n - 1 \notin Wrong
      BY <1>2, <2>0, <2>1, <2>5
    <3> QED
      BY <2>5, <3>1 DEF Wrong
  <2>7. 2 ^ Some(s) \in Int
    <3>1. Some(s) \in Nat
      BY <2>5 DEF SumOn
    <3> HIDE DEF Wrong
    <3> DEFINE k == Some(s)
    <3> HIDE DEF k
    <3> QED
      BY <3>1 DEF k
  <2> QED
    BY <2>2, <2>3, <2>4, <2>6, <2>7
<1>5. N \in 0 .. N /\ N \notin Wrong /\ S \in SumOn(S, N)
  <2>1. S \in SUBSET S
    OBVIOUS
  <2> QED
    BY <1>2, <1>4, <2>1
<1>6. f[S] \in Int
  BY <1>5
<1> QED
  BY <1>1, <1>6

\* A word can be put together from any bits.
LEMMA OfBitsTyped ==
  ASSUME NEW S, S \subseteq 0 .. BITS - 1
  PROVE  OfBits(S) \in Word
<1>1. BITS \in Nat
  BY Y86Assumption
<1>2. S \subseteq Nat /\ IsFiniteSet(S)
  <2>1. IsFiniteSet(0 .. BITS - 1) /\ 0 .. BITS - 1 \subseteq Nat
    BY <1>1, FS_Interval
  <2> QED
    BY <2>1, FS_Subset
<1>3. MapThenSumSet(LAMBDA k : 2 ^ k, S) \in Int
  BY <1>2, SumIsInt
<1> DEFINE n == MapThenSumSet(LAMBDA k : 2 ^ k, S)
<1>4. OfBits(S) = Wrap(n)
  BY DEF OfBits
<1> HIDE DEF n
<1> QED
  BY <1>3, <1>4, WrapIs DEF n

\* The ALU makes words out of words.
LEMMA AluTyped ==
  ASSUME NEW a \in Word, NEW b \in Word, NEW o
  PROVE  compute_alu(o, a, b) \in Word
<1>1. a + b \in Int /\ b - a \in Int
  BY Sizes DEF Word
<1>2. Wrap(a + b) \in Word /\ Wrap(b - a) \in Word /\ 0 \in Word
  BY <1>1, WrapIs, Sizes
<1>3. \A S : S \subseteq 0 .. BITS - 1 => OfBits(S) \in Word
  BY OfBitsTyped
<1>4. OfBits({i \in 0 .. BITS - 1 : Bit(a, i) = 1 /\ Bit(b, i) = 1}) \in Word
  BY <1>3
<1>5. OfBits({i \in 0 .. BITS - 1 : Bit(a, i) # Bit(b, i)}) \in Word
  BY <1>3
<1> QED
  BY <1>2, <1>4, <1>5 DEF compute_alu

LEMMA AddIs == \A a, b : compute_alu("ADD", a, b) = Wrap(a + b)
BY DEF compute_alu

\* step_state refuses halt and unknown codes and executes the others.
LEMMA StepIs ==
  ASSUME NEW i, NEW s, IsState(s), WellPlaced(i, s.pc)
  PROVE  StepInstr(s, i) =
           IF i.icode = "HALT" THEN Result(s.pc, s.r, s.m, s.cc, "HLT")
           ELSE IF i.icode \notin KnownCode THEN Result(s.pc, s.r, s.m, s.cc, "INS")
           ELSE Execute(s, i, NextPc(i.icode, s.pc))
BY FetchIs DEF StepInstr, IsState

\* Writing a word to a register makes a register file.
LEMMA RegsTyped ==
  ASSUME NEW r \in RegFile
  PROVE  /\ \A id \in Reg \cup {RNONE} : GetReg(r, id) \in Word
         /\ \A id \in Reg : GetReg(r, id) = r[id] /\ r[id] \in Word
         /\ \A id \in Reg \cup {RNONE}, v \in Word : SetReg(r, id, v) \in RegFile
         /\ \A v : SetReg(r, RNONE, v) = r
BY Sizes DEF GetReg, SetReg, RegFile

\* Writing to no register does nothing.
LEMMA NoneIs == \A r, v : SetReg(r, RNONE, v) = r
BY DEF SetReg

\* The registers of an instruction are registers, or none.
LEMMA InstrIs ==
  ASSUME NEW i, NEW a, WellPlaced(i, a)
  PROVE  /\ i.icode \in KnownCode \cup {"BAD"} /\ i.rA \in Reg \cup {RNONE}
         /\ i.rB \in Reg \cup {RNONE} /\ i.valC \in Word
         /\ NamesRegisters(i)
BY DEF WellPlaced, Instr

LEMMA WordIsInt == Word \subseteq Int
BY Sizes DEF Word

LEMMA LoadIs ==
  ASSUME NEW m \in Memory, NEW p \in Int, WordOk(p)
  PROVE  p \in Addr /\ m[p] \in Word
<1>1. p \in Addr
  BY Sizes DEF WordOk, Addr
<1> QED
  BY <1>1 DEF Memory

\* Operands, results and addresses are words, destinations are registers.
LEMMA DecodedTyped ==
  ASSUME NEW i, NEW s, IsState(s), WellPlaced(i, s.pc)
  PROVE  LET x == Decoded(i, s.pc, s)
         IN  Keeps(x, s) /\ x.valA \in Word /\ x.valB \in Word
<1> DEFINE x == Decoded(i, s.pc, s)
           a == Ssim!Access(x)
           v == Ssim!ValM(a, s.m)
<1>1. /\ x.icode = i.icode /\ x.valP \in Int /\ (i.icode = "CALL" => x.valP \in Word)
      /\ NeedValC(i.icode) => x.valC = i.valC
      /\ x.valA = GetReg(s.r, srcA(i)) /\ x.valB = GetReg(s.r, srcB(i))
      /\ x.dstE = IF i.icode = "RRMOVQ" /\ ~x.Cnd THEN RNONE ELSE dstE(i)
      /\ x.dstM = dstM(i)
      /\ a.icode = i.icode /\ a.valA = x.valA
      /\ a.valE = compute_alu(alufun(x), aluA(x), aluB(x))
  BY DecodedIs
<1> HIDE DEF x, a
<1>2. i.rA \in Reg \cup {RNONE} /\ i.rB \in Reg \cup {RNONE} /\ i.valC \in Word
  BY InstrIs
<1>3. {srcA(i), srcB(i), dstE(i), dstM(i), RNONE} \subseteq Reg \cup {RNONE}
  BY <1>2, Sizes DEF srcA, srcB, dstE, dstM
<1>4. x.valA \in Word /\ x.valB \in Word
  BY <1>1, <1>3, RegsTyped DEF IsState
<1>5. aluA(x) \in Word /\ aluB(x) \in Word
  <2>1. WORD \in Word /\ -WORD \in Word /\ 0 \in Word
    BY Sizes DEF Word
  <2>2. NeedValC(i.icode) => x.valC \in Word
    BY <1>1, <1>2
  <2> QED
    BY <1>1, <1>4, <2>1, <2>2 DEF aluA, aluB, NeedValC
<1>6. a.valE \in Word
  BY <1>1, <1>5, AluTyped
<1>7. mem_addr(a) \in Word /\ Ssim!mem_data(x) \in Word
  BY <1>1, <1>4, <1>6, Sizes DEF mem_addr, Ssim!mem_data
<1>8. v \in Word
  <2>1. Ssim!mem_addr(a) = mem_addr(a)
    BY SsimSignals
  <2> QED
    BY <1>7, <2>1, LoadIs, SsimMemory, WordIsInt, Sizes DEF IsState, Ssim!ValM
<1>9. Ssim!new_pc(x, v) \in Int
  BY <1>1, <1>2, <1>8, WordIsInt DEF Ssim!new_pc, NeedValC
<1> HIDE DEF v
<1>10. /\ {x.dstE, x.dstM} \subseteq Reg \cup {RNONE}
       /\ {a.valE, v, Ssim!mem_data(x)} \subseteq Word
       /\ mem_addr(a) \in Int /\ Ssim!new_pc(x, v) \in Int
  <2>1. x.dstE \in Reg \cup {RNONE} /\ x.dstM \in Reg \cup {RNONE}
    BY <1>1, <1>3
  <2>2. mem_addr(a) \in Int /\ Ssim!new_pc(x, v) \in Int
    BY <1>7, <1>9, WordIsInt
  <2> QED
    BY <1>6, <1>7, <1>8, <2>1, <2>2
<1>11. Keeps(x, s)
  BY <1>10 DEF Keeps, a, v
<1> QED
  BY <1>4, <1>11 DEF x

\* ssim does t if t is what the signals say, or a fault if they ask for a bad address.
LEMMA DoesFrom ==
  ASSUME NEW i, NEW s, IsState(s), WellPlaced(i, s.pc), i.icode \in KnownCode \ {"HALT"},
         LET x  == Decoded(i, s.pc, s)
             a  == Ssim!Access(x)
             q  == mem_addr(a)
             v  == IF mem_read(a) /\ WordOk(q) THEN s.m[q] ELSE 0
             t  == Execute(s, i, x.valP)
         IN  IF (mem_read(a) \/ mem_write(a)) /\ ~WordOk(q) THEN \E r : t = Fault(s, r)
             ELSE t = Result(Ssim!new_pc(x, v),
                      SetReg(SetReg(s.r, x.dstE, a.valE), x.dstM, v),
                      IF mem_write(a) THEN SetWord(s.m, q, Ssim!mem_data(x)) ELSE s.m,
                      IF x.icode \in {"OPQ", "IADDQ"}
                      THEN compute_cc(alufun(x), aluA(x), aluB(x)) ELSE s.cc, "AOK")
  PROVE  Does(Decoded(i, s.pc, s), s, StepInstr(s, i))
<1> DEFINE x  == Decoded(i, s.pc, s)
           a  == Ssim!Access(x)
           q  == mem_addr(a)
           v  == IF mem_read(a) /\ WordOk(q) THEN s.m[q] ELSE 0
           t  == Execute(s, i, x.valP)
<1>1. t = StepInstr(s, i) /\ x.icode = i.icode /\ a.icode = i.icode /\ ByteOk(s.pc)
  BY DecodedIs, StepIs
<1> HIDE DEF x, a, t
<1>2. /\ Ssim!mem_read(a) = mem_read(a) /\ Ssim!mem_write(a) = mem_write(a)
      /\ Ssim!mem_addr(a) = q
  BY SsimSignals
<1>3. Ssim!ValM(a, s.m) = v
  BY <1>2, SsimMemory DEF Ssim!ValM
<1>4. Ssim!StatOf(x, a, s.pc) =
        IF (mem_read(a) \/ mem_write(a)) /\ ~WordOk(q) THEN "ADR" ELSE "AOK"
  BY <1>1, <1>2, SsimMemory DEF Ssim!StatOf, Ssim!dmem_error, KnownCode
<1>5. IF (mem_read(a) \/ mem_write(a)) /\ ~WordOk(q) THEN \E r : t = Fault(s, r)
      ELSE t = Result(Ssim!new_pc(x, v),
                      SetReg(SetReg(s.r, x.dstE, a.valE), x.dstM, v),
                      IF mem_write(a) THEN SetWord(s.m, q, Ssim!mem_data(x)) ELSE s.m,
                      IF x.icode \in {"OPQ", "IADDQ"}
                      THEN compute_cc(alufun(x), aluA(x), aluB(x)) ELSE s.cc, "AOK")
  BY DEF x, a, t
<1> HIDE DEF q, v
<1>6. CASE ~((mem_read(a) \/ mem_write(a)) /\ ~WordOk(q))
  <2>1. /\ t.pc = Ssim!new_pc(x, v) /\ t.stat = "AOK"
        /\ t.r = SetReg(SetReg(s.r, x.dstE, a.valE), x.dstM, v)
        /\ t.m = IF mem_write(a) THEN SetWord(s.m, q, Ssim!mem_data(x)) ELSE s.m
        /\ t.cc = IF x.icode \in {"OPQ", "IADDQ"}
                  THEN compute_cc(alufun(x), aluA(x), aluB(x)) ELSE s.cc
    BY <1>5, <1>6 DEF Result
  <2>2. Does(x, s, t)
    BY <1>3, <1>4, <1>6, <2>1 DEF Does, Stat, a, q
  <2> QED
    BY <1>1, <2>2 DEF x
<1>7. CASE (mem_read(a) \/ mem_write(a)) /\ ~WordOk(q)
  <2>1. t.pc = s.pc /\ t.m = s.m /\ t.cc = s.cc /\ t.stat = "ADR"
    BY <1>5, <1>7 DEF Fault, Result
  <2>2. Does(x, s, t)
    BY <1>3, <1>4, <1>7, <2>1 DEF Does, Stat, a
  <2> QED
    BY <1>1, <2>2 DEF x
<1> QED
  BY <1>6, <1>7

\* mrmovq.
LEMMA DoesMrmovq ==
  ASSUME NEW i, NEW s, IsState(s), WellPlaced(i, s.pc), i.icode = "MRMOVQ"
  PROVE  Does(Decoded(i, s.pc, s), s, StepInstr(s, i))
<1> DEFINE x == Decoded(i, s.pc, s)
           a == Ssim!Access(x)
           p == Wrap(i.valC + GetReg(s.r, i.rB))
<1>1. /\ x.icode = "MRMOVQ" /\ x.valC = i.valC /\ x.valB = GetReg(s.r, i.rB)
      /\ x.dstE = RNONE /\ x.dstM = i.rA
      /\ a.icode = "MRMOVQ" /\ a.valE = compute_alu(alufun(x), aluA(x), aluB(x))
  BY DecodedIs DEF NeedValC, srcB, dstE, dstM
<1> HIDE DEF x, a
<1>2. /\ mem_read(a) /\ ~mem_write(a) /\ mem_addr(a) = p
      /\ \A v : Ssim!new_pc(x, v) = x.valP
  BY <1>1, AddIs DEF aluA, aluB, alufun, mem_read, mem_write, mem_addr, Ssim!new_pc
<1>3. Execute(s, i, x.valP) =
        IF WordOk(p) THEN Result(x.valP, SetReg(s.r, i.rA, s.m[p]), s.m, s.cc, "AOK")
        ELSE Fault(s, s.r)
  BY DEF Execute, Load
<1>4. SetReg(s.r, x.dstE, a.valE) = s.r
  BY <1>1, RegsTyped DEF IsState
<1> QED
  BY <1>1, <1>2, <1>3, <1>4, DoesFrom DEF x, a, KnownCode

\* rmmovq.
LEMMA DoesRmmovq ==
  ASSUME NEW i, NEW s, IsState(s), WellPlaced(i, s.pc), i.icode = "RMMOVQ"
  PROVE  Does(Decoded(i, s.pc, s), s, StepInstr(s, i))
<1> DEFINE x == Decoded(i, s.pc, s)
           a == Ssim!Access(x)
           p == Wrap(i.valC + GetReg(s.r, i.rB))
<1>1. /\ x.icode = "RMMOVQ" /\ x.valC = i.valC /\ x.valB = GetReg(s.r, i.rB)
      /\ x.valA = GetReg(s.r, i.rA) /\ x.dstE = RNONE /\ x.dstM = RNONE
      /\ a.icode = "RMMOVQ" /\ a.valE = compute_alu(alufun(x), aluA(x), aluB(x))
  BY DecodedIs DEF NeedValC, srcA, srcB, dstE, dstM
<1> HIDE DEF x, a
<1>2. /\ ~mem_read(a) /\ mem_write(a) /\ mem_addr(a) = p /\ Ssim!mem_data(x) = x.valA
      /\ \A v : Ssim!new_pc(x, v) = x.valP
  BY <1>1, AddIs DEF aluA, aluB, alufun, mem_read, mem_write, mem_addr, Ssim!mem_data, Ssim!new_pc
<1>3. x.valA = s.r[i.rA]
  BY <1>1, InstrIs DEF NamesRegisters, GetReg
<1>4. Execute(s, i, x.valP) =
        IF WordOk(p) THEN Result(x.valP, s.r, SetWord(s.m, p, x.valA), s.cc, "AOK")
        ELSE Fault(s, s.r)
  BY <1>3 DEF Execute, Store
<1> QED
  BY <1>1, <1>2, <1>4, NoneIs, DoesFrom DEF x, a, KnownCode

\* pushq.
LEMMA DoesPushq ==
  ASSUME NEW i, NEW s, IsState(s), WellPlaced(i, s.pc), i.icode = "PUSHQ"
  PROVE  Does(Decoded(i, s.pc, s), s, StepInstr(s, i))
<1> DEFINE x == Decoded(i, s.pc, s)
           a == Ssim!Access(x)
           p == Wrap(s.r[RSP] - WORD)
<1>1. /\ x.icode = "PUSHQ" /\ x.valB = GetReg(s.r, RSP) /\ x.valA = GetReg(s.r, i.rA)
      /\ x.dstE = RSP /\ x.dstM = RNONE
      /\ a.icode = "PUSHQ" /\ a.valE = compute_alu(alufun(x), aluA(x), aluB(x))
  BY DecodedIs DEF NeedValC, srcA, srcB, dstE, dstM
<1> HIDE DEF x, a
<1>2. x.valB = s.r[RSP] /\ -WORD + x.valB = s.r[RSP] - WORD
  <2>1. s.r[RSP] \in Int /\ GetReg(s.r, RSP) = s.r[RSP]
    BY RegsTyped, WordIsInt, Sizes DEF IsState
  <2> QED
    BY <1>1, <2>1, Sizes
<1>3. /\ ~mem_read(a) /\ mem_write(a) /\ mem_addr(a) = p /\ a.valE = p /\ Ssim!mem_data(x) = x.valA
      /\ \A v : Ssim!new_pc(x, v) = x.valP
  BY <1>1, <1>2, AddIs DEF aluA, aluB, alufun, mem_read, mem_write, mem_addr, Ssim!mem_data, Ssim!new_pc
<1>4. x.valA = s.r[i.rA]
  BY <1>1, InstrIs DEF NamesRegisters, GetReg
<1>5. Execute(s, i, x.valP) =
        IF WordOk(p) THEN Result(x.valP, SetReg(s.r, RSP, p), SetWord(s.m, p, x.valA), s.cc, "AOK")
        ELSE Fault(s, SetReg(s.r, RSP, p))
  BY <1>4 DEF Execute, Push, Store
<1> QED
  BY <1>1, <1>3, <1>5, NoneIs, DoesFrom DEF x, a, KnownCode

\* call.
LEMMA DoesCall ==
  ASSUME NEW i, NEW s, IsState(s), WellPlaced(i, s.pc), i.icode = "CALL"
  PROVE  Does(Decoded(i, s.pc, s), s, StepInstr(s, i))
<1> DEFINE x == Decoded(i, s.pc, s)
           a == Ssim!Access(x)
           p == Wrap(s.r[RSP] - WORD)
<1>1. /\ x.icode = "CALL" /\ x.valB = GetReg(s.r, RSP) /\ x.valC = i.valC
      /\ x.dstE = RSP /\ x.dstM = RNONE
      /\ a.icode = "CALL" /\ a.valE = compute_alu(alufun(x), aluA(x), aluB(x))
  BY DecodedIs DEF NeedValC, srcA, srcB, dstE, dstM
<1> HIDE DEF x, a
<1>2. x.valB = s.r[RSP] /\ -WORD + x.valB = s.r[RSP] - WORD
  <2>1. s.r[RSP] \in Int /\ GetReg(s.r, RSP) = s.r[RSP]
    BY RegsTyped, WordIsInt, Sizes DEF IsState
  <2> QED
    BY <1>1, <2>1, Sizes
<1>3. /\ ~mem_read(a) /\ mem_write(a) /\ mem_addr(a) = p /\ a.valE = p /\ Ssim!mem_data(x) = x.valP
      /\ \A v : Ssim!new_pc(x, v) = i.valC
  BY <1>1, <1>2, AddIs DEF aluA, aluB, alufun, mem_read, mem_write, mem_addr, Ssim!mem_data, Ssim!new_pc
<1>5. Execute(s, i, x.valP) =
        IF WordOk(p) THEN Result(i.valC, SetReg(s.r, RSP, p), SetWord(s.m, p, x.valP), s.cc, "AOK")
        ELSE Fault(s, SetReg(s.r, RSP, p))
  BY DEF Execute, Push, Store
<1> QED
  BY <1>1, <1>3, <1>5, NoneIs, DoesFrom DEF x, a, KnownCode

\* popq.
LEMMA DoesPopq ==
  ASSUME NEW i, NEW s, IsState(s), WellPlaced(i, s.pc), i.icode = "POPQ"
  PROVE  Does(Decoded(i, s.pc, s), s, StepInstr(s, i))
<1> DEFINE x == Decoded(i, s.pc, s)
           a == Ssim!Access(x)
           p == s.r[RSP]
<1>1. /\ x.icode = "POPQ" /\ x.valA = GetReg(s.r, RSP) /\ x.valB = GetReg(s.r, RSP)
      /\ x.dstE = RSP /\ x.dstM = i.rA
      /\ a.icode = "POPQ" /\ a.valA = x.valA /\ a.valE = compute_alu(alufun(x), aluA(x), aluB(x))
  BY DecodedIs DEF srcA, srcB, dstE, dstM
<1> HIDE DEF x, a
<1>2. x.valA = p /\ x.valB = p /\ WORD + x.valB = p + WORD
  <2>1. s.r[RSP] \in Int /\ GetReg(s.r, RSP) = s.r[RSP]
    BY RegsTyped, WordIsInt, Sizes DEF IsState
  <2> QED
    BY <1>1, <2>1, Sizes
<1>3. /\ mem_read(a) /\ ~mem_write(a) /\ mem_addr(a) = p /\ a.valE = Wrap(p + WORD)
      /\ \A v : Ssim!new_pc(x, v) = x.valP
  BY <1>1, <1>2, AddIs DEF aluA, aluB, alufun, mem_read, mem_write, mem_addr, Ssim!new_pc
<1>4. Execute(s, i, x.valP) =
        IF WordOk(p) THEN Result(x.valP, SetReg(Popped(s.r), i.rA, s.m[p]), s.m, s.cc, "AOK")
        ELSE Fault(s, Popped(s.r))
  BY DEF Execute, Pop, Popped
<1> QED
  BY <1>1, <1>3, <1>4, NoneIs, DoesFrom DEF x, a, Popped, KnownCode

\* ret.
LEMMA DoesRet ==
  ASSUME NEW i, NEW s, IsState(s), WellPlaced(i, s.pc), i.icode = "RET"
  PROVE  Does(Decoded(i, s.pc, s), s, StepInstr(s, i))
<1> DEFINE x == Decoded(i, s.pc, s)
           a == Ssim!Access(x)
           p == s.r[RSP]
<1>1. /\ x.icode = "RET" /\ x.valA = GetReg(s.r, RSP) /\ x.valB = GetReg(s.r, RSP)
      /\ x.dstE = RSP /\ x.dstM = RNONE
      /\ a.icode = "RET" /\ a.valA = x.valA /\ a.valE = compute_alu(alufun(x), aluA(x), aluB(x))
  BY DecodedIs DEF srcA, srcB, dstE, dstM
<1> HIDE DEF x, a
<1>2. x.valA = p /\ x.valB = p /\ WORD + x.valB = p + WORD
  <2>1. s.r[RSP] \in Int /\ GetReg(s.r, RSP) = s.r[RSP]
    BY RegsTyped, WordIsInt, Sizes DEF IsState
  <2> QED
    BY <1>1, <2>1, Sizes
<1>3. /\ mem_read(a) /\ ~mem_write(a) /\ mem_addr(a) = p /\ a.valE = Wrap(p + WORD)
      /\ \A v : Ssim!new_pc(x, v) = v
  BY <1>1, <1>2, AddIs DEF aluA, aluB, alufun, mem_read, mem_write, mem_addr, Ssim!new_pc
<1>4. Execute(s, i, x.valP) =
        IF WordOk(p) THEN Result(s.m[p], Popped(s.r), s.m, s.cc, "AOK")
        ELSE Fault(s, s.r)
  BY DEF Execute, Ret, Popped
<1> QED
  BY <1>1, <1>3, <1>4, NoneIs, DoesFrom DEF x, a, Popped, KnownCode

\* The instructions that do not access memory.
LEMMA DoesOthers ==
  ASSUME NEW i, NEW s, IsState(s), WellPlaced(i, s.pc),
         i.icode \in {"NOP", "RRMOVQ", "IRMOVQ", "OPQ", "IADDQ", "JXX"}
  PROVE  Does(Decoded(i, s.pc, s), s, StepInstr(s, i))
<1> DEFINE x == Decoded(i, s.pc, s)
           a == Ssim!Access(x)
<1>1. /\ x.icode = i.icode /\ x.ifun = i.ifun
      /\ NeedValC(i.icode) => x.valC = i.valC
      /\ x.Cnd = cond_holds(s.cc, i.ifun)
      /\ x.valA = GetReg(s.r, srcA(i)) /\ x.valB = GetReg(s.r, srcB(i))
      /\ x.dstE = IF i.icode = "RRMOVQ" /\ ~x.Cnd THEN RNONE ELSE dstE(i)
      /\ x.dstM = RNONE
      /\ a.icode = i.icode /\ a.valE = compute_alu(alufun(x), aluA(x), aluB(x))
  BY DecodedIs DEF dstM
<1> HIDE DEF x, a
<1>2. /\ ~mem_read(a) /\ ~mem_write(a)
      /\ \A v : Ssim!new_pc(x, v) = IF i.icode = "JXX" /\ x.Cnd THEN x.valC ELSE x.valP
  BY <1>1 DEF mem_read, mem_write, Ssim!new_pc
<1> DEFINE Right == Execute(s, i, x.valP) =
             Result(IF i.icode = "JXX" /\ x.Cnd THEN x.valC ELSE x.valP, SetReg(s.r, x.dstE, a.valE), s.m,
                    IF x.icode \in {"OPQ", "IADDQ"}
                    THEN compute_cc(alufun(x), aluA(x), aluB(x)) ELSE s.cc, "AOK")
<1>3. ASSUME i.icode = "NOP" PROVE Right
  BY <1>1, <1>3, NoneIs DEF Execute, dstE
<1>4. ASSUME i.icode = "JXX" PROVE Right
  BY <1>1, <1>4, NoneIs DEF Execute, dstE, NeedValC
<1>5. ASSUME i.icode = "RRMOVQ" PROVE Right
  <2>1. x.valA = s.r[i.rA] /\ x.valA \in Word
    BY <1>1, <1>5, InstrIs, RegsTyped DEF NamesRegisters, srcA, IsState
  <2>2. alufun(x) = "ADD" /\ aluA(x) = x.valA /\ aluB(x) = 0 /\ x.valA + 0 = x.valA
    BY <1>1, <1>5, <2>1, WordIsInt DEF alufun, aluA, aluB
  <2>3. a.valE = x.valA
    BY <1>1, <2>1, <2>2, AddIs, WrapIs
  <2> QED
    BY <1>1, <1>5, <2>1, <2>3, NoneIs DEF Execute, dstE
<1>6. ASSUME i.icode = "IRMOVQ" PROVE Right
  <2>1. x.valC = i.valC /\ x.valC \in Word
    BY <1>1, <1>6, InstrIs DEF NeedValC
  <2>2. alufun(x) = "ADD" /\ aluA(x) = x.valC /\ aluB(x) = 0 /\ x.valC + 0 = x.valC
    BY <1>1, <1>6, <2>1, WordIsInt DEF alufun, aluA, aluB
  <2>3. a.valE = x.valC
    BY <1>1, <2>1, <2>2, AddIs, WrapIs
  <2> QED
    BY <1>1, <1>6, <2>1, <2>3 DEF Execute, dstE
<1>7. ASSUME i.icode = "OPQ" PROVE Right
  <2>1. x.valA = GetReg(s.r, i.rA) /\ x.valB = GetReg(s.r, i.rB) /\ x.dstE = i.rB
    BY <1>1, <1>7 DEF srcA, srcB, dstE
  <2>2. alufun(x) = i.ifun /\ aluA(x) = x.valA /\ aluB(x) = x.valB
    BY <1>1, <1>7 DEF alufun, aluA, aluB
  <2> QED
    BY <1>1, <1>7, <2>1, <2>2 DEF Execute, Arith
<1>8. ASSUME i.icode = "IADDQ" PROVE Right
  <2>1. x.valC = i.valC /\ x.valB = s.r[i.rB] /\ x.dstE = i.rB
    BY <1>1, <1>8, InstrIs DEF srcB, dstE, NeedValC, NamesRegisters, GetReg
  <2>2. alufun(x) = "ADD" /\ aluA(x) = x.valC /\ aluB(x) = x.valB
    BY <1>1, <1>8 DEF alufun, aluA, aluB
  <2> QED
    BY <1>1, <1>8, <2>1, <2>2 DEF Execute, Arith
<1>9. Right
  BY <1>3, <1>4, <1>5, <1>6, <1>7, <1>8
<1> QED
  BY <1>1, <1>2, <1>9, NoneIs, DoesFrom DEF x, a, KnownCode

\* Every instruction.
LEMMA DoesAll ==
  ASSUME NEW i, NEW s, IsState(s), WellPlaced(i, s.pc)
  PROVE  Does(Decoded(i, s.pc, s), s, StepInstr(s, i))
<1>1. CASE i.icode \in {"HALT", "BAD"}
  <2> DEFINE x == Decoded(i, s.pc, s)
             a == Ssim!Access(x)
  <2>1. x.icode = i.icode /\ a.icode = i.icode /\ ByteOk(s.pc)
    BY DecodedIs
  <2> HIDE DEF x, a
  <2>2. ~Ssim!mem_read(a) /\ ~Ssim!mem_write(a)
    BY <1>1, <2>1 DEF Ssim!mem_read, Ssim!mem_write
  <2>3. Ssim!StatOf(x, a, s.pc) = IF i.icode = "HALT" THEN "HLT" ELSE "INS"
    BY <1>1, <2>1, <2>2, SsimMemory DEF Ssim!StatOf, Ssim!dmem_error, KnownCode
  <2>4. StepInstr(s, i) = Result(s.pc, s.r, s.m, s.cc, IF i.icode = "HALT" THEN "HLT" ELSE "INS")
    BY <1>1, StepIs DEF KnownCode
  <2> QED
    BY <1>1, <2>3, <2>4 DEF Does, Stat, Result, x, a
<1> QED
  BY <1>1, InstrIs, DoesMrmovq, DoesRmmovq, DoesPushq, DoesCall, DoesPopq, DoesRet, DoesOthers
     DEF KnownCode

\* Memory that holds no program is halt instructions.
LEMMA CodeIs ==
  ASSUME NEW prog, LegalProgram(prog), NEW p \in Int, ByteOk(p)
  PROVE  WellPlaced(CodeAt(prog, p), p)
<1>1. CASE p \in DOMAIN prog
  BY <1>1 DEF CodeAt, LegalProgram
<1>2. CASE p \notin DOMAIN prog
  <2>1. HaltInstr \in Instr
    BY Sizes DEF HaltInstr, Instr, KnownCode
  <2>2. NamesRegisters(HaltInstr) /\ HaltInstr.icode = "HALT"
    BY DEF HaltInstr, NamesRegisters
  <2>3. p \in Addr /\ NextPc("HALT", p) <= MemLen
    BY Sizes DEF ByteOk, Addr, NextPc, ValcAt, NeedRegids, NeedValC
  <2> QED
    BY <1>2, <2>1, <2>2, <2>3 DEF CodeAt, WellPlaced
<1> QED
  BY <1>1, <1>2

\* ssim fetches a nop from outside memory, with an error.
LEMMA Outside ==
  ASSUME NEW s, IsState(s), ~ByteOk(s.pc), NEW i
  PROVE  LET x == Decoded(NopInstr, s.pc, s)
         IN  Does(x, s, StepInstr(s, i)) /\ Keeps(x, s)
<1> DEFINE d == Ssim!Fetch(NopInstr, s.pc)
           x == Decoded(NopInstr, s.pc, s)
           a == Ssim!Access(x)
           v == Ssim!ValM(a, s.m)
<1>1. d.icode = "NOP" /\ d.valP \in Int
  BY SsimMemory, Sizes
     DEF Ssim!Fetch, NopInstr, HaltInstr, NextPc, ValcAt, NeedRegids, NeedValC, IsState
<1>2. Ssim!srcA(d) = RNONE /\ Ssim!srcB(d) = RNONE /\ Ssim!dstE(d) = RNONE /\ Ssim!dstM(d) = RNONE
  BY <1>1 DEF Ssim!srcA, Ssim!srcB, Ssim!dstE, Ssim!dstM
<1> HIDE DEF d
<1>3. x.icode = "NOP" /\ x.valP \in Int /\ x.dstE = RNONE /\ x.dstM = RNONE
  BY <1>1, <1>2 DEF Decoded, Ssim!Decode, d
<1> HIDE DEF x
<1>4. a.icode = "NOP" /\ a.valE = compute_alu("ADD", 0, 0)
  BY <1>3, SsimAlu, SsimSignals DEF Ssim!Access, alufun, aluA, aluB
<1> HIDE DEF a
<1>5. ~Ssim!mem_read(a) /\ ~Ssim!mem_write(a) /\ mem_addr(a) = 0 /\ Ssim!mem_data(x) = 0
  BY <1>3, <1>4 DEF Ssim!mem_read, Ssim!mem_write, mem_addr, Ssim!mem_data
<1>6. v = 0 /\ Ssim!new_pc(x, 0) = x.valP
  BY <1>3, <1>5 DEF Ssim!ValM, Ssim!new_pc
<1>7. Ssim!StatOf(x, a, s.pc) = "ADR"
  BY SsimMemory DEF Ssim!StatOf
<1>8. StepInstr(s, i) = Result(s.pc, s.r, s.m, s.cc, "ADR")
  BY DEF StepInstr, RefusedAs
<1>9. a.valE \in Word /\ 0 \in Word /\ 0 \in Int
  BY <1>4, AluTyped, Sizes
<1> HIDE DEF v
<1>10. Does(x, s, StepInstr(s, i))
  BY <1>7, <1>8 DEF Does, Result, Stat, a
<1>11. Keeps(x, s)
  BY <1>3, <1>5, <1>6, <1>9 DEF Keeps, a, v
<1> QED
  BY <1>10, <1>11 DEF x

\* What ssim makes of a state is what step_state makes of it.
LEMMA SsimStep ==
  ASSUME NEW prog, LegalProgram(prog), NEW s, IsState(s)
  PROVE  LET x == Decoded(IF ByteOk(s.pc) THEN CodeAt(prog, s.pc) ELSE NopInstr, s.pc, s)
         IN  Does(x, s, step_state(s, prog)) /\ Keeps(x, s)
<1>1. CASE ByteOk(s.pc)
  BY <1>1, CodeIs, DoesAll, DecodedTyped DEF step_state, IsState
<1>2. CASE ~ByteOk(s.pc)
  BY <1>2, Outside DEF step_state
<1> QED
  BY <1>1, <1>2

\* The state that step_state leaves behind is one of words.
LEMMA StepTyped ==
  ASSUME NEW prog, LegalProgram(prog), NEW s, IsState(s), step_state(s, prog).stat = "AOK"
  PROVE  LET t == step_state(s, prog) IN t.pc \in Int /\ t.r \in RegFile /\ t.m \in Memory
<1> DEFINE t == step_state(s, prog)
           x == Decoded(IF ByteOk(s.pc) THEN CodeAt(prog, s.pc) ELSE NopInstr, s.pc, s)
           a == Ssim!Access(x)
           v == Ssim!ValM(a, s.m)
<1>1. Does(x, s, t) /\ Keeps(x, s)
  BY SsimStep
<1> HIDE DEF x, t
<1>2. /\ t.pc = Ssim!new_pc(x, v) /\ t.r = SetReg(SetReg(s.r, x.dstE, a.valE), x.dstM, v)
      /\ t.m = IF mem_write(a) THEN SetWord(s.m, mem_addr(a), Ssim!mem_data(x)) ELSE s.m
      /\ {x.dstE, x.dstM} \subseteq Reg \cup {RNONE}
      /\ {a.valE, v, Ssim!mem_data(x)} \subseteq Word
      /\ mem_addr(a) \in Int /\ Ssim!new_pc(x, v) \in Int
  BY <1>1 DEF Does, Keeps, t
<1> HIDE DEF a, v
<1>3. t.r \in RegFile
  <2>1. SetReg(s.r, x.dstE, a.valE) \in RegFile
    BY <1>2, RegsTyped DEF IsState
  <2> QED
    BY <1>2, <2>1, RegsTyped
<1>4. t.m \in Memory
  BY <1>2 DEF IsState, SetWord, Memory
<1> QED
  BY <1>2, <1>3, <1>4 DEF t

-----------------------------------------------------------------------------
(***************************************************************************)
(* ssim implements the instruction set.                                     *)
(***************************************************************************)
SeqInv ==
  /\ LegalProgram(code)
  /\ spc_in \in Int /\ sreg \in RegFile /\ smem \in Memory
  /\ {swb.dstE, swb.dstM} \subseteq Reg \cup {RNONE} /\ {swb.valE, swb.valM} \subseteq Word
  /\ sstore.addr \in Int /\ sstore.data \in Word

\* The state in which an instruction of ssim is executed.
Now == State(spc, sreg, smem, scc)

\* The changes that are held back, made to the registers and the memory.
LEMMA WriteBackIs ==
  ASSUME SeqInv
  PROVE  /\ Ssim!WriteBack(sreg) \in RegFile /\ Ssim!WriteMem(smem) \in Memory
         /\ Ssim!WriteBack(sreg) =
              SetReg(SetReg(sreg, swb.dstE, swb.valE), swb.dstM, swb.valM)
         /\ Ssim!WriteMem(smem) =
              IF sstore.write THEN SetWord(smem, sstore.addr, sstore.data) ELSE smem
<1>1. Ssim!WriteBack(sreg) = SetReg(SetReg(sreg, swb.dstE, swb.valE), swb.dstM, swb.valM)
  BY SsimMemory DEF Ssim!WriteBack
<1>2. Ssim!WriteMem(smem) = IF sstore.write THEN SetWord(smem, sstore.addr, sstore.data) ELSE smem
  BY SsimMemory DEF Ssim!WriteMem
<1>3. Ssim!WriteBack(sreg) \in RegFile
  <2>1. SetReg(sreg, swb.dstE, swb.valE) \in RegFile
    BY RegsTyped DEF SeqInv
  <2> QED
    BY <1>1, <2>1, RegsTyped DEF SeqInv
<1>4. Ssim!WriteMem(smem) \in Memory
  BY <1>2 DEF SeqInv, SetWord, Memory
<1> QED
  BY <1>1, <1>2, <1>3, <1>4

\* It is the decoded instruction x, and its changes are held back.
Performs(x) ==
  /\ Does(x, Now', step_state(Now', code)) /\ Keeps(x, Now')
  /\ sstatus' = Ssim!StatOf(x, Ssim!Access(x), spc')
  /\ spc_in' = Ssim!new_pc(x, Ssim!ValM(Ssim!Access(x), smem'))
  /\ scc_in' = IF x.icode \in {"OPQ", "IADDQ"}
               THEN compute_cc(alufun(x), aluA(x), aluB(x)) ELSE scc'
  /\ swb' = [dstE |-> x.dstE, valE |-> Ssim!Access(x).valE, dstM |-> x.dstM,
             valM |-> Ssim!ValM(Ssim!Access(x), smem')]
  /\ sstore' = [write |-> mem_write(Ssim!Access(x)), addr |-> mem_addr(Ssim!Access(x)),
                data |-> Ssim!mem_data(x)]

\* A step of ssim is the held back changes, then an instruction.
LEMMA SeqStepIs ==
  ASSUME SeqInv, Ssim!Next
  PROVE  /\ code' = code /\ sstatus = "AOK"
         /\ Now' = State(spc_in, Ssim!WriteBack(sreg), Ssim!WriteMem(smem), scc_in)
         /\ IsState(Now')
         /\ \E x : Performs(x)
<1>1. code' = code /\ sstatus = "AOK"
  BY DEF Ssim!Next, Ssim!sim_step, Ssim!Running
<1>2. /\ spc' = spc_in /\ scc' = scc_in
      /\ sreg' = Ssim!WriteBack(sreg) /\ smem' = Ssim!WriteMem(smem)
  BY DEF Ssim!Next, Ssim!sim_step, Ssim!update_state
<1> DEFINE s == State(spc', sreg', smem', scc')
<1>3. /\ s.pc = spc' /\ s.r = sreg' /\ s.m = smem' /\ s.cc = scc' /\ Now' = s
  BY DEF State, Now
<1>4. IsState(s)
  BY <1>2, <1>3, WriteBackIs DEF IsState, SeqInv
<1> HIDE DEF s
<1> DEFINE i == IF ByteOk(s.pc) THEN CodeAt(code, s.pc) ELSE NopInstr
           x == Decoded(i, s.pc, s)
<1>5. Does(x, s, step_state(s, code)) /\ Keeps(x, s)
  BY <1>4, SsimStep DEF SeqInv
<1>6. Ssim!AtPc(spc') = i
  BY <1>3, SsimMemory DEF Ssim!AtPc
<1> HIDE DEF i
<1>7. Ssim!Finish(x, Ssim!Access(x))
  BY <1>3, <1>6
     DEF Ssim!Next, Ssim!sim_step, Ssim!Instruction, Ssim!FinishDecoded, Decoded
<1> HIDE DEF x
<1>8. /\ Ssim!mem_write(Ssim!Access(x)) = mem_write(Ssim!Access(x))
      /\ Ssim!mem_addr(Ssim!Access(x)) = mem_addr(Ssim!Access(x))
      /\ Ssim!compute_cc(Ssim!alufun(x), Ssim!aluA(x), Ssim!aluB(x))
           = compute_cc(alufun(x), aluA(x), aluB(x))
  BY SsimSignals, SsimAlu
<1>9. Performs(x)
  <2>1. Does(x, Now', step_state(Now', code)) /\ Keeps(x, Now')
    BY <1>3, <1>5
  <2> DEFINE a == Ssim!Access(x)
  <2> HIDE DEF a
  <2>2. Ssim!Finish(x, a)
    BY <1>7 DEF a
  <2>3. /\ scc_in' = IF x.icode \in {"OPQ", "IADDQ"}
                     THEN compute_cc(alufun(x), aluA(x), aluB(x)) ELSE scc'
        /\ swb' = [dstE |-> x.dstE, valE |-> a.valE, dstM |-> x.dstM, valM |-> Ssim!ValM(a, smem')]
        /\ sstore' = [write |-> mem_write(a), addr |-> mem_addr(a), data |-> Ssim!mem_data(x)]
        /\ sstatus' = Ssim!StatOf(x, a, spc')
        /\ spc_in' = Ssim!new_pc(x, Ssim!ValM(a, smem'))
    BY <1>8, <2>2 DEF Ssim!Finish, a
  <2> QED
    BY <2>1, <2>3, Zenon DEF Performs, a
<1>10. Now' = State(spc_in, Ssim!WriteBack(sreg), Ssim!WriteMem(smem), scc_in)
  BY <1>2, <1>3 DEF s
<1> QED
  BY <1>1, <1>3, <1>4, <1>9, <1>10

\* The invariant is inductive.
LEMMA SeqInvNext == SeqInv /\ [SimNext]_simVars => SeqInv'
<1> SUFFICES ASSUME SeqInv, [SimNext]_simVars PROVE SeqInv'
  OBVIOUS
<1>1. CASE Ssim!Next
  <2>1. IsState(Now') /\ code' = code
    BY <1>1, SeqStepIs
  <2>2. sreg' \in RegFile /\ smem' \in Memory
    BY <2>1 DEF IsState, Now, State
  <2>3. PICK x : Performs(x)
    BY <1>1, SeqStepIs
  <2>4. Now'.m = smem'
    BY DEF Now, State
  <2> QED
    BY <2>1, <2>2, <2>3, <2>4 DEF SeqInv, Keeps, Performs
<1>2. CASE UNCHANGED <<code, seqVars>>
  BY <1>2 DEF seqVars, SeqInv
<1>3. UNCHANGED <<code, seqVars>> \/ Ssim!Next
  BY DEF SimNext, Psim, HNext, Next, Cycle, sim_step_pipe, simVars, hvars, vars, seqVars
<1> QED
  BY <1>1, <1>2, <1>3

\* The state of the program between two steps of ssim.
LEMMA SeenBetween ==
  ASSUME SeqInv, Ssim!Next
  PROVE  SeqProgram!Step
<1> DEFINE t == step_state(Now', code)
           w == IF sstatus' = "AOK" THEN spc_in' ELSE spc'
           r == IF sstatus' = "AOK" THEN Ssim!WriteBack(sreg)' ELSE sreg'
           m == IF sstatus' = "AOK" THEN Ssim!WriteMem(smem)' ELSE smem'
           f == IF sstatus' = "AOK" THEN scc_in' ELSE scc'
<1>1. /\ code' = code /\ sstatus = "AOK" /\ IsState(Now')
      /\ Now' = State(spc_in, Ssim!WriteBack(sreg), Ssim!WriteMem(smem), scc_in)
  BY SeqStepIs
<1>2. PICK x : Performs(x)
  BY SeqStepIs
<1> DEFINE a == Ssim!Access(x)
           v == Ssim!ValM(a, smem')
<1>3. Now'.pc = spc' /\ Now'.r = sreg' /\ Now'.m = smem' /\ Now'.cc = scc'
  BY DEF Now, State
<1>4. /\ t.stat = sstatus'
      /\ t.stat = "AOK" =>
           /\ t.pc = spc_in' /\ t.cc = scc_in'
           /\ t.r = SetReg(SetReg(sreg', x.dstE, a.valE), x.dstM, v)
           /\ t.m = IF mem_write(a) THEN SetWord(smem', mem_addr(a), Ssim!mem_data(x)) ELSE smem'
      /\ t.stat # "AOK" => t.pc = spc' /\ t.m = smem' /\ t.cc = scc'
      /\ t.stat \notin {"AOK", "ADR"} => t.r = sreg'
  BY <1>2, <1>3, Zenon DEF Performs, Does
<1>5. /\ Ssim!WriteBack(sreg)' = SetReg(SetReg(sreg', x.dstE, a.valE), x.dstM, v)
      /\ Ssim!WriteMem(smem)' = IF mem_write(a) THEN SetWord(smem', mem_addr(a), Ssim!mem_data(x))
                                ELSE smem'
  BY <1>2, SsimMemory DEF Performs, Ssim!WriteBack, Ssim!WriteMem
<1> HIDE DEF t
<1>6. /\ t.pc = w /\ t.m = m /\ t.cc = f /\ t.stat = sstatus'
      /\ r = t.r \/ (t.stat = "ADR" /\ r = sreg')
  <2>1. CASE sstatus' = "AOK"
    BY <1>4, <1>5, <2>1
  <2>2. CASE sstatus' # "AOK"
    BY <1>4, <2>2
  <2> QED
    BY <2>1, <2>2
<1>7. sreg' = Ssim!WriteBack(sreg) /\ Now' = [pc |-> spc_in, r |-> Ssim!WriteBack(sreg),
                                               m |-> Ssim!WriteMem(smem), cc |-> scc_in]
  BY <1>1, <1>3 DEF State
<1>8. SeqProgram!step_state([pc |-> spc_in, r |-> Ssim!WriteBack(sreg),
                             m |-> Ssim!WriteMem(smem), cc |-> scc_in], code) = t
  BY <1>7, IsaIs DEF t
<1>9. /\ (IF Ssim!Running THEN spc_in ELSE spc) = spc_in
      /\ (IF Ssim!Running THEN Ssim!WriteBack(sreg) ELSE sreg) = Ssim!WriteBack(sreg)
      /\ (IF Ssim!Running THEN Ssim!WriteMem(smem) ELSE smem) = Ssim!WriteMem(smem)
      /\ (IF Ssim!Running THEN scc_in ELSE scc) = scc_in
  BY <1>1 DEF Ssim!Running
<1>10. /\ (IF Ssim!Running THEN spc_in ELSE spc)' = w
       /\ (IF Ssim!Running THEN Ssim!WriteBack(sreg) ELSE sreg)' = r
       /\ (IF Ssim!Running THEN Ssim!WriteMem(smem) ELSE smem)' = m
       /\ (IF Ssim!Running THEN scc_in ELSE scc)' = f
  BY DEF Ssim!Running
<1> HIDE DEF w, r, m, f
<1>11. SeqProgram!Becomes(t)
  BY <1>6, <1>7, <1>9, <1>10 DEF SeqProgram!Becomes
<1> QED
  BY <1>1, <1>8, <1>9, <1>11 DEF SeqProgram!Step

\* The invariant holds at first, and the program is then where it starts.
LEMMA SeqInvStart == SimInit /\ LegalProgram(code) => SeqInv /\ SeqProgram!Init
<1> SUFFICES ASSUME SimInit, LegalProgram(code) PROVE SeqInv /\ SeqProgram!Init
  OBVIOUS
<1>1. /\ spc_in = 0 /\ sreg = [id \in Reg |-> 0] /\ smem = [a \in Addr |-> 0]
      /\ scc_in = DEFAULT_CC
      /\ swb = [dstE |-> RNONE, valE |-> 0, dstM |-> RNONE, valM |-> 0]
      /\ sstore = [write |-> FALSE, addr |-> 0, data |-> 0]
      /\ sstatus = "AOK"
  BY DEF SimInit, Ssim!Init, Ssim!Addr, Addr, Ssim!DEFAULT_CC, DEFAULT_CC
<1>2. SeqInv
  BY <1>1, Sizes DEF SeqInv, RegFile, Memory
<1>3. Ssim!WriteBack(sreg) = sreg /\ Ssim!WriteMem(smem) = smem
  BY <1>1, <1>2, WriteBackIs, Sizes DEF SetReg
<1> QED
  BY <1>1, <1>2, <1>3 DEF SeqProgram!Init, SeqProgram!Addr, Addr, SeqProgram!DEFAULT_CC,
                          DEFAULT_CC, Ssim!Running

\* For every legal program and words, memories and register files of every
\* size, ssim (sim/seq/ssim.c with the control logic of seq-full.hcl), which
\* holds the changes of an instruction back until the next one starts, is seen
\* from the program to execute it instruction by instruction as isa.c does.
THEOREM SeqCorrect ==
  SimInit /\ LegalProgram(code) /\ [][SimNext]_simVars => SeqImplementsIsa
<1>1. SimInit /\ LegalProgram(code) => SeqInv /\ SeqProgram!Init
  BY SeqInvStart
<1>2. SeqInv /\ [SimNext]_simVars => SeqInv'
  BY SeqInvNext
<1>3. SeqInv /\ [SimNext]_simVars => [SeqProgram!Step]_SeqProgram!vars
  <2> SUFFICES ASSUME SeqInv, [SimNext]_simVars PROVE [SeqProgram!Step]_SeqProgram!vars
    OBVIOUS
  <2>1. CASE Ssim!Next
    BY <2>1, SeenBetween
  <2>2. CASE UNCHANGED <<code, seqVars>>
    BY <2>2 DEF seqVars, SeqProgram!vars, Ssim!Running, Ssim!WriteBack, Ssim!WriteMem
  <2>3. UNCHANGED <<code, seqVars>> \/ Ssim!Next
    BY DEF SimNext, Psim, HNext, Next, Cycle, sim_step_pipe, simVars, hvars, vars, seqVars
  <2> QED
    BY <2>1, <2>2, <2>3
<1> QED
  BY <1>1, <1>2, <1>3, PTL DEF SeqImplementsIsa, SeqProgram!Spec

-----------------------------------------------------------------------------
(***************************************************************************)
(* y64sim.                                                                  *)
(***************************************************************************)

\* The operators of Y86 are the same in y64sim.
LEMMA LabMemory ==
  /\ \A p : Lab4!ByteOk(p) = ByteOk(p) /\ Lab4!WordOk(p) = WordOk(p)
  /\ \A p : Lab4!RegidsAt(p) = RegidsAt(p) /\ Lab4!Wrap(p) = Wrap(p)
  /\ \A i, p : Lab4!NextPc(i, p) = NextPc(i, p) /\ Lab4!ValcAt(i, p) = ValcAt(i, p)
  /\ \A i : Lab4!NeedRegids(i) = NeedRegids(i) /\ Lab4!NeedValC(i) = NeedValC(i)
  /\ \A prog, p : Lab4!CodeAt(prog, p) = CodeAt(prog, p)
  /\ \A m, p, v : Lab4!SetWord(m, p, v) = SetWord(m, p, v)
  /\ \A r, id : Lab4!GetReg(r, id) = GetReg(r, id)
  /\ \A r, id, v : Lab4!SetReg(r, id, v) = SetReg(r, id, v)
BY DEF Lab4!ByteOk, ByteOk, Lab4!WordOk, WordOk, Lab4!NextPc, NextPc, Lab4!ValcAt, ValcAt,
       Lab4!CodeAt, CodeAt, Lab4!HaltInstr, HaltInstr, Lab4!SetWord, SetWord,
       Lab4!GetReg, GetReg, Lab4!SetReg, SetReg, Lab4!RegidsAt, RegidsAt, Lab4!Wrap, Wrap,
       Lab4!NeedRegids, NeedRegids, Lab4!NeedValC, NeedValC

LEMMA LabAlu ==
  /\ \A o, a, b : Lab4!compute_alu(o, a, b) = compute_alu(o, a, b)
  /\ \A f, c : Lab4!cond_holds(f, c) = cond_holds(f, c)
BY DEF Lab4!compute_alu, compute_alu, Lab4!OfBits, OfBits, Lab4!Wrap, Wrap, Lab4!Bit, Bit,
       Lab4!MapThenSumSet, MapThenSumSet, Lab4!MapThenFoldSet, MapThenFoldSet,
       Lab4!cond_holds, cond_holds

\* The low half of a word that fits an int is the word.
LEMMA LowHalfIs == \A val \in -IntHalf .. IntHalf - 1 : Lab4!LowHalf(val) = val
<1>1. IntHalf \in Nat /\ IntHalf >= 1
  BY IntAssumption, Sizes
<1> SUFFICES ASSUME NEW val \in -IntHalf .. IntHalf - 1 PROVE Lab4!LowHalf(val) = val
  OBVIOUS
<1>2. val + IntHalf \in 0 .. 2 * IntHalf - 1
  BY <1>1
<1>3. (val + IntHalf) % (2 * IntHalf) = val + IntHalf
  BY <1>1, <1>2
<1> QED
  BY <1>1, <1>3 DEF Lab4!LowHalf

\* The conditions that y64sim computes, and those of isa.c.
LEMMA FlagsAre ==
  ASSUME NEW o, NEW a \in Word, NEW b \in Word,
         NEW val, val = compute_alu(o, a, b)
  PROVE  LET f == Lab4!Flags(o, a, b, val)
             c == compute_cc(o, a, b)
         IN  /\ f.zf = c.zf
             /\ f.of = c.of \/ (o = "SUB" /\ a = -Half)
             /\ f.sf = c.sf \/ val \notin -IntHalf .. IntHalf - 1
<1> DEFINE f == Lab4!Flags(o, a, b, val)
           c == compute_cc(o, a, b)
<1>1. /\ c.zf = (val = 0) /\ c.sf = (val < 0) /\ c.of = Overflow(o, a, b, val)
  BY DEF compute_cc, CcOf
<1>2. /\ f.zf = (val = 0) /\ f.sf = (Lab4!LowHalf(val) < 0)
      /\ f.of = (\/ o = "ADD" /\ (a < 0 <=> b < 0) /\ ~(val < 0 <=> a < 0)
                 \/ o = "SUB" /\ Lab4!SubOverflow(Lab4!Wrap(-a), b, val))
  BY DEF Lab4!Flags
<1>3. f.of = c.of \/ (o = "SUB" /\ a = -Half)
  <2>1. CASE a = -Half
    BY <1>1, <1>2, <2>1 DEF Overflow
  <2>2. CASE a # -Half
    <3>1. -a \in Word
      BY <2>2, Sizes DEF Word
    <3>2. Lab4!Wrap(-a) = -a
      BY <3>1, WrapIs, LabMemory
    <3>3. -a < 0 <=> a > 0
      BY WordIsInt
    <3> QED
      BY <1>1, <1>2, <3>2, <3>3 DEF Overflow, Lab4!SubOverflow
  <2> QED
    BY <2>1, <2>2
<1>4. f.sf = c.sf \/ val \notin -IntHalf .. IntHalf - 1
  BY <1>1, <1>2, LowHalfIs
<1> QED
  BY <1>1, <1>2, <1>3, <1>4

LabState == IsState(StateOf)

\* What nexti does with one instruction in memory.
LEMMA NextiDoes ==
  ASSUME LabState, ystat = "AOK", NEW i, WellPlaced(i, ypc), Lab4!nexti(i)
  PROVE  Agrees(i, StepInstr(StateOf, i))
<1> DEFINE s == StateOf
           n == NextPc(i.icode, ypc)
           t == StepInstr(s, i)
<1>1. /\ s.pc = ypc /\ s.r = yr /\ s.m = ym /\ s.cc = ycc
      /\ ypc \in Int /\ yr \in RegFile /\ ym \in Memory
  BY DEF LabState, IsState, StateOf
<1>2. /\ i.icode \in KnownCode \cup {"BAD"} /\ i.rA \in Reg \cup {RNONE}
      /\ i.rB \in Reg \cup {RNONE} /\ i.valC \in Int /\ NamesRegisters(i)
  BY InstrIs, WordIsInt
<1>3. Lab4!Complete(i)
  BY <1>1, WholeIs, LabMemory DEF Lab4!Complete
<1>4. Lab4!Perform(i, n)
  BY <1>3, LabMemory DEF Lab4!nexti
<1>5. t = IF i.icode = "HALT" THEN Result(ypc, yr, ym, ycc, "HLT")
          ELSE IF i.icode \notin KnownCode THEN Result(ypc, yr, ym, ycc, "INS")
          ELSE Execute(s, i, n)
  BY <1>1, StepIs DEF LabState
<1> SUFFICES Agrees(i, t)
  OBVIOUS
<1> HIDE DEF s, n, t
<1>6. \A p, r, m, f, k : /\ Result(p, r, m, f, k).pc = p /\ Result(p, r, m, f, k).r = r
                         /\ Result(p, r, m, f, k).m = m /\ Result(p, r, m, f, k).cc = f
                         /\ Result(p, r, m, f, k).stat = k
  BY DEF Result
<1>7. \A k : Lab4!Stop(k) => ystat' = k /\ ypc' = ypc /\ yr' = yr /\ ym' = ym /\ ycc' = ycc
  BY DEF Lab4!Stop
<1>8. \A p, r, m, f : Lab4!Go(p, r, m, f) =>
        ystat' = ystat /\ ypc' = p /\ yr' = r /\ ym' = m /\ ycc' = f
  BY DEF Lab4!Go
<1>9. \A r : Lab4!StackFault(r) => ystat' = "ADR" /\ yr' = r /\ ypc' = ypc /\ ym' = ym /\ ycc' = ycc
  BY DEF Lab4!StackFault
\* With the same state afterwards there is nothing more to show.
<1>10. ASSUME i.icode # "IADDQ", ~(i.icode = "RMMOVQ" /\ t.stat = "ADR"),
              ypc' = t.pc, yr' = t.r, ym' = t.m, ystat' = t.stat, FlagsAgree(ycc', i, t)
       PROVE  Agrees(i, t)
  BY <1>10 DEF Agrees
<1>11. ycc' = t.cc => FlagsAgree(ycc', i, t)
  BY DEF FlagsAgree
<1>12. \A id \in Reg : GetReg(yr, id) = yr[id] /\ yr[id] \in Int
  BY <1>1, RegsTyped, WordIsInt
<1>13. GetReg(yr, i.rA) \in Word /\ GetReg(yr, i.rB) \in Word
  BY <1>1, <1>2, RegsTyped
<1>14. /\ RSP \in Reg /\ WORD \in Int
       /\ Lab4!Moved(WORD) = Popped(yr)
       /\ Lab4!Moved(-WORD) = SetReg(yr, RSP, Wrap(yr[RSP] - WORD))
  BY <1>12, Sizes, LabMemory DEF Lab4!Moved, Popped
<1>15. CASE i.icode \in {"HALT", "BAD", "NOP"}
  <2>1. CASE i.icode = "HALT"
    <3>1. Lab4!Stop("HLT")
      BY <1>4, <2>1 DEF Lab4!Perform, Lab4!Move, Lab4!MemMove, Lab4!Alu, Lab4!Jump, Lab4!PushInstr, Lab4!PopInstr
    <3> QED
      BY <1>5, <1>6, <1>7, <1>10, <1>11, <2>1, <3>1
  <2>2. CASE i.icode = "BAD"
    <3>1. Lab4!Stop("INS")
      BY <1>4, <2>2 DEF Lab4!Perform, Lab4!Move, Lab4!MemMove, Lab4!Alu, Lab4!Jump, Lab4!PushInstr, Lab4!PopInstr
    <3> QED
      BY <1>5, <1>6, <1>7, <1>10, <1>11, <2>2, <3>1 DEF KnownCode
  <2>3. CASE i.icode = "NOP"
    <3>1. Lab4!Go(n, yr, ym, ycc)
      BY <1>4, <2>3 DEF Lab4!Perform, Lab4!Move, Lab4!MemMove, Lab4!Alu, Lab4!Jump, Lab4!PushInstr, Lab4!PopInstr
    <3>2. t = Result(n, yr, ym, ycc, "AOK")
      BY <1>1, <1>5, <2>3 DEF KnownCode, Execute, s
    <3> QED
      BY <1>6, <1>8, <1>10, <1>11, <2>3, <3>1, <3>2
  <2> QED
    BY <1>15, <2>1, <2>2, <2>3
<1>16. CASE i.icode \in {"RRMOVQ", "IRMOVQ"}
  <2>1. Lab4!Move(i, n)
    BY <1>4, <1>16 DEF Lab4!Perform, Lab4!MemMove, Lab4!Alu, Lab4!Jump, Lab4!PushInstr, Lab4!PopInstr
  <2>2. CASE i.icode = "RRMOVQ"
    <3> DEFINE r == IF cond_holds(ycc, i.ifun) THEN SetReg(yr, i.rB, yr[i.rA]) ELSE yr
    <3>1. GetReg(yr, i.rA) = yr[i.rA]
      BY <1>2, <1>12, <2>2 DEF NamesRegisters
    <3>2. Lab4!Go(n, r, ym, ycc)
      BY <2>1, <2>2, <3>1, LabMemory, LabAlu DEF Lab4!Move
    <3>3. t = Result(n, r, ym, ycc, "AOK")
      BY <1>1, <1>5, <2>2 DEF KnownCode, Execute, s
    <3> HIDE DEF r
    <3> QED
      BY <1>6, <1>8, <1>10, <1>11, <2>2, <3>2, <3>3
  <2>3. CASE i.icode = "IRMOVQ"
    <3>1. Lab4!Go(n, SetReg(yr, i.rB, i.valC), ym, ycc)
      BY <2>1, <2>3, LabMemory DEF Lab4!Move
    <3>2. t = Result(n, SetReg(yr, i.rB, i.valC), ym, ycc, "AOK")
      BY <1>1, <1>5, <2>3 DEF KnownCode, Execute, s
    <3> QED
      BY <1>6, <1>8, <1>10, <1>11, <2>3, <3>1, <3>2
  <2> QED
    BY <1>16, <2>2, <2>3
<1>17. CASE i.icode \in {"RMMOVQ", "MRMOVQ"}
  <2> DEFINE p == Wrap(i.valC + GetReg(yr, i.rB))
  <2>1. Lab4!MemMove(i, p, n)
    <3>1. GetReg(yr, i.rB) + i.valC = i.valC + GetReg(yr, i.rB)
      <4>1. GetReg(yr, i.rB) \in Int /\ i.valC \in Int
        BY <1>2, <1>13, WordIsInt
      <4> QED
        BY <4>1
    <3>2. Lab4!Wrap(Lab4!GetReg(yr, i.rB) + i.valC) = p
      BY <3>1, LabMemory
    <3> QED
      BY <1>4, <1>17, <3>2 DEF Lab4!Perform, Lab4!Move, Lab4!Alu, Lab4!Jump, Lab4!PushInstr, Lab4!PopInstr
  <2> HIDE DEF p
  <2>2. CASE i.icode = "RMMOVQ"
    <3>1. GetReg(yr, i.rA) = yr[i.rA]
      BY <1>2, <1>12, <2>2 DEF NamesRegisters
    <3>2. Lab4!Go(n, yr, SetWord(ym, p, yr[i.rA]), ycc)
      BY <2>1, <2>2, <3>1, LabMemory DEF Lab4!MemMove
    <3>3. t = Store(s, p, yr[i.rA], yr, n)
      BY <1>1, <1>5, <2>2 DEF KnownCode, Execute, s, p
    <3>4. CASE WordOk(p)
      <4>1. t = Result(n, yr, SetWord(ym, p, yr[i.rA]), ycc, "AOK")
        BY <1>1, <3>3, <3>4 DEF Store, s
      <4> QED
        BY <1>6, <1>8, <1>10, <1>11, <2>2, <3>2, <4>1
    <3>5. CASE ~WordOk(p)
      <4>1. t.stat = "ADR" /\ SetWord(ym, p, yr[i.rA]) = ym
        BY <1>6, <3>3, <3>5 DEF Store, Fault, SetWord
      <4> QED
        BY <1>8, <2>2, <3>2, <4>1 DEF Agrees, n
    <3> QED
      BY <3>4, <3>5
  <2>3. CASE i.icode = "MRMOVQ"
    <3>1. t = Load(s, i, p, n)
      BY <1>1, <1>5, <2>3 DEF KnownCode, Execute, s, p
    <3>2. CASE WordOk(p)
      <4>1. Lab4!Go(n, SetReg(yr, i.rA, ym[p]), ym, ycc)
        BY <2>1, <2>3, <3>2, LabMemory DEF Lab4!MemMove
      <4>2. t = Result(n, SetReg(yr, i.rA, ym[p]), ym, ycc, "AOK")
        BY <1>1, <3>1, <3>2 DEF Load, s
      <4> QED
        BY <1>6, <1>8, <1>10, <1>11, <2>3, <4>1, <4>2
    <3>3. CASE ~WordOk(p)
      <4>1. Lab4!Stop("ADR")
        BY <2>1, <2>3, <3>3, LabMemory DEF Lab4!MemMove
      <4>2. t = Result(ypc, yr, ym, ycc, "ADR")
        BY <1>1, <3>1, <3>3 DEF Load, Fault, s
      <4> QED
        BY <1>6, <1>7, <1>10, <1>11, <2>3, <4>1, <4>2
    <3> QED
      BY <3>2, <3>3
  <2> QED
    BY <1>17, <2>2, <2>3
<1>18. CASE i.icode = "OPQ"
  <2> DEFINE a == GetReg(yr, i.rA)
             b == GetReg(yr, i.rB)
             val == compute_alu(i.ifun, a, b)
  <2>1. Lab4!Alu(i, val, n)
    BY <1>4, <1>18, LabMemory, LabAlu
       DEF Lab4!Perform, Lab4!Move, Lab4!MemMove, Lab4!Jump, Lab4!PushInstr, Lab4!PopInstr
  <2>2. Lab4!Go(n, SetReg(yr, i.rB, val), ym, Lab4!Flags(i.ifun, a, b, val))
    BY <2>1, LabMemory DEF Lab4!Alu
  <2>3. t = Result(n, SetReg(yr, i.rB, val), ym, compute_cc(i.ifun, a, b), "AOK")
    BY <1>1, <1>5, <1>18 DEF KnownCode, Execute, Arith, s
  <2> DEFINE f == Lab4!Flags(i.ifun, a, b, val)
             c == compute_cc(i.ifun, a, b)
  <2>4. /\ f.zf = c.zf
        /\ f.of = c.of \/ (i.ifun = "SUB" /\ a = -Half)
        /\ f.sf = c.sf \/ val \notin -IntHalf .. IntHalf - 1
    BY <1>13, FlagsAre
  <2>5. ycc' = f /\ t.cc = c
    BY <1>6, <1>8, <2>2, <2>3
  <2> HIDE DEF f, c
  <2>6. FlagsAgree(ycc', i, t)
    BY <1>18, <2>4, <2>5 DEF FlagsAgree
  <2> QED
    BY <1>6, <1>8, <1>10, <1>18, <2>2, <2>3, <2>6
<1>19. CASE i.icode = "IADDQ"
  <2>1. Lab4!Stop("INS")
    BY <1>4, <1>19 DEF Lab4!Perform, Lab4!Move, Lab4!MemMove, Lab4!Alu, Lab4!Jump, Lab4!PushInstr, Lab4!PopInstr
  <2> QED
    BY <1>7, <1>19, <2>1 DEF Agrees
<1>20. CASE i.icode = "JXX"
  <2> DEFINE q == IF cond_holds(ycc, i.ifun) THEN i.valC ELSE n
  <2>1. Lab4!Jump(i, n)
    BY <1>4, <1>20 DEF Lab4!Perform, Lab4!Move, Lab4!MemMove, Lab4!Alu, Lab4!PushInstr, Lab4!PopInstr
  <2>2. Lab4!Go(q, yr, ym, ycc)
    BY <2>1, LabAlu DEF Lab4!Jump
  <2>3. t = Result(q, yr, ym, ycc, "AOK")
    BY <1>1, <1>5, <1>20 DEF KnownCode, Execute, s
  <2> HIDE DEF q
  <2> QED
    BY <1>6, <1>8, <1>10, <1>11, <1>20, <2>2, <2>3
<1>21. CASE i.icode \in {"CALL", "PUSHQ"}
  <2> DEFINE p == Wrap(yr[RSP] - WORD)
             v == IF i.icode = "CALL" THEN n ELSE yr[i.rA]
             q == IF i.icode = "CALL" THEN i.valC ELSE n
             r == SetReg(yr, RSP, p)
  <2>1. Lab4!PushInstr(i, n)
    BY <1>4, <1>21 DEF Lab4!Perform, Lab4!Move, Lab4!MemMove, Lab4!Alu, Lab4!Jump, Lab4!PopInstr
  <2>2. Lab4!PushWord(p, v, q)
    <3>1. i.icode = "PUSHQ" => GetReg(yr, i.rA) = yr[i.rA]
      BY <1>2, <1>12 DEF NamesRegisters
    <3> QED
      BY <2>1, <3>1, LabMemory DEF Lab4!PushInstr
  <2>3. t = Store(s, p, v, r, q)
    BY <1>1, <1>5, <1>21 DEF KnownCode, Execute, Push, s
  <2> HIDE DEF p, v, q
  <2>4. CASE WordOk(p)
    <3>1. Lab4!Go(q, r, SetWord(ym, p, v), ycc)
      BY <1>14, <2>2, <2>4, LabMemory DEF Lab4!PushWord, p
    <3>2. t = Result(q, r, SetWord(ym, p, v), ycc, "AOK")
      BY <1>1, <2>3, <2>4 DEF Store, s
    <3> QED
      BY <1>6, <1>8, <1>10, <1>11, <1>21, <3>1, <3>2
  <2>5. CASE ~WordOk(p)
    <3>1. Lab4!StackFault(r)
      BY <1>14, <2>2, <2>5, LabMemory DEF Lab4!PushWord, p
    <3>2. t = Result(ypc, r, ym, ycc, "ADR")
      BY <1>1, <2>3, <2>5 DEF Store, Fault, s
    <3> QED
      BY <1>6, <1>9, <1>10, <1>11, <1>21, <3>1, <3>2
  <2> QED
    BY <2>4, <2>5
<1>22. CASE i.icode \in {"POPQ", "RET"}
  <2>1. Lab4!PopInstr(i, n)
    BY <1>4, <1>22 DEF Lab4!Perform, Lab4!Move, Lab4!MemMove, Lab4!Alu, Lab4!Jump, Lab4!PushInstr
  <2>2. CASE i.icode = "POPQ"
    <3>1. t = Pop(s, i, n)
      BY <1>1, <1>5, <2>2 DEF KnownCode, Execute
    <3>2. CASE WordOk(yr[RSP])
      <4>1. Lab4!Go(n, SetReg(Popped(yr), i.rA, ym[yr[RSP]]), ym, ycc)
        BY <1>14, <2>1, <2>2, <3>2, LabMemory DEF Lab4!PopInstr
      <4>2. t = Result(n, SetReg(Popped(yr), i.rA, ym[yr[RSP]]), ym, ycc, "AOK")
        BY <1>1, <3>1, <3>2 DEF Pop, s
      <4> QED
        BY <1>6, <1>8, <1>10, <1>11, <2>2, <4>1, <4>2
    <3>3. CASE ~WordOk(yr[RSP])
      <4>1. Lab4!StackFault(Popped(yr))
        BY <1>14, <2>1, <2>2, <3>3, LabMemory DEF Lab4!PopInstr
      <4>2. t = Result(ypc, Popped(yr), ym, ycc, "ADR")
        BY <1>1, <3>1, <3>3 DEF Pop, Fault, s
      <4> QED
        BY <1>6, <1>9, <1>10, <1>11, <2>2, <4>1, <4>2
    <3> QED
      BY <3>2, <3>3
  <2>3. CASE i.icode = "RET"
    <3>1. t = Ret(s)
      BY <1>1, <1>5, <2>3 DEF KnownCode, Execute
    <3>2. CASE WordOk(yr[RSP])
      <4>1. Lab4!Go(ym[yr[RSP]], Popped(yr), ym, ycc)
        BY <1>14, <2>1, <2>3, <3>2, LabMemory DEF Lab4!PopInstr
      <4>2. t = Result(ym[yr[RSP]], Popped(yr), ym, ycc, "AOK")
        BY <1>1, <3>1, <3>2 DEF Ret, s
      <4> QED
        BY <1>6, <1>8, <1>10, <1>11, <2>3, <4>1, <4>2
    <3>3. CASE ~WordOk(yr[RSP])
      <4>1. Lab4!Stop("ADR")
        BY <2>1, <2>3, <3>3, LabMemory DEF Lab4!PopInstr
      <4>2. t = Result(ypc, yr, ym, ycc, "ADR")
        BY <1>1, <3>1, <3>3 DEF Ret, Fault, s
      <4> QED
        BY <1>6, <1>7, <1>10, <1>11, <2>3, <4>1, <4>2
    <3> QED
      BY <3>2, <3>3
  <2> QED
    BY <1>22, <2>2, <2>3
<1> QED
  BY <1>2, <1>15, <1>16, <1>17, <1>18, <1>19, <1>20, <1>21, <1>22 DEF KnownCode

\* While y64sim goes on, its state is one of words.
LabInv == LegalProgram(code) /\ (ystat = "AOK" => LabState)

\* nexti outside memory, and on the instruction at pc.
LEMMA NextiAgreesNow ==
  ASSUME LabInv, Lab4!Next
  PROVE  Agrees(Current, step_state(StateOf, code))
<1>1. ystat = "AOK" /\ LabState /\ Lab4!nexti(Current)
  BY LabMemory DEF LabInv, Lab4!Next, Current
<1>2. step_state(StateOf, code) = StepInstr(StateOf, Current) /\ ypc \in Int
  BY <1>1 DEF step_state, StateOf, Current, LabState, IsState
<1>3. CASE ByteOk(ypc)
  BY <1>1, <1>2, <1>3, CodeIs, NextiDoes DEF LabInv, Current
<1>4. CASE ~ByteOk(ypc)
  <2>1. Lab4!Stop("ADR")
    BY <1>1, <1>4, LabMemory DEF Lab4!nexti, Lab4!Complete
  <2>2. StepInstr(StateOf, Current) = Result(ypc, yr, ym, ycc, "ADR")
    BY <1>4 DEF StepInstr, RefusedAs, StateOf
  <2>3. Current.icode = "HALT"
    <3>1. ypc \notin Addr
      BY <1>2, <1>4, Sizes DEF ByteOk, Addr
    <3> QED
      BY <3>1 DEF Current, CodeAt, HaltInstr, LabInv, LegalProgram, WellPlaced
  <2> QED
    BY <1>2, <2>1, <2>2, <2>3 DEF Lab4!Stop, Agrees, FlagsAgree, Result
<1> QED
  BY <1>3, <1>4

LEMMA LabInvNext == LabInv /\ [SimNext]_simVars => LabInv'
<1> SUFFICES ASSUME LabInv, [SimNext]_simVars PROVE LabInv'
  OBVIOUS
<1>1. code' = code
  BY DEF SimNext, Psim, HNext, Next, Cycle, sim_step_pipe, simVars, hvars, vars,
         Lab4!Next, Lab4!nexti, Lab4!Perform, Lab4!Move, Lab4!MemMove, Lab4!Alu, Lab4!Jump,
         Lab4!PushInstr, Lab4!PushWord, Lab4!PopInstr, Lab4!Stop, Lab4!Go, Lab4!StackFault
<1>2. CASE UNCHANGED labVars
  BY <1>1, <1>2 DEF LabInv, LabState, IsState, State, StateOf, labVars
<1>3. CASE Lab4!Next
  <2> SUFFICES ASSUME ystat' = "AOK" PROVE LabState'
    BY <1>1 DEF LabInv
  <2> DEFINE t == step_state(StateOf, code)
  <2>1. LabState /\ LegalProgram(code) /\ ystat = "AOK"
    BY <1>3 DEF LabInv, Lab4!Next
  <2>2. Agrees(Current, t)
    BY <1>3, NextiAgreesNow
  <2>3. t.stat = "AOK" => t.pc \in Int /\ t.r \in RegFile /\ t.m \in Memory
    BY <2>1, StepTyped DEF LabState
  <2>4. ypc \in Int /\ yr \in RegFile /\ ym \in Memory
    BY <2>1 DEF LabState, IsState, StateOf
  <2>5. NextPc(Current.icode, ypc) \in Int
    BY <2>4, Sizes DEF NextPc, ValcAt
  <2> HIDE DEF t
  <2>6. ypc' \in Int /\ yr' \in RegFile /\ ym' \in Memory
    BY <2>2, <2>3, <2>4, <2>5 DEF Agrees
  <2> QED
    BY <2>6 DEF LabState, IsState, State, StateOf
<1>4. UNCHANGED labVars \/ Lab4!Next
  BY DEF SimNext, Psim, simVars
<1> QED
  BY <1>2, <1>3, <1>4

\* For every legal program, nexti of y64sim.c does what step_state of isa.c
\* does, but for the named differences: the sign of a result that does not fit
\* an int, the overflow of subtracting the least word, stores to bad addresses,
\* and iaddq.
THEOREM NextiCorrect ==
  SimInit /\ LegalProgram(code) /\ [][SimNext]_simVars => NextiAgrees
<1>1. SimInit /\ LegalProgram(code) => LabInv
  <2> SUFFICES ASSUME SimInit, LegalProgram(code) PROVE LabInv
    OBVIOUS
  <2>1. ypc = 0 /\ yr = [id \in Reg |-> 0] /\ ym = [a \in Addr |-> 0]
    BY DEF SimInit, Lab4!Init, Lab4!Addr, Addr
  <2> QED
    BY <2>1, Sizes DEF LabInv, LabState, IsState, State, StateOf, RegFile, Memory
<1>2. LabInv /\ [SimNext]_simVars => LabInv'
  BY LabInvNext
<1>3. LabInv /\ [SimNext]_simVars => [Agrees(Current, step_state(StateOf, code))]_labVars
  <2>1. [SimNext]_simVars => UNCHANGED labVars \/ Lab4!Next
    BY DEF SimNext, Psim, simVars
  <2> QED
    BY <2>1, NextiAgreesNow
<1> QED
  BY <1>1, <1>2, <1>3, PTL DEF NextiAgrees
-----------------------------------------------------------------------------
(***************************************************************************)
(* y64asm.                                                                 *)
(***************************************************************************)

\* What a line holds in place of an encoding.
Code == [icode : Asm!KnownCode \cup {"DATA"}, ifun : Asm!Cond \cup Asm!AluFn \cup {"NONE"},
         rA : Reg \cup {RNONE}, rB : Reg \cup {RNONE}, valC : Int]

\* Where the lines of ss stand in the sequence of all their elements.
IsOffset(off, ss) ==
  /\ off \in [0 .. Len(ss) -> Nat]
  /\ off[0] = 0
  /\ \A i \in 1 .. Len(ss) : off[i] = off[i - 1] + Len(ss[i])

\* A position up to the end of line n belongs to a line, and lines are in order.
LEMMA OffsetsCover ==
  ASSUME NEW T, NEW ss \in Seq(Seq(T)), NEW off, IsOffset(off, ss), NEW n \in 0 .. Len(ss)
  PROVE  /\ \A p \in 1 .. off[n] : \E i \in 1 .. n : off[i - 1] < p /\ p <= off[i]
         /\ \A i \in 0 .. n : off[i] <= off[n]
<1> DEFINE Good(k) == /\ \A p \in 1 .. off[k] : \E i \in 1 .. k : off[i - 1] < p /\ p <= off[i]
                      /\ \A i \in 0 .. k : off[i] <= off[k]
<1> DEFINE Failing == {k \in 0 .. Len(ss) : ~Good(k)}
<1>0. Len(ss) \in Nat /\ \A i \in 0 .. Len(ss) : off[i] \in Nat
  <2>1. Len(ss) \in Nat
    OBVIOUS
  <2>2. off \in [0 .. Len(ss) -> Nat]
    BY DEF IsOffset
  <2> QED
    BY <2>1, <2>2
<1>1. ASSUME Failing # {} PROVE FALSE
  <2>1. PICK k \in Failing : \A j \in Failing : k <= j
    <3>1. Failing \subseteq Nat
      BY <1>0
    <3> QED
      BY <3>1, <1>1, MinOfNats
  <2>2. k \in 0 .. Len(ss) /\ ~Good(k)
    OBVIOUS
  <2>3. \A j \in 0 .. Len(ss) : j \notin Failing => Good(j)
    OBVIOUS
  <2>4. Good(0)
    <3>1. off[0] = 0
      BY DEF IsOffset
    <3> QED
      BY <3>1
  <2> HIDE DEF Failing
  <2>5. k \in 1 .. Len(ss) /\ k - 1 \in 0 .. Len(ss) /\ k - 1 \notin Failing
    <3>1. k # 0
      BY <2>2, <2>4
    <3>2. k \in 1 .. Len(ss) /\ k - 1 \in 0 .. Len(ss) /\ ~(k <= k - 1)
      BY <3>1, <2>2, <1>0
    <3> QED
      BY <3>2, <2>1
  <2>6. Good(k - 1)
    BY <2>3, <2>5
  <2>7. off[k] = off[k - 1] + Len(ss[k]) /\ Len(ss[k]) \in Nat
    BY <2>5 DEF IsOffset
  <2>8. ASSUME NEW p \in 1 .. off[k] PROVE \E i \in 1 .. k : off[i - 1] < p /\ p <= off[i]
    <3>1. CASE p <= off[k - 1]
      <4>1. p \in 1 .. off[k - 1]
        BY <3>1, <2>5, <1>0
      <4>2. PICK i \in 1 .. (k - 1) : off[i - 1] < p /\ p <= off[i]
        BY <4>1, <2>6
      <4>3. i \in 1 .. k
        BY <2>5
      <4> QED
        BY <4>2, <4>3
    <3>2. CASE ~(p <= off[k - 1])
      <4>1. off[k - 1] < p /\ p <= off[k] /\ k \in 1 .. k
        BY <3>2, <2>5, <1>0
      <4> QED
        BY <4>1
    <3> QED
      BY <3>1, <3>2
  <2>9. ASSUME NEW i \in 0 .. k PROVE off[i] <= off[k]
    <3>1. CASE i = k
      BY <3>1, <2>2, <1>0
    <3>2. CASE i # k
      <4>1. i \in 0 .. (k - 1)
        BY <3>2, <2>5
      <4>2. off[i] <= off[k - 1] /\ off[i] \in Nat /\ off[k - 1] \in Nat
        BY <4>1, <2>6, <2>5, <1>0
      <4> QED
        BY <4>2, <2>7
    <3> QED
      BY <3>1, <3>2
  <2>10. Good(k)
    BY <2>8, <2>9
  <2> QED
    BY <2>2, <2>10
<1>2. Good(n)
  BY <1>1
<1> QED
  BY <1>2

\* The sequence of the first lines, joined.
Joined(f, n, ss) == f = [i \in 1 .. n |-> IF i = 1 THEN ss[i] ELSE f[i - 1] \o ss[i]]

LEMMA JoinedExists ==
  ASSUME NEW ss, NEW n \in Nat
  PROVE  \E f : Joined(f, n, ss)
<1> DEFINE Failing == {k \in Nat : ~ \E f : Joined(f, k, ss)}
<1> SUFFICES ASSUME Failing # {} PROVE FALSE
  OBVIOUS
<1>1. PICK k \in Failing : \A j \in Failing : k <= j
  <2>1. Failing \subseteq Nat
    OBVIOUS
  <2> QED
    BY <2>1, MinOfNats
<1>2. k \in Nat /\ ~ \E f : Joined(f, k, ss)
  OBVIOUS
<1>3. \A j \in Nat : j \notin Failing => \E f : Joined(f, j, ss)
  OBVIOUS
<1> HIDE DEF Failing
<1>4. k # 0
  <2> DEFINE g == [i \in 1 .. 0 |-> i]
  <2>1. g = [i \in 1 .. 0 |-> IF i = 1 THEN ss[i] ELSE g[i - 1] \o ss[i]]
    OBVIOUS
  <2>2. Joined(g, 0, ss)
    BY <2>1 DEF Joined
  <2> QED
    BY <1>2, <2>2
<1>5. k - 1 \in Nat /\ k - 1 \notin Failing
  BY <1>1, <1>2, <1>4
<1>6. PICK f : Joined(f, k - 1, ss)
  BY <1>3, <1>5
<1> DEFINE g == [i \in 1 .. k |-> IF i = k THEN (IF i = 1 THEN ss[i] ELSE f[i - 1] \o ss[i]) ELSE f[i]]
<1>7. ASSUME NEW i \in 1 .. k
      PROVE  g[i] = IF i = 1 THEN ss[i] ELSE g[i - 1] \o ss[i]
  <2>1. i # 1 => i - 1 \in 1 .. k /\ i - 1 # k
    BY <1>2
  <2>2. i # 1 => g[i - 1] = f[i - 1]
    BY <2>1
  <2>3. CASE i = k
    BY <2>2, <2>3
  <2>4. CASE i # k
    <3>1. i \in 1 .. (k - 1)
      BY <2>4, <1>2
    <3>2. f[i] = IF i = 1 THEN ss[i] ELSE f[i - 1] \o ss[i]
      BY <3>1, <1>6 DEF Joined
    <3>3. g[i] = f[i]
      BY <2>4
    <3> QED
      BY <3>2, <3>3, <2>2
  <2> QED
    BY <2>3, <2>4
<1>8. g = [i \in 1 .. k |-> g[i]]
  OBVIOUS
<1> HIDE DEF g
<1>9. g = [i \in 1 .. k |-> IF i = 1 THEN ss[i] ELSE g[i - 1] \o ss[i]]
  BY <1>7, <1>8
<1>10. Joined(g, k, ss)
  BY <1>9 DEF Joined
<1> QED
  BY <1>2, <1>10

\* FlattenSeq joins all lines.
LEMMA FlattenJoins ==
  ASSUME NEW T, NEW ss \in Seq(Seq(T)), Len(ss) # 0
  PROVE  \E f : Joined(f, Len(ss), ss) /\ Asm!FlattenSeq(ss) = f[Len(ss)]
<1> DEFINE f == CHOOSE f : Joined(f, Len(ss), ss)
<1>1. Joined(f, Len(ss), ss)
  <2>0. Len(ss) \in Nat
    OBVIOUS
  <2>1. \E g : Joined(g, Len(ss), ss)
    BY <2>0, JoinedExists
  <2> QED
    BY <2>1, Zenon
<1>2. Asm!FlattenSeq(ss) = f[Len(ss)]
  BY DEF Asm!FlattenSeq, Joined
<1> QED
  BY <1>1, <1>2

\* Offsets exist.
LEMMA OffsetExists ==
  ASSUME NEW T, NEW ss \in Seq(Seq(T))
  PROVE  \E off : IsOffset(off, ss)
<1> DEFINE Upto(f, k) == /\ f \in [0 .. k -> Nat]
                         /\ f[0] = 0
                         /\ \A i \in 1 .. k : f[i] = f[i - 1] + Len(ss[i])
<1> DEFINE Failing == {k \in 0 .. Len(ss) : ~ \E f : Upto(f, k)}
<1>0. Len(ss) \in Nat /\ \A i \in 1 .. Len(ss) : Len(ss[i]) \in Nat
  OBVIOUS
<1>1. ASSUME Failing # {} PROVE FALSE
  <2>1. PICK k \in Failing : \A j \in Failing : k <= j
    <3>1. Failing \subseteq Nat
      BY <1>0
    <3> QED
      BY <3>1, <1>1, MinOfNats
  <2>2. k \in 0 .. Len(ss) /\ ~ \E f : Upto(f, k)
    OBVIOUS
  <2>3. \A j \in 0 .. Len(ss) : j \notin Failing => \E f : Upto(f, j)
    OBVIOUS
  <2> HIDE DEF Failing
  <2>4. k # 0
    <3> DEFINE g == [i \in 0 .. 0 |-> 0]
    <3>1. Upto(g, 0)
      OBVIOUS
    <3> QED
      BY <2>2, <3>1
  <2>5. k \in 1 .. Len(ss) /\ k - 1 \in 0 .. Len(ss) /\ ~(k <= k - 1)
    BY <2>2, <2>4, <1>0
  <2>6. PICK f : Upto(f, k - 1)
    BY <2>1, <2>3, <2>5
  <2> DEFINE g == [i \in 0 .. k |-> IF i = k THEN f[k - 1] + Len(ss[k]) ELSE f[i]]
  <2>7. g \in [0 .. k -> Nat]
    BY <2>5, <2>6, <1>0
  <2>8. g[0] = 0
    BY <2>5, <2>6
  <2>9. ASSUME NEW i \in 1 .. k PROVE g[i] = g[i - 1] + Len(ss[i])
    <3>1. CASE i = k
      BY <3>1, <2>5
    <3>2. CASE i # k
      BY <3>2, <2>5, <2>6
    <3> QED
      BY <3>1, <3>2
  <2>10. Upto(g, k)
    BY <2>7, <2>8, <2>9
  <2> QED
    BY <2>2, <2>10
<1>2. \E f : Upto(f, Len(ss))
  <2>1. Len(ss) \in 0 .. Len(ss)
    BY <1>0
  <2>2. Len(ss) \notin Failing
    BY <1>1
  <2> QED
    BY <2>1, <2>2
<1> QED
  BY <1>2 DEF IsOffset

\* Statement j of line i is statement off[i - 1] + j of all.
LEMMA FlattenIs ==
  ASSUME NEW T, NEW ss \in Seq(Seq(T)), NEW off, IsOffset(off, ss)
  PROVE  /\ Asm!FlattenSeq(ss) \in Seq(T)
         /\ Len(Asm!FlattenSeq(ss)) = off[Len(ss)]
         /\ \A i \in 1 .. Len(ss) : \A j \in 1 .. Len(ss[i]) : Asm!FlattenSeq(ss)[off[i - 1] + j] = ss[i][j]
<1>0. Len(ss) \in Nat /\ \A i \in 1 .. Len(ss) : ss[i] \in Seq(T) /\ Len(ss[i]) \in Nat
  OBVIOUS
<1>1. CASE Len(ss) = 0
  <2>1. Asm!FlattenSeq(ss) = ss
    BY <1>1 DEF Asm!FlattenSeq
  <2>2. ss = <<>> /\ ss \in Seq(T)
    BY <1>1
  <2>3. off[0] = 0
    BY DEF IsOffset
  <2> QED
    BY <1>1, <2>1, <2>2, <2>3
<1>2. CASE Len(ss) # 0
  <2>1. PICK f : Joined(f, Len(ss), ss) /\ Asm!FlattenSeq(ss) = f[Len(ss)]
    BY <1>2, FlattenJoins
  <2>2. \A i \in 1 .. Len(ss) : f[i] = IF i = 1 THEN ss[i] ELSE f[i - 1] \o ss[i]
    BY <2>1 DEF Joined
  <2>3. /\ \A i \in 0 .. Len(ss) : off[i] \in Nat
        /\ off[0] = 0
        /\ \A i \in 1 .. Len(ss) : off[i] = off[i - 1] + Len(ss[i])
    BY DEF IsOffset
  <2> DEFINE Good(k) == /\ f[k] \in Seq(T)
                        /\ Len(f[k]) = off[k]
                        /\ \A i \in 1 .. k : \A j \in 1 .. Len(ss[i]) : f[k][off[i - 1] + j] = ss[i][j]
  <2> DEFINE Failing == {k \in 1 .. Len(ss) : ~Good(k)}
  <2>4. ASSUME Failing # {} PROVE FALSE
    <3>1. PICK k \in Failing : \A j \in Failing : k <= j
      <4>1. Failing \subseteq Nat
        BY <1>0
      <4> QED
        BY <4>1, <2>4, MinOfNats
    <3>2. k \in 1 .. Len(ss) /\ ~Good(k)
      OBVIOUS
    <3>3. \A j \in 1 .. Len(ss) : j \notin Failing => Good(j)
      OBVIOUS
    <3> HIDE DEF Failing
    <3>4. CASE k = 1
      <4>1. f[1] = ss[1] /\ off[1] = Len(ss[1]) /\ ss[1] \in Seq(T)
        BY <3>2, <3>4, <2>2, <2>3, <1>0
      <4>2. \A i \in 1 .. 1 : i = 1 /\ i - 1 = 0
        OBVIOUS
      <4>3. \A i \in 1 .. 1 : \A j \in 1 .. Len(ss[i]) : f[1][off[i - 1] + j] = ss[i][j]
        BY <4>1, <4>2, <2>3, <1>0
      <4> QED
        BY <3>2, <3>4, <4>1, <4>3
    <3>5. CASE k # 1
      <4>1. k - 1 \in 1 .. Len(ss) /\ k - 1 \in 0 .. Len(ss) /\ k \in 0 .. Len(ss) /\ ~(k <= k - 1)
        BY <3>2, <3>5, <1>0
      <4>2. Good(k - 1)
        BY <4>1, <3>1, <3>3
      <4>9. f[k - 1] \in Seq(T)
        BY <4>2
      <4>3. f[k] = f[k - 1] \o ss[k] /\ off[k] = off[k - 1] + Len(ss[k])
        BY <3>2, <3>5, <2>2, <2>3
      <4>4. ss[k] \in Seq(T) /\ f[k - 1] \in Seq(T)
        BY <3>2, <1>0, <4>9
      <4> HIDE DEF Good
      <4>5. f[k] \in Seq(T) /\ Len(f[k]) = off[k]
        <5>1. f[k - 1] \o ss[k] \in Seq(T) /\ Len(f[k - 1] \o ss[k]) = Len(f[k - 1]) + Len(ss[k])
          BY <4>4, ConcatProperties
        <5>2. Len(f[k - 1]) = off[k - 1]
          BY <4>2 DEF Good
        <5> QED
          BY <5>1, <5>2, <4>3
      <4>7. \A x \in 1 .. Len(f[k - 1]) + Len(ss[k]) :
              f[k][x] = IF x <= Len(f[k - 1]) THEN f[k - 1][x] ELSE ss[k][x - Len(f[k - 1])]
        BY <4>4, <4>3, ConcatProperties
      <4>8. Len(f[k - 1]) = off[k - 1] /\ Len(f[k - 1]) \in Nat /\ Len(ss[k]) \in Nat
        BY <4>2, <4>4, LenProperties DEF Good
      <4>6. ASSUME NEW i \in 1 .. k, NEW j \in 1 .. Len(ss[i])
            PROVE  f[k][off[i - 1] + j] = ss[i][j]
        <5>1. CASE i = k
          <6>1. off[i - 1] = Len(f[k - 1])
            BY <5>1, <4>8
          <6>2. j \in 1 .. Len(ss[k])
            BY <5>1
          <6>3. /\ off[i - 1] + j \in 1 .. Len(f[k - 1]) + Len(ss[k])
                /\ ~(off[i - 1] + j <= Len(f[k - 1]))
                /\ (off[i - 1] + j) - Len(f[k - 1]) = j
            BY <6>1, <6>2, <4>8
          <6>4. f[k][off[i - 1] + j] = ss[k][(off[i - 1] + j) - Len(f[k - 1])]
            BY <6>3, <4>7, Zenon
          <6> QED
            BY <6>4, <6>3, <5>1
        <5>2. CASE i # k
          <6>1. i \in 1 .. k - 1 /\ i \in 1 .. Len(ss) /\ i \in 0 .. k - 1 /\ i - 1 \in 0 .. Len(ss)
            BY <5>2, <3>2, <4>1, <1>0
          <6>2. k - 1 \in 0 .. Len(ss)
            BY <4>1
          <6>3. off[i] <= off[k - 1]
            BY <6>1, <6>2, OffsetsCover
          <6>4. off[i - 1] \in Nat /\ off[i] = off[i - 1] + Len(ss[i]) /\ off[k - 1] \in Nat /\ Len(ss[i]) \in Nat
            BY <6>1, <4>1, <2>3, <1>0
          <6>5. off[i - 1] + j \in 1 .. Len(f[k - 1])
            BY <6>3, <6>4, <4>8
          <6>6. f[k][off[i - 1] + j] = f[k - 1][off[i - 1] + j]
            <7>1. off[i - 1] + j \in 1 .. Len(f[k - 1]) + Len(ss[k]) /\ off[i - 1] + j <= Len(f[k - 1])
              BY <6>5, <4>8
            <7> QED
              BY <7>1, <4>7, Zenon
          <6> QED
            BY <6>6, <6>1, <4>2 DEF Good
        <5> QED
          BY <5>1, <5>2
      <4> QED
        BY <3>2, <4>5, <4>6 DEF Good
    <3> QED
      BY <3>4, <3>5
  <2>5. Good(Len(ss))
    BY <2>4, <1>2, <1>0
  <2> QED
    BY <2>1, <2>5
<1> QED
  BY <1>1, <1>2
\* Division, for the prover.
LEMMA Multiple ==
  ASSUME NEW n \in Nat \ {0}, NEW q \in Int
  PROVE  (n * q) % n = 0
  BY SMT

\* A number is a multiple of n and a rest.
LEMMA Multiples ==
  ASSUME NEW n \in Nat \ {0}, NEW a \in Nat
  PROVE  /\ a \div n \in Int /\ a % n \in 0 .. n - 1 /\ a = n * (a \div n) + (a % n)
  BY SMT

\* .align moves to the multiple that is next.
LEMMA AlignedIs ==
  ASSUME NEW n \in Nat \ {0}, NEW addr \in Nat
  PROVE  /\ Asm!Aligned(addr, n) \in Nat /\ addr <= Asm!Aligned(addr, n)
         /\ (CHOOSE a \in addr .. addr + n - 1 : a % n = 0) = Asm!Aligned(addr, n)
<1> DEFINE b == Asm!Aligned(addr, n)
<1>1. addr \div n \in Int /\ addr % n \in 0 .. n - 1 /\ addr = n * (addr \div n) + (addr % n)
  BY Multiples
<1>2. b \in addr .. addr + n - 1 /\ b % n = 0
  <2>1. CASE addr % n = 0
    BY <2>1 DEF Asm!Aligned
  <2>2. CASE addr % n # 0
    <3>1. b = addr + n - (addr % n)
      BY <2>2 DEF Asm!Aligned
    <3> DEFINE q == addr \div n
    <3>2. n * (q + 1) = n * q + n
      BY <1>1
    <3>3. b = n * (q + 1)
      BY <3>1, <3>2, <1>1
    <3>4. b % n = 0
      BY <3>3, <1>1, Multiple
    <3> QED
      BY <3>1, <3>4, <1>1, <2>2
  <2> QED
    BY <2>1, <2>2
<1>3. ASSUME NEW a \in addr .. addr + n - 1, a % n = 0
      PROVE  a = b
  <2> HIDE DEF b
  <2>1. a \in Nat /\ b \in Nat /\ a - b < n /\ b - a < n
    BY <1>2
  <2>2. a = n * (a \div n) /\ b = n * (b \div n) /\ a \div n \in Int /\ b \div n \in Int
    BY <2>1, <1>2, <1>3, Multiples
  <2> DEFINE p == a \div n
             t == b \div n
  <2>3. a = n * p /\ b = n * t /\ p \in Int /\ t \in Int
    BY <2>2
  <2> HIDE DEF p, t
  <2>4. a - b = n * (p - t)
    BY <2>3
  <2>5. CASE p > t
    <3>1. p - t >= 1 /\ p - t \in Int
      BY <2>3, <2>5
    <3>2. n * (p - t) >= n
      BY <3>1
    <3> QED
      BY <3>2, <2>1, <2>4
  <2>6. CASE t > p
    <3>1. t - p >= 1 /\ t - p \in Int
      BY <2>3, <2>6
    <3>2. n * (t - p) >= n
      BY <3>1
    <3>3. b - a = n * (t - p)
      BY <2>3
    <3> QED
      BY <3>2, <3>3, <2>1
  <2> QED
    BY <2>3, <2>5, <2>6
<1>4. (CHOOSE a \in addr .. addr + n - 1 : a % n = 0) = b
  <2> HIDE DEF b
  <2>1. \E a \in addr .. addr + n - 1 : a % n = 0
    BY <1>2
  <2> QED
    BY <2>1, <1>3
<1> QED
  BY <1>2, <1>4

\* The addresses exist.
LEMMA AddressIs ==
  ASSUME NEW stmts, Len(stmts) \in Nat
  PROVE  /\ Asm!Address(stmts)[1] = 0
         /\ \A j \in 1 .. Len(stmts) : Asm!Address(stmts)[j + 1] = Asm!Behind(stmts[j], Asm!Address(stmts)[j])
<1> DEFINE Upto(f, k) ==
             f = [j \in 1 .. k |-> IF j = 1 THEN 0 ELSE Asm!Behind(stmts[j - 1], f[j - 1])]
<1> DEFINE Failing == {k \in Nat : ~ \E f : Upto(f, k)}
<1>1. ASSUME Failing # {} PROVE FALSE
  <2>1. PICK k \in Failing : \A j \in Failing : k <= j
    <3>1. Failing \subseteq Nat
      OBVIOUS
    <3> QED
      BY <3>1, <1>1, MinOfNats
  <2>2. k \in Nat /\ ~ \E f : Upto(f, k)
    OBVIOUS
  <2>3. \A j \in Nat : j \notin Failing => \E f : Upto(f, j)
    OBVIOUS
  <2> HIDE DEF Failing
  <2>4. k # 0
    <3> DEFINE g == [j \in 1 .. 0 |-> j]
    <3>1. Upto(g, 0)
      OBVIOUS
    <3> QED
      BY <2>2, <3>1
  <2>5. k - 1 \in Nat /\ ~(k <= k - 1)
    BY <2>2, <2>4
  <2>6. PICK f : Upto(f, k - 1)
    BY <2>1, <2>3, <2>5
  <2> DEFINE g == [j \in 1 .. k |->
                     IF j = k THEN (IF j = 1 THEN 0 ELSE Asm!Behind(stmts[j - 1], f[j - 1])) ELSE f[j]]
  <2>7. ASSUME NEW j \in 1 .. k
        PROVE  g[j] = IF j = 1 THEN 0 ELSE Asm!Behind(stmts[j - 1], g[j - 1])
    <3>1. j # 1 => j - 1 \in 1 .. k /\ j - 1 # k
      BY <2>2
    <3>2. j # 1 => g[j - 1] = f[j - 1]
      BY <3>1
    <3>3. CASE j = k
      BY <3>2, <3>3
    <3>4. CASE j # k
      <4>1. j \in 1 .. (k - 1)
        BY <3>4, <2>2
      <4>2. f[j] = IF j = 1 THEN 0 ELSE Asm!Behind(stmts[j - 1], f[j - 1])
        BY <4>1, <2>6
      <4>3. g[j] = f[j]
        BY <3>4
      <4> QED
        BY <4>2, <4>3, <3>2
    <3> QED
      BY <3>3, <3>4
  <2>8. g = [j \in 1 .. k |-> g[j]]
    OBVIOUS
  <2> HIDE DEF g
  <2>9. Upto(g, k)
    BY <2>7, <2>8
  <2> QED
    BY <2>2, <2>9
<1> DEFINE n == Len(stmts) + 1
<1>2. \E f : Upto(f, n)
  <2>1. n \in Nat
    OBVIOUS
  <2> HIDE DEF n
  <2>2. n \notin Failing
    BY <1>1
  <2> QED
    BY <2>1, <2>2
<1>3. Asm!Address(stmts) = CHOOSE f : Upto(f, n)
  BY DEF Asm!Address
<1>4. Upto(Asm!Address(stmts), n)
  <2> HIDE DEF Upto
  <2> QED
    BY <1>2, <1>3, Zenon
<1>5. \A j \in 1 .. n :
        Asm!Address(stmts)[j] = IF j = 1 THEN 0 ELSE Asm!Behind(stmts[j - 1], Asm!Address(stmts)[j - 1])
  BY <1>4
<1>6. 1 \in 1 .. n /\ \A j \in 1 .. Len(stmts) : j + 1 \in 1 .. n /\ j + 1 # 1 /\ (j + 1) - 1 = j
  OBVIOUS
<1> QED
  BY <1>5, <1>6

\* What the parse functions make of a statement.
LEMMA StatementIs ==
  ASSUME NEW s \in Asm!Statement
  PROVE  /\ s.kind \in {"label", "pos", "align", "comment", "bad", "data", "instr"}
         /\ s.kind \in {"pos", "align"} => s.value \in Nat
         /\ s.kind = "label" => s.name \in STRING
         /\ s.kind \in {"instr", "data"} => s.sym \in STRING /\ Asm!Codes(s) \in Code
         /\ Asm!Bytes(s) \in Nat
         /\ s.kind \notin {"instr", "data"} => Asm!Bytes(s) = 0
         /\ Asm!Uses(s) => \A a \in Int : Asm!Relocated(Asm!Codes(s), a) = [Asm!Codes(s) EXCEPT !.valC = a]
<1>0. WORD \in Nat
  BY Y86Assumption
<1>1. CASE s \in [kind : {"label"}, name : STRING]
  BY <1>1 DEF Asm!Bytes, Asm!Uses
<1>2. CASE s \in [kind : {"pos", "align"}, value : Nat]
  BY <1>2 DEF Asm!Bytes, Asm!Uses
<1>3. CASE s \in [kind : {"comment", "bad"}]
  BY <1>3 DEF Asm!Bytes, Asm!Uses
<1>4. CASE s \in [kind : {"data"}, bytes : Nat, valC : Asm!Word, sym : STRING]
  <2>1. /\ s.kind = "data" /\ Asm!Bytes(s) \in Nat /\ s.sym \in STRING
        /\ s.valC \in Int
    BY <1>4, Y86Assumption DEF Asm!Bytes, Asm!Word
  <2>2. Asm!Codes(s) = [icode |-> "DATA", ifun |-> "NONE", rA |-> RNONE, rB |-> RNONE, valC |-> s.valC]
    BY <2>1 DEF Asm!Codes, Asm!Data, Asm!HaltInstr
  <2>3. Asm!Codes(s) \in Code
    BY <2>1, <2>2 DEF Code
  <2>4. \A a \in Int : Asm!Relocated(Asm!Codes(s), a) = [Asm!Codes(s) EXCEPT !.valC = a]
    <3> TAKE a \in Int
    <3>1. Asm!Codes(s).icode = "DATA"
      BY <2>2
    <3>2. Asm!Relocated(Asm!Codes(s), a) = Asm!Data(a)
      BY <3>1 DEF Asm!Relocated
    <3>3. Asm!Data(a) = [icode |-> "DATA", ifun |-> "NONE", rA |-> RNONE, rB |-> RNONE, valC |-> a]
      <4>1. Asm!HaltInstr = [icode |-> "HALT", ifun |-> "NONE", rA |-> RNONE, rB |-> RNONE, valC |-> 0]
        BY DEF Asm!HaltInstr
      <4>2. Asm!Data(a) = [Asm!HaltInstr EXCEPT !.icode = "DATA", !.valC = a]
        BY DEF Asm!Data
      <4> QED
        BY <4>1, <4>2
    <3>4. [Asm!Codes(s) EXCEPT !.valC = a]
            = [icode |-> "DATA", ifun |-> "NONE", rA |-> RNONE, rB |-> RNONE, valC |-> a]
      BY <2>2
    <3> QED
      BY <3>2, <3>3, <3>4
  <2> QED
    BY <2>1, <2>3, <2>4
<1>5. CASE /\ s \in [kind : {"instr"}, icode : Asm!KnownCode, ifun : Asm!Cond \cup Asm!AluFn \cup {"NONE"},
                     rA : Reg \cup {RNONE}, rB : Reg \cup {RNONE}, valC : Asm!Word, sym : STRING]
           /\ s.sym = "none" \/ s.icode \in {"IRMOVQ", "JXX", "CALL"}
  <2>1. s.kind = "instr" /\ s.sym \in STRING /\ s.valC \in Int
    BY <1>5, Y86Assumption DEF Asm!Word
  <2>2. Asm!Bytes(s) \in Nat
    BY <2>1, <1>0 DEF Asm!Bytes, Asm!NextPc, Asm!ValcAt
  <2>3. Asm!Codes(s) = [icode |-> s.icode, ifun |-> s.ifun, rA |-> s.rA, rB |-> s.rB, valC |-> s.valC]
    BY <2>1 DEF Asm!Codes
  <2>4. Asm!Codes(s) \in Code
    BY <2>1, <2>3, <1>5 DEF Code
  <2>5. Asm!Uses(s) => Asm!Codes(s).icode \in {"IRMOVQ", "JXX", "CALL"}
    BY <1>5, <2>3 DEF Asm!Uses
  <2>6. Asm!Uses(s) => \A a \in Int : Asm!Relocated(Asm!Codes(s), a) = [Asm!Codes(s) EXCEPT !.valC = a]
    BY <2>5 DEF Asm!Relocated
  <2> QED
    BY <2>1, <2>2, <2>4, <2>6
<1> QED
  BY <1>1, <1>2, <1>3, <1>4, <1>5 DEF Asm!Statement

----------------------------------------------------------------------------
(* The invariant of the assembler.                                         *)

\* Where the lines of the source stand in its statements.
Off == CHOOSE off : IsOffset(off, source)
\* The statements, and where they stand.
At == Asm!Address(Asm!Statements)
\* How many statements parse_line has read.
Parsed == Off[Len(lines)] - Len(rest)
Alive == stage \notin {"failed", "crashed"}
InLine(j, k) == Off[k - 1] < j /\ j <= Off[k]
Emits(s) == s.kind \in {"instr", "data"}
HasEntry(k) == \E p \in 1 .. Len(reltab) : reltab[p].line = k

LineType == [type : {"COMM", "INS"}, addr : Nat, codes : Code, bytes : Nat]
Entry == [line : Nat, name : STRING]

\* parse_line reads the statements in order.
PosInv ==
  /\ stage \in {"assemble", "relocate", "write", "done", "failed", "crashed"}
  /\ lines \in Seq(LineType) /\ Len(lines) <= Len(source)
  /\ rest \in Seq(Asm!Statement) /\ reltab \in Seq(Entry)
  /\ Alive =>
       /\ lines = <<>> => rest = <<>>
       /\ lines # <<>> => Len(rest) <= Len(source[Len(lines)])
       /\ \A i \in 1 .. Len(rest) : rest[i] = Asm!Statements[Parsed + i]
       /\ stage # "assemble" => rest = <<>> /\ Len(lines) = Len(source)

\* vmaddr and symtab are those of the statements read.
SymInv ==
  Alive =>
    /\ vmaddr = At[Parsed + 1]
    /\ \A j \in 1 .. Parsed + 1 : At[j] \in Nat
    /\ \A j \in 1 .. Parsed : Asm!Statements[j].kind # "bad"
    /\ \A j \in 1 .. Parsed : Asm!Statements[j].kind = "label" =>
         Asm!Statements[j].name \in DOMAIN symtab /\ symtab[Asm!Statements[j].name] = At[j]
    /\ \A n \in DOMAIN symtab : \E j \in 1 .. Parsed : Asm!Defines(Asm!Statements[j], n)
    /\ \A j, k \in 1 .. Parsed :
         Asm!Statements[j].kind = "label" /\ Asm!Defines(Asm!Statements[k], Asm!Statements[j].name) => j = k

\* A statement with a symbol has an entry, or the symbol is known.
RelInv ==
  Alive =>
    /\ \A p \in 1 .. Len(reltab) :
         /\ reltab[p].line \in 1 .. Len(lines)
         /\ \E j \in 1 .. Parsed : /\ InLine(j, reltab[p].line) /\ Asm!Uses(Asm!Statements[j])
                                   /\ Asm!Statements[j].sym = reltab[p].name
    /\ \A j \in 1 .. Parsed : Asm!Uses(Asm!Statements[j]) =>
         \/ Asm!Statements[j].sym \in DOMAIN symtab
         \/ \E p \in 1 .. Len(reltab) : reltab[p].name = Asm!Statements[j].sym
    /\ stage \in {"write", "done"} => reltab = <<>>

\* What a stage has done to the file.
RefuseInv ==
  /\ written \in Nat /\ written <= Len(lines)
  /\ stage \notin {"write", "done"} => image = Asm!Nothing /\ written = 0
  /\ stage = "done" => written = Len(lines)
  /\ stage = "failed" => Asm!Erroneous(Asm!Statements)

\* A line holds the one statement on it that has bytes.
LineInv ==
  Alive /\ Asm!OnePerLine(source) =>
    /\ \A k \in 1 .. Len(lines) : \A j \in 1 .. Parsed : InLine(j, k) /\ Emits(Asm!Statements[j]) =>
         /\ lines[k].type = "INS" /\ lines[k].addr = At[j] /\ lines[k].bytes = Asm!Bytes(Asm!Statements[j])
         /\ lines[k].codes = IF Asm!Uses(Asm!Statements[j]) /\ ~HasEntry(k)
                             THEN Asm!Encoded(Asm!Statements, At, Asm!Statements[j]) ELSE Asm!Codes(Asm!Statements[j])
    /\ \A k \in 1 .. Len(lines) :
         (\A j \in 1 .. Parsed : InLine(j, k) => ~Emits(Asm!Statements[j])) => lines[k].bytes = 0
    /\ \A p, q \in 1 .. Len(reltab) : reltab[p].line = reltab[q].line => p = q

Span(j) == At[j] .. At[j] + Asm!Bytes(Asm!Statements[j]) - 1
\* The file holds the lines that binfile has dealt with.
WriteInv ==
  stage \in {"write", "done"} /\ Asm!OnePerLine(source) =>
    /\ image = [a \in DOMAIN image |-> image[a]]
    /\ DOMAIN image = UNION {Span(j) : j \in 1 .. Off[written]}
    /\ \A a \in DOMAIN image : \A j \in 1 .. Off[written] :
         a \in Span(j) /\ (\A k \in 1 .. Off[written] : a \in Span(k) => k <= j) =>
           image[a] = <<Asm!Encoded(Asm!Statements, At, Asm!Statements[j]), a - At[j]>>

AsmInv ==
  /\ LegalSource(source) /\ PosInv /\ SymInv /\ RelInv /\ RefuseInv /\ LineInv /\ WriteInv

\* The statements of a source, line by line.
LEMMA SourceIs ==
  ASSUME LegalSource(source)
  PROVE  /\ Len(source) \in Nat /\ Asm!Statements \in Seq(Asm!Statement)
         /\ Len(Asm!Statements) \in Nat /\ Len(Asm!Statements) = Off[Len(source)]
         /\ \A i \in 0 .. Len(source) : Off[i] \in Nat /\ Off[i] <= Len(Asm!Statements)
         /\ Off[0] = 0
         /\ \A i \in 1 .. Len(source) :
              /\ source[i] \in Seq(Asm!Statement) /\ Len(source[i]) \in Nat
              /\ Off[i] = Off[i - 1] + Len(source[i])
              /\ \A j \in 1 .. Len(source[i]) : Asm!Statements[Off[i - 1] + j] = source[i][j]
         /\ \A m \in 0 .. Len(source) : \A i \in 0 .. m : Off[i] <= Off[m]
         /\ \A m \in 0 .. Len(source) : \A p \in 1 .. Off[m] : \E i \in 1 .. m : InLine(p, i)
<1>1. source \in Seq(Seq(Asm!Statement))
  BY DEF LegalSource
<1>2. IsOffset(Off, source)
  <2>1. \E off : IsOffset(off, source)
    BY <1>1, OffsetExists
  <2> QED
    BY <2>1, Zenon DEF Off
<1>3. Len(source) \in Nat
  BY <1>1
<1>4. \A i \in 1 .. Len(source) : source[i] \in Seq(Asm!Statement) /\ Len(source[i]) \in Nat
  BY <1>1
<1>5. /\ Asm!Statements \in Seq(Asm!Statement) /\ Len(Asm!Statements) = Off[Len(source)]
      /\ \A i \in 1 .. Len(source) : \A j \in 1 .. Len(source[i]) : Asm!Statements[Off[i - 1] + j] = source[i][j]
  BY <1>1, <1>2, FlattenIs DEF Asm!Statements
<1>6. Len(Asm!Statements) \in Nat
  BY <1>5
<1>7. /\ \A i \in 0 .. Len(source) : Off[i] \in Nat
      /\ Off[0] = 0
      /\ \A i \in 1 .. Len(source) : Off[i] = Off[i - 1] + Len(source[i])
  BY <1>2 DEF IsOffset
<1>8. \A m \in 0 .. Len(source) :
        /\ \A p \in 1 .. Off[m] : \E i \in 1 .. m : Off[i - 1] < p /\ p <= Off[i]
        /\ \A i \in 0 .. m : Off[i] <= Off[m]
  BY <1>1, <1>2, OffsetsCover
<1>9. \A m \in 0 .. Len(source) : \A p \in 1 .. Off[m] : \E i \in 1 .. m : InLine(p, i)
  BY <1>8 DEF InLine
<1>10. \A i \in 0 .. Len(source) : Off[i] <= Len(Asm!Statements)
  <2>1. Len(source) \in 0 .. Len(source)
    BY <1>3
  <2> QED
    BY <2>1, <1>5, <1>8
<1> QED
  BY <1>3, <1>4, <1>5, <1>6, <1>7, <1>8, <1>9, <1>10

\* The source stays as it is.
LEMMA SourceKept ==
  ASSUME source' = source
  PROVE  /\ Off' = Off /\ Asm!Statements' = Asm!Statements /\ At' = At /\ (Asm!OnePerLine(source)' <=> Asm!OnePerLine(source))
         /\ \A j, k : InLine(j, k)' <=> InLine(j, k)
BY DEF Off, Asm!Statements, At, Asm!OnePerLine, InLine

\* A statement is read by its line.
LEMMA InLineIs ==
  ASSUME LegalSource(source), NEW k \in 1 .. Len(source), NEW j \in Nat, InLine(j, k)
  PROVE  /\ j \in 1 .. Len(Asm!Statements) /\ j - Off[k - 1] \in 1 .. Len(source[k])
         /\ Asm!Statements[j] = source[k][j - Off[k - 1]]
         /\ \A i \in 1 .. Len(source) : InLine(j, i) => i = k
<1>1. /\ k - 1 \in 0 .. Len(source) /\ Off[k - 1] \in Nat /\ Off[k] \in Nat
      /\ Off[k] = Off[k - 1] + Len(source[k]) /\ Len(source[k]) \in Nat
  BY SourceIs
<1>2. Off[k] <= Len(Asm!Statements) /\ Len(Asm!Statements) \in Nat
  BY SourceIs
<1>3. j \in 1 .. Len(Asm!Statements) /\ j - Off[k - 1] \in 1 .. Len(source[k])
  BY <1>1, <1>2 DEF InLine
<1>4. Asm!Statements[j] = source[k][j - Off[k - 1]]
  <2>1. Asm!Statements[Off[k - 1] + (j - Off[k - 1])] = source[k][j - Off[k - 1]]
    BY <1>3, SourceIs
  <2>2. Off[k - 1] + (j - Off[k - 1]) = j
    BY <1>1
  <2> QED
    BY <2>1, <2>2
<1>5. ASSUME NEW i \in 1 .. Len(source), InLine(j, i) PROVE i = k
  <2>0. Len(source) \in Nat
    BY SourceIs
  <2>1. /\ Off[i - 1] < j /\ j <= Off[i] /\ Off[k - 1] < j /\ j <= Off[k]
        /\ Off[i - 1] \in Nat /\ Off[i] \in Nat
    BY <1>5, SourceIs DEF InLine
  <2>2. ~(i < k)
    <3>1. i < k => i \in 0 .. k - 1 /\ k - 1 \in 0 .. Len(source)
      BY <2>0
    <3>2. i < k => Off[i] <= Off[k - 1]
      BY <3>1, SourceIs
    <3> QED
      BY <3>2, <2>1, <1>1
  <2>3. ~(k < i)
    <3>1. k < i => k \in 0 .. i - 1 /\ i - 1 \in 0 .. Len(source)
      BY <2>0
    <3>2. k < i => Off[k] <= Off[i - 1]
      BY <3>1, SourceIs
    <3> QED
      BY <3>2, <2>1, <1>1
  <2> QED
    BY <2>2, <2>3, <2>0
<1> QED
  BY <1>3, <1>4, <1>5

\* Behind an instruction or a directive a line has only comments.
LEMMA OnceIs ==
  ASSUME LegalSource(source), Asm!OnePerLine(source), NEW k \in 1 .. Len(source),
         NEW i \in Nat, NEW j \in Nat, InLine(i, k), InLine(j, k), i < j,
         Asm!Statements[i].kind \notin {"label", "comment"}
  PROVE  Asm!Statements[j].kind = "comment"
<1>1. /\ i - Off[k - 1] \in 1 .. Len(source[k]) /\ Asm!Statements[i] = source[k][i - Off[k - 1]]
      /\ j - Off[k - 1] \in 1 .. Len(source[k]) /\ Asm!Statements[j] = source[k][j - Off[k - 1]]
  BY InLineIs
<1>2. k \in DOMAIN source /\ DOMAIN source[k] = 1 .. Len(source[k]) /\ Off[k - 1] \in Nat
      /\ Len(source[k]) \in Nat
  BY SourceIs DEF LegalSource
<1> DEFINE x == i - Off[k - 1]
           y == j - Off[k - 1]
<1>3. x \in DOMAIN source[k] /\ y \in x + 1 .. Len(source[k])
  BY <1>1, <1>2
<1>4. source[k][x].kind \notin {"label", "comment"}
  BY <1>1
<1> HIDE DEF x, y
<1>5. source[k][y].kind = "comment"
  BY <1>2, <1>3, <1>4 DEF Asm!OnePerLine
<1> QED
  BY <1>1, <1>5 DEF y

\* What parse_line reads.
LEMMA ParseIs ==
  ASSUME AsmInv, Asm!parse_line
  PROVE  /\ Parsed \in Nat /\ Parsed + 1 \in 1 .. Len(Asm!Statements)
         /\ Len(lines) \in 1 .. Len(source)
         /\ Head(rest) = Asm!Statements[Parsed + 1] /\ Head(rest) \in Asm!Statement
         /\ InLine(Parsed + 1, Len(lines))
         /\ \A k \in 1 .. Len(lines) - 1 : ~InLine(Parsed + 1, k)
         /\ rest' \in Seq(Asm!Statement)
         /\ Off[Len(lines)] - Len(rest') = Parsed + 1
         /\ Len(rest') <= Len(source[Len(lines)])
         /\ \A i \in 1 .. Len(rest') : rest'[i] = Asm!Statements[(Parsed + 1) + i]
         /\ At[Parsed + 2] = Asm!Behind(Asm!Statements[Parsed + 1], At[Parsed + 1])
         /\ Asm!OnePerLine(source) /\ Asm!Statements[Parsed + 1].kind # "comment" =>
              \A j \in 1 .. Parsed : InLine(j, Len(lines)) => ~Emits(Asm!Statements[j])
<1> DEFINE K == Len(lines)
<1>1. LegalSource(source) /\ PosInv /\ stage = "assemble" /\ rest # <<>> /\ rest' = Tail(rest) /\ Alive
  BY DEF AsmInv, Asm!parse_line, Alive
<1>2. /\ rest \in Seq(Asm!Statement) /\ lines # <<>> /\ lines \in Seq(LineType)
      /\ Len(lines) <= Len(source) /\ Len(rest) <= Len(source[K])
      /\ \A i \in 1 .. Len(rest) : rest[i] = Asm!Statements[Parsed + i]
  BY <1>1 DEF PosInv
<1>3. K \in Nat /\ K # 0 /\ Len(source) \in Nat
  BY <1>1, <1>2, SourceIs
<1>4. K \in 1 .. Len(source) /\ K - 1 \in 0 .. Len(source) /\ K \in 0 .. Len(source)
  BY <1>2, <1>3
<1>5. /\ Off[K] \in Nat /\ Off[K - 1] \in Nat /\ Off[K] = Off[K - 1] + Len(source[K])
      /\ Len(source[K]) \in Nat /\ Off[K] <= Len(Asm!Statements) /\ Len(Asm!Statements) \in Nat
  BY <1>1, <1>4, <1>3, SourceIs
<1>6. /\ Len(rest) \in Nat \ {0} /\ Tail(rest) \in Seq(Asm!Statement) /\ Len(Tail(rest)) = Len(rest) - 1
      /\ Head(rest) = rest[1] /\ Head(rest) \in Asm!Statement
      /\ \A i \in 1 .. Len(Tail(rest)) : Tail(rest)[i] = rest[i + 1]
  <2>1. Len(rest) \in Nat \ {0} /\ Head(rest) = rest[1]
    BY <1>1, <1>2
  <2> QED
    BY <2>1, <1>1, <1>2, HeadTailProperties
<1>7. /\ Parsed = Off[K] - Len(rest) /\ Parsed \in Nat /\ Off[K - 1] <= Parsed /\ Parsed + 1 <= Off[K]
  BY <1>2, <1>5, <1>6 DEF Parsed
<1>8. Parsed + 1 \in 1 .. Len(Asm!Statements) /\ InLine(Parsed + 1, K)
  BY <1>5, <1>7 DEF InLine
<1>9. Head(rest) = Asm!Statements[Parsed + 1]
  BY <1>2, <1>6
<1>10. ASSUME NEW k \in 1 .. K - 1 PROVE ~InLine(Parsed + 1, k)
  <2>1. k \in 0 .. K - 1 /\ Off[k] \in Nat
    BY <1>1, <1>3, <1>4, SourceIs
  <2>2. Off[k] <= Off[K - 1]
    BY <2>1, <1>1, <1>4, SourceIs
  <2> QED
    BY <2>1, <2>2, <1>5, <1>7 DEF InLine
<1>11. /\ rest' \in Seq(Asm!Statement) /\ Off[K] - Len(rest') = Parsed + 1 /\ Len(rest') <= Len(source[K])
  BY <1>1, <1>2, <1>5, <1>6, <1>7
<1>12. ASSUME NEW i \in 1 .. Len(rest') PROVE rest'[i] = Asm!Statements[(Parsed + 1) + i]
  <2>1. i \in 1 .. Len(Tail(rest)) /\ i + 1 \in 1 .. Len(rest)
    BY <1>1, <1>6
  <2>2. rest'[i] = rest[i + 1] /\ rest[i + 1] = Asm!Statements[Parsed + (i + 1)]
    BY <2>1, <1>1, <1>2, <1>6
  <2>3. Parsed + (i + 1) = (Parsed + 1) + i
    BY <1>7
  <2> QED
    BY <2>2, <2>3
<1>13. At[Parsed + 2] = Asm!Behind(Asm!Statements[Parsed + 1], At[Parsed + 1])
  <2>1. (Parsed + 1) + 1 = Parsed + 2
    BY <1>7
  <2>2. At[(Parsed + 1) + 1] = Asm!Behind(Asm!Statements[Parsed + 1], At[Parsed + 1])
    BY <1>5, <1>8, AddressIs DEF At
  <2> QED
    BY <2>1, <2>2
<1>14. ASSUME Asm!OnePerLine(source), Asm!Statements[Parsed + 1].kind # "comment",
              NEW j \in 1 .. Parsed, InLine(j, K)
       PROVE  ~Emits(Asm!Statements[j])
  <2>1. j \in Nat /\ Parsed + 1 \in Nat /\ j < Parsed + 1
    BY <1>7
  <2>2. Asm!Statements[j].kind \in {"label", "comment"}
    BY <2>1, <1>1, <1>4, <1>8, <1>14, OnceIs
  <2> QED
    BY <2>2 DEF Emits
<1> QED
  BY <1>4, <1>6, <1>7, <1>8, <1>9, <1>10, <1>11, <1>12, <1>13, <1>14

\* A line in the place of the last one.
LEMMA LineReplaced ==
  ASSUME lines \in Seq(LineType), lines # <<>>, NEW l \in LineType, Asm!UpdateLine(l)
  PROVE  /\ lines' \in Seq(LineType) /\ Len(lines') = Len(lines)
         /\ lines'[Len(lines)] = l
         /\ \A k \in 1 .. Len(lines) - 1 : lines'[k] = lines[k]
         /\ Asm!Last(lines) = lines[Len(lines)] /\ lines[Len(lines)] \in LineType
<1>1. Len(lines) \in Nat /\ Len(lines) \in 1 .. Len(lines)
  BY EmptySeq
<1>2. lines' = [lines EXCEPT ![Len(lines)] = l]
  BY DEF Asm!UpdateLine
<1>3. /\ lines' \in Seq(LineType) /\ Len(lines') = Len(lines)
      /\ \A j \in 1 .. Len(lines) : lines'[j] = IF j = Len(lines) THEN l ELSE lines[j]
  BY <1>1, <1>2, ExceptSeq
<1>4. Asm!Last(lines) = lines[Len(lines)]
  BY DEF Asm!Last
<1>5. lines[Len(lines)] \in LineType
  BY <1>1, ElementOfSeq
<1> QED
  BY <1>1, <1>3, <1>4, <1>5

\* An entry in front of the others.
LEMMA RelocAdded ==
  ASSUME reltab \in Seq(Entry), Len(lines) \in Nat, NEW name \in STRING, Asm!add_reloc(name)
  PROVE  /\ reltab' \in Seq(Entry) /\ Len(reltab) \in Nat /\ Len(reltab') = Len(reltab) + 1
         /\ reltab'[1].line = Len(lines) /\ reltab'[1].name = name
         /\ \A p \in 1 .. Len(reltab) : reltab'[p + 1] = reltab[p]
<1> DEFINE e == [line |-> Len(lines), name |-> name]
<1>1. e \in Entry
  BY DEF Entry
<1>2. <<e>> \in Seq(Entry) /\ Len(<<e>>) = 1 /\ <<e>>[1] = e
  BY <1>1
<1>3. reltab' = <<e>> \o reltab
  BY DEF Asm!add_reloc
<1>4. Len(reltab) \in Nat
  BY EmptySeq, LenProperties
<1> HIDE DEF e
<1>5. /\ reltab' \in Seq(Entry) /\ Len(reltab') = Len(<<e>>) + Len(reltab)
      /\ \A i \in 1 .. Len(<<e>>) + Len(reltab) :
           reltab'[i] = IF i <= Len(<<e>>) THEN <<e>>[i] ELSE reltab[i - Len(<<e>>)]
  BY <1>2, <1>3, ConcatProperties
<1>6. reltab'[1] = e
  BY <1>2, <1>4, <1>5
<1>7. ASSUME NEW p \in 1 .. Len(reltab) PROVE reltab'[p + 1] = reltab[p]
  <2>1. p + 1 \in 1 .. 1 + Len(reltab) /\ ~(p + 1 <= 1) /\ (p + 1) - 1 = p
    BY <1>4
  <2>2. reltab'[p + 1] = reltab[(p + 1) - 1]
    BY <2>1, <1>2, <1>5
  <2> QED
    BY <2>1, <2>2
<1> QED
  BY <1>2, <1>4, <1>5, <1>6, <1>7 DEF e
\* A statement that is not refused: all but what it does to its line.
LEMMA ParseStays ==
  ASSUME AsmInv, Asm!parse_line, stage' = "assemble",
         lines' \in Seq(LineType), Len(lines') = Len(lines),
         vmaddr' = Asm!Behind(Asm!Statements[Parsed + 1], vmaddr), vmaddr' \in Nat,
         Asm!Statements[Parsed + 1].kind # "bad",
         IF Asm!Statements[Parsed + 1].kind = "label"
           THEN Asm!add_symbol(Asm!Statements[Parsed + 1].name) ELSE symtab' = symtab,
         IF Asm!Uses(Asm!Statements[Parsed + 1])
           THEN Asm!add_reloc(Asm!Statements[Parsed + 1].sym) ELSE reltab' = reltab
  PROVE  /\ LegalSource(source)' /\ PosInv' /\ SymInv' /\ RelInv' /\ RefuseInv' /\ WriteInv'
         /\ Parsed' = Parsed + 1
         /\ reltab' \in Seq(Entry)
<1> DEFINE d == Parsed + 1
           K == Len(lines)
<1>1. /\ LegalSource(source) /\ PosInv /\ SymInv /\ RelInv /\ RefuseInv /\ stage = "assemble" /\ Alive /\ Alive'
      /\ source' = source /\ image' = image /\ written' = written
  BY DEF AsmInv, Asm!parse_line, Alive
<1>2. Off' = Off /\ Asm!Statements' = Asm!Statements /\ At' = At /\ \A j, k : InLine(j, k)' <=> InLine(j, k)
  BY <1>1, SourceKept
<1>3. /\ Parsed \in Nat /\ d \in 1 .. Len(Asm!Statements) /\ K \in 1 .. Len(source) /\ K \in Nat
      /\ Asm!Statements[d] \in Asm!Statement /\ InLine(d, K)
      /\ rest' \in Seq(Asm!Statement) /\ Off[K] - Len(rest') = d
      /\ Len(rest') <= Len(source[K])
      /\ \A i \in 1 .. Len(rest') : rest'[i] = Asm!Statements[d + i]
      /\ At[Parsed + 2] = Asm!Behind(Asm!Statements[d], At[d])
  BY ParseIs
<1>4. Parsed' = d /\ Parsed' = Parsed + 1
  BY <1>2, <1>3 DEF Parsed
<1>5. LegalSource(source)'
  BY <1>1
<1>6. reltab \in Seq(Entry) /\ lines \in Seq(LineType) /\ lines # <<>> /\ lines' # <<>>
  BY <1>1, <1>3 DEF PosInv
<1>7. /\ reltab' \in Seq(Entry) /\ Len(reltab) \in Nat /\ Len(reltab') \in Nat
      /\ Asm!Uses(Asm!Statements[d]) =>
           /\ Len(reltab') = Len(reltab) + 1
           /\ reltab'[1].line = K /\ reltab'[1].name = Asm!Statements[d].sym
           /\ \A p \in 1 .. Len(reltab) : reltab'[p + 1] = reltab[p]
      /\ ~Asm!Uses(Asm!Statements[d]) => reltab' = reltab
  <2>1. Len(reltab) \in Nat
    BY <1>6
  <2>2. CASE Asm!Uses(Asm!Statements[d])
    <3>1. Asm!Statements[d].sym \in STRING
      BY <2>2, <1>3, StatementIs DEF Asm!Uses
    <3>2. Asm!add_reloc(Asm!Statements[d].sym)
      BY <2>2
    <3>3. Len(lines) \in Nat
      BY <1>3
    <3> DEFINE nm == Asm!Statements[d].sym
    <3>4. nm \in STRING /\ Asm!add_reloc(nm)
      BY <3>1, <3>2
    <3> HIDE DEF nm
    <3>5. /\ reltab' \in Seq(Entry) /\ Len(reltab) \in Nat /\ Len(reltab') = Len(reltab) + 1
          /\ reltab'[1].line = Len(lines) /\ reltab'[1].name = nm
          /\ \A p \in 1 .. Len(reltab) : reltab'[p + 1] = reltab[p]
      BY <3>3, <3>4, <1>6, RelocAdded
    <3> QED
      BY <2>1, <2>2, <3>5 DEF nm
  <2>3. CASE ~Asm!Uses(Asm!Statements[d])
    BY <2>1, <2>3, <1>6
  <2> QED
    BY <2>2, <2>3
<1>8. PosInv'
  <2>1. Len(lines') <= Len(source') /\ Len(rest') <= Len(source[Len(lines')])
    BY <1>1, <1>3
  <2>2. \A i \in 1 .. Len(rest') : rest'[i] = Asm!Statements'[Parsed' + i]
    BY <1>2, <1>3, <1>4
  <2> QED
    BY <2>1, <2>2, <1>1, <1>3, <1>6, <1>7 DEF PosInv
<1> HIDE DEF d, K
<1>9. /\ vmaddr = At[d] /\ \A j \in 1 .. d : At[j] \in Nat
      /\ \A j \in 1 .. Parsed : Asm!Statements[j].kind # "bad"
      /\ \A j \in 1 .. Parsed : Asm!Statements[j].kind = "label" =>
           Asm!Statements[j].name \in DOMAIN symtab /\ symtab[Asm!Statements[j].name] = At[j]
      /\ \A n \in DOMAIN symtab : \E j \in 1 .. Parsed : Asm!Defines(Asm!Statements[j], n)
      /\ \A j, k \in 1 .. Parsed :
           Asm!Statements[j].kind = "label" /\ Asm!Defines(Asm!Statements[k], Asm!Statements[j].name) => j = k
  BY <1>1 DEF SymInv, d
<1>10. /\ d \in Nat /\ d = Parsed + 1 /\ Parsed' + 1 = Parsed + 2 /\ d + 1 = Parsed + 2
       /\ \A j \in 1 .. d : j = d \/ j \in 1 .. Parsed
       /\ \A j \in 1 .. d + 1 : j = d + 1 \/ j \in 1 .. d
       /\ d \in 1 .. d /\ \A j \in 1 .. Parsed : j \in 1 .. d /\ j # d
  BY <1>3, <1>4 DEF d
<1>11. /\ Asm!Statements[d].kind = "label" => Asm!add_symbol(Asm!Statements[d].name)
       /\ Asm!Statements[d].kind # "label" => symtab' = symtab
       /\ Asm!Statements[d].kind # "bad" /\ vmaddr' = Asm!Behind(Asm!Statements[d], vmaddr)
  BY DEF d
<1>12. /\ DOMAIN symtab \subseteq DOMAIN symtab'
       /\ \A n \in DOMAIN symtab : symtab'[n] = symtab[n]
       /\ Asm!Statements[d].kind = "label" =>
            /\ Asm!Statements[d].name \notin DOMAIN symtab
            /\ DOMAIN symtab' = DOMAIN symtab \cup {Asm!Statements[d].name}
            /\ symtab'[Asm!Statements[d].name] = vmaddr
  BY <1>11 DEF Asm!add_symbol
<1>13. SymInv'
  <2>1. vmaddr' = At[Parsed' + 1]
    BY <1>3, <1>9, <1>10, <1>11
  <2>2. \A j \in 1 .. Parsed' + 1 : At[j] \in Nat
    <3>1. At[d + 1] \in Nat
      BY <2>1, <1>10
    <3> QED
      BY <3>1, <1>9, <1>10
  <2>3. \A j \in 1 .. d : Asm!Statements[j].kind # "bad"
    BY <1>9, <1>10, <1>11
  <2>4. ASSUME NEW j \in 1 .. d, Asm!Statements[j].kind = "label"
        PROVE  Asm!Statements[j].name \in DOMAIN symtab' /\ symtab'[Asm!Statements[j].name] = At[j]
    <3>1. CASE j = d
      BY <3>1, <2>4, <1>9, <1>12
    <3>2. CASE j \in 1 .. Parsed
      BY <3>2, <2>4, <1>9, <1>12
    <3> QED
      BY <3>1, <3>2, <1>10
  <2>5. ASSUME NEW n \in DOMAIN symtab' PROVE \E j \in 1 .. d : Asm!Defines(Asm!Statements[j], n)
    <3>1. CASE n \in DOMAIN symtab
      BY <3>1, <1>9, <1>10
    <3>2. CASE n \notin DOMAIN symtab
      <4>1. Asm!Statements[d].kind = "label" /\ n = Asm!Statements[d].name
        BY <3>2, <2>5, <1>11, <1>12
      <4>2. Asm!Defines(Asm!Statements[d], n)
        BY <4>1 DEF Asm!Defines
      <4> QED
        BY <4>2, <1>10
    <3> QED
      BY <3>1, <3>2
  <2>6. ASSUME NEW j \in 1 .. d, NEW k \in 1 .. d, Asm!Statements[j].kind = "label",
               Asm!Defines(Asm!Statements[k], Asm!Statements[j].name)
        PROVE  j = k
    <3>0. Asm!Statements[k].kind = "label" /\ Asm!Statements[k].name = Asm!Statements[j].name
      BY <2>6 DEF Asm!Defines
    <3>1. CASE j \in 1 .. Parsed /\ k \in 1 .. Parsed
      BY <3>1, <2>6, <1>9
    <3>2. CASE j = d /\ k \in 1 .. Parsed
      BY <3>0, <3>2, <2>6, <1>9, <1>12
    <3>3. CASE k = d /\ j \in 1 .. Parsed
      BY <3>0, <3>3, <2>6, <1>9, <1>12
    <3> QED
      BY <3>1, <3>2, <3>3, <1>10
  <2> QED
    BY <2>1, <2>2, <2>3, <2>4, <2>5, <2>6, <1>2, <1>4, <1>10 DEF SymInv
<1>14. RelInv'
  <2>1. ASSUME NEW p \in 1 .. Len(reltab')
        PROVE  /\ reltab'[p].line \in 1 .. K
               /\ \E j \in 1 .. d : /\ InLine(j, reltab'[p].line) /\ Asm!Uses(Asm!Statements[j])
                                    /\ Asm!Statements[j].sym = reltab'[p].name
    <3>1. ASSUME NEW q \in 1 .. Len(reltab), reltab'[p] = reltab[q]
          PROVE  /\ reltab'[p].line \in 1 .. K
                 /\ \E j \in 1 .. d : /\ InLine(j, reltab'[p].line) /\ Asm!Uses(Asm!Statements[j])
                                      /\ Asm!Statements[j].sym = reltab'[p].name
      BY <3>1, <1>1, <1>10 DEF RelInv, K
    <3>2. CASE ~Asm!Uses(Asm!Statements[d])
      <4>1. p \in 1 .. Len(reltab) /\ reltab'[p] = reltab[p]
        BY <3>2, <1>7
      <4> QED
        BY <4>1, <3>1
    <3>3. CASE Asm!Uses(Asm!Statements[d])
      <4>1. CASE p = 1
        <5>1. reltab'[p].line = K /\ reltab'[p].name = Asm!Statements[d].sym
          BY <3>3, <4>1, <1>7
        <5>2. K \in 1 .. K
          BY <1>3
        <5> QED
          BY <5>1, <5>2, <3>3, <1>3, <1>10
      <4>2. CASE p # 1
        <5>1. p - 1 \in 1 .. Len(reltab) /\ (p - 1) + 1 = p
          BY <4>2, <3>3, <1>7
        <5>2. reltab'[p] = reltab[p - 1]
          BY <5>1, <3>3, <1>7
        <5> QED
          BY <5>1, <5>2, <3>1
      <4> QED
        BY <4>1, <4>2
    <3> QED
      BY <3>2, <3>3
  <2>2. ASSUME NEW j \in 1 .. d, Asm!Uses(Asm!Statements[j])
        PROVE  \/ Asm!Statements[j].sym \in DOMAIN symtab'
               \/ \E p \in 1 .. Len(reltab') : reltab'[p].name = Asm!Statements[j].sym
    <3>1. CASE j = d
      <4>1. 1 \in 1 .. Len(reltab') /\ reltab'[1].name = Asm!Statements[j].sym
        BY <3>1, <2>2, <1>7
      <4> QED
        BY <4>1
    <3>2. CASE j \in 1 .. Parsed
      <4>1. CASE Asm!Statements[j].sym \in DOMAIN symtab
        BY <4>1, <1>12
      <4>2. CASE Asm!Statements[j].sym \notin DOMAIN symtab
        <5>1. PICK p \in 1 .. Len(reltab) : reltab[p].name = Asm!Statements[j].sym
          BY <4>2, <3>2, <2>2, <1>1 DEF RelInv
        <5>2. CASE Asm!Uses(Asm!Statements[d])
          <6>1. p + 1 \in 1 .. Len(reltab') /\ reltab'[p + 1].name = Asm!Statements[j].sym
            BY <5>1, <5>2, <1>7
          <6> QED
            BY <6>1
        <5>3. CASE ~Asm!Uses(Asm!Statements[d])
          BY <5>1, <5>3, <1>7
        <5> QED
          BY <5>2, <5>3
      <4> QED
        BY <4>1, <4>2
    <3> QED
      BY <3>1, <3>2, <1>10
  <2>3. Len(lines') = K
    BY DEF K
  <2> QED
    BY <2>1, <2>2, <2>3, <1>2, <1>4, <1>10 DEF RelInv
<1>15. RefuseInv'
  BY <1>1 DEF RefuseInv
<1>16. WriteInv'
  BY DEF WriteInv
<1> QED
  BY <1>4, <1>5, <1>7, <1>8, <1>13, <1>14, <1>15, <1>16

\* What a statement with bytes leaves in its line.
Emitted(l, j) ==
  /\ l.type = "INS" /\ l.addr = At[j] /\ l.bytes = Asm!Bytes(Asm!Statements[j])
  /\ l.codes = Asm!Codes(Asm!Statements[j])

\* A statement that is not refused, and its line.
LEMMA ParseKeeps ==
  ASSUME AsmInv, Asm!parse_line, stage' = "assemble", NEW l \in LineType,
         IF Asm!Statements[Parsed + 1].kind = "comment" THEN lines' = lines ELSE Asm!UpdateLine(l),
         vmaddr' = Asm!Behind(Asm!Statements[Parsed + 1], vmaddr), vmaddr' \in Nat,
         Asm!Statements[Parsed + 1].kind # "bad",
         IF Asm!Statements[Parsed + 1].kind = "label"
           THEN Asm!add_symbol(Asm!Statements[Parsed + 1].name) ELSE symtab' = symtab,
         IF Asm!Uses(Asm!Statements[Parsed + 1])
           THEN Asm!add_reloc(Asm!Statements[Parsed + 1].sym) ELSE reltab' = reltab,
         IF Emits(Asm!Statements[Parsed + 1])
           THEN Emitted(l, Parsed + 1) ELSE l.bytes \in {0, Asm!Last(lines).bytes}
  PROVE  AsmInv'
<1> DEFINE d == Parsed + 1
           K == Len(lines)
<1>1. /\ LegalSource(source) /\ PosInv /\ LineInv /\ stage = "assemble" /\ Alive /\ Alive'
      /\ source' = source
  BY DEF AsmInv, Asm!parse_line, Alive
<1>2. /\ Off' = Off /\ Asm!Statements' = Asm!Statements /\ At' = At /\ (Asm!OnePerLine(source)' <=> Asm!OnePerLine(source))
      /\ \A j, k : InLine(j, k)' <=> InLine(j, k)
  BY <1>1, SourceKept
<1>3. /\ Parsed \in Nat /\ d \in 1 .. Len(Asm!Statements) /\ K \in 1 .. Len(source) /\ K \in Nat
      /\ Asm!Statements[d] \in Asm!Statement /\ InLine(d, K)
      /\ \A k \in 1 .. K - 1 : ~InLine(d, k)
      /\ Asm!OnePerLine(source) /\ Asm!Statements[d].kind # "comment" =>
           \A j \in 1 .. Parsed : InLine(j, K) => ~Emits(Asm!Statements[j])
  BY ParseIs
<1>4. reltab \in Seq(Entry) /\ lines \in Seq(LineType) /\ lines # <<>> /\ Len(reltab) \in Nat
  BY <1>1, <1>3 DEF PosInv
<1>5. /\ lines' \in Seq(LineType) /\ Len(lines') = K
      /\ \A k \in 1 .. K - 1 : lines'[k] = lines[k]
      /\ Asm!Statements[d].kind # "comment" => lines'[K] = l
      /\ Asm!Statements[d].kind = "comment" => lines'[K] = lines[K]
      /\ Asm!Last(lines) = lines[K]
  <2>1. CASE Asm!Statements[d].kind = "comment"
    BY <2>1, <1>4 DEF Asm!Last
  <2>2. CASE Asm!Statements[d].kind # "comment"
    BY <2>2, <1>4, LineReplaced
  <2> QED
    BY <2>1, <2>2
<1>6. /\ LegalSource(source)' /\ PosInv' /\ SymInv' /\ RelInv' /\ RefuseInv' /\ WriteInv'
      /\ Parsed' = d /\ reltab' \in Seq(Entry)
  BY <1>5, ParseStays
<1>7. /\ Asm!Uses(Asm!Statements[d]) =>
           /\ Len(reltab') = Len(reltab) + 1
           /\ reltab'[1].line = K /\ reltab'[1].name = Asm!Statements[d].sym
           /\ \A p \in 1 .. Len(reltab) : reltab'[p + 1] = reltab[p]
      /\ ~Asm!Uses(Asm!Statements[d]) => reltab' = reltab
  <2>1. CASE Asm!Uses(Asm!Statements[d])
    <3>1. Asm!Statements[d].sym \in STRING
      BY <2>1, <1>3, StatementIs DEF Asm!Uses
    <3>2. Asm!add_reloc(Asm!Statements[d].sym) /\ Len(lines) \in Nat
      BY <2>1, <1>3
    <3> DEFINE nm == Asm!Statements[d].sym
    <3>3. nm \in STRING /\ Asm!add_reloc(nm)
      BY <3>1, <3>2
    <3> HIDE DEF nm
    <3>4. /\ Len(reltab') = Len(reltab) + 1
          /\ reltab'[1].line = Len(lines) /\ reltab'[1].name = nm
          /\ \A p \in 1 .. Len(reltab) : reltab'[p + 1] = reltab[p]
      BY <3>2, <3>3, <1>4, RelocAdded
    <3> QED
      BY <2>1, <3>4 DEF nm
  <2>2. CASE ~Asm!Uses(Asm!Statements[d])
    BY <2>2
  <2> QED
    BY <2>1, <2>2
<1>8. Asm!Uses(Asm!Statements[d]) => Emits(Asm!Statements[d]) /\ Asm!Statements[d].kind # "comment"
  BY DEF Asm!Uses, Emits
<1>9. Emits(Asm!Statements[d]) => Asm!Statements[d].kind # "comment"
  BY DEF Emits
<1>10. /\ IF Emits(Asm!Statements[d]) THEN Emitted(l, d) ELSE l.bytes \in {0, lines[K].bytes}
  BY <1>5
<1> HIDE DEF d, K
<1>11. /\ d \in Nat /\ d = Parsed + 1
       /\ \A j \in 1 .. d : j = d \/ j \in 1 .. Parsed
       /\ d \in 1 .. d /\ \A j \in 1 .. Parsed : j \in 1 .. d
       /\ \A k \in 1 .. K : k = K \/ k \in 1 .. K - 1
       /\ K \in 1 .. K /\ \A k \in 1 .. K - 1 : k \in 1 .. K /\ k # K
  BY <1>3 DEF d
<1>12. ASSUME Asm!OnePerLine(source) PROVE
        /\ \A k \in 1 .. K : \A j \in 1 .. Parsed : InLine(j, k) /\ Emits(Asm!Statements[j]) =>
             /\ lines[k].type = "INS" /\ lines[k].addr = At[j] /\ lines[k].bytes = Asm!Bytes(Asm!Statements[j])
             /\ lines[k].codes = IF Asm!Uses(Asm!Statements[j]) /\ ~HasEntry(k)
                                 THEN Asm!Encoded(Asm!Statements, At, Asm!Statements[j]) ELSE Asm!Codes(Asm!Statements[j])
        /\ \A k \in 1 .. K :
             (\A j \in 1 .. Parsed : InLine(j, k) => ~Emits(Asm!Statements[j])) => lines[k].bytes = 0
        /\ \A p, q \in 1 .. Len(reltab) : reltab[p].line = reltab[q].line => p = q
  BY <1>1, <1>12 DEF LineInv, K
<1>13. \A p \in 1 .. Len(reltab) :
         /\ reltab[p].line \in 1 .. K
         /\ \E j \in 1 .. Parsed : InLine(j, reltab[p].line) /\ Emits(Asm!Statements[j])
  BY <1>1 DEF AsmInv, RelInv, K, Asm!Uses, Emits
<1>14. \A k \in 1 .. K - 1 : HasEntry(k)' <=> HasEntry(k)
  <2>1. CASE ~Asm!Uses(Asm!Statements[d])
    BY <2>1, <1>7 DEF HasEntry
  <2>2. CASE Asm!Uses(Asm!Statements[d])
    <3>1. ASSUME NEW k \in 1 .. K - 1, NEW p \in 1 .. Len(reltab), reltab[p].line = k
          PROVE  \E q \in 1 .. Len(reltab') : reltab'[q].line = k
      <4>1. p + 1 \in 1 .. Len(reltab') /\ reltab'[p + 1].line = k
        BY <2>2, <3>1, <1>4, <1>7
      <4> QED
        BY <4>1
    <3>2. ASSUME NEW k \in 1 .. K - 1, NEW p \in 1 .. Len(reltab'), reltab'[p].line = k
          PROVE  \E q \in 1 .. Len(reltab) : reltab[q].line = k
      <4>1. p # 1
        BY <2>2, <3>2, <1>7, <1>11
      <4>2. p - 1 \in 1 .. Len(reltab) /\ (p - 1) + 1 = p
        BY <2>2, <4>1, <1>4, <1>7
      <4>3. reltab'[p] = reltab[p - 1]
        BY <2>2, <4>2, <1>7
      <4> QED
        BY <4>2, <4>3, <3>2
    <3> QED
      BY <3>1, <3>2 DEF HasEntry
  <2> QED
    BY <2>1, <2>2
<1>15. Asm!Statements[d].kind = "comment" => \A k \in 1 .. K : HasEntry(k)' <=> HasEntry(k)
  BY <1>7, <1>8 DEF HasEntry
<1>16. ASSUME Asm!Uses(Asm!Statements[d]), NEW k \in 1 .. K, k = K PROVE HasEntry(k)'
  <2>1. 1 \in 1 .. Len(reltab') /\ reltab'[1].line = k
    BY <1>4, <1>7, <1>16
  <2> QED
    BY <2>1 DEF HasEntry
<1>17. ASSUME Asm!OnePerLine(source) PROVE
        /\ \A k \in 1 .. K : \A j \in 1 .. d : InLine(j, k) /\ Emits(Asm!Statements[j]) =>
             /\ lines'[k].type = "INS" /\ lines'[k].addr = At[j] /\ lines'[k].bytes = Asm!Bytes(Asm!Statements[j])
             /\ lines'[k].codes = IF Asm!Uses(Asm!Statements[j]) /\ ~HasEntry(k)'
                                  THEN Asm!Encoded(Asm!Statements, At, Asm!Statements[j]) ELSE Asm!Codes(Asm!Statements[j])
        /\ \A k \in 1 .. K :
             (\A j \in 1 .. d : InLine(j, k) => ~Emits(Asm!Statements[j])) => lines'[k].bytes = 0
        /\ \A p, q \in 1 .. Len(reltab') : reltab'[p].line = reltab'[q].line => p = q
  <2>1. ASSUME NEW k \in 1 .. K, NEW j \in 1 .. d, InLine(j, k), Emits(Asm!Statements[j])
        PROVE  /\ lines'[k].type = "INS" /\ lines'[k].addr = At[j] /\ lines'[k].bytes = Asm!Bytes(Asm!Statements[j])
               /\ lines'[k].codes = IF Asm!Uses(Asm!Statements[j]) /\ ~HasEntry(k)'
                                    THEN Asm!Encoded(Asm!Statements, At, Asm!Statements[j]) ELSE Asm!Codes(Asm!Statements[j])
    <3>1. CASE j = d
      <4>1. k = K
        BY <2>1, <3>1, <1>3, <1>11
      <4>2. lines'[k] = l /\ Emitted(l, d)
        BY <4>1, <2>1, <3>1, <1>5, <1>9, <1>10
      <4> QED
        BY <4>1, <4>2, <3>1, <1>16 DEF Emitted
    <3>2. CASE j \in 1 .. Parsed /\ k \in 1 .. K - 1
      <4>1. lines'[k] = lines[k] /\ (HasEntry(k)' <=> HasEntry(k))
        BY <3>2, <1>5, <1>14
      <4> QED
        BY <4>1, <3>2, <2>1, <1>12, <1>17
    <3>3. CASE j \in 1 .. Parsed /\ k = K
      <4>1. Asm!Statements[d].kind = "comment"
        BY <3>3, <2>1, <1>3, <1>17
      <4>2. lines'[k] = lines[k] /\ (HasEntry(k)' <=> HasEntry(k))
        BY <4>1, <3>3, <1>5, <1>15
      <4> QED
        BY <4>2, <3>3, <2>1, <1>12, <1>17
    <3> QED
      BY <3>1, <3>2, <3>3, <1>11
  <2>2. ASSUME NEW k \in 1 .. K, \A j \in 1 .. d : InLine(j, k) => ~Emits(Asm!Statements[j])
        PROVE  lines'[k].bytes = 0
    <3>1. lines[k].bytes = 0
      BY <2>2, <1>11, <1>12, <1>17
    <3>2. CASE k \in 1 .. K - 1
      BY <3>1, <3>2, <1>5
    <3>3. CASE k = K
      <4>1. ~Emits(Asm!Statements[d])
        BY <2>2, <3>3, <1>3, <1>11
      <4>2. l.bytes = 0
        BY <4>1, <3>1, <3>3, <1>10
      <4> QED
        BY <4>2, <3>1, <3>3, <1>5
    <3> QED
      BY <3>2, <3>3, <1>11
  <2>3. ASSUME NEW p \in 1 .. Len(reltab'), NEW q \in 1 .. Len(reltab'),
               reltab'[p].line = reltab'[q].line
        PROVE  p = q
    <3>1. CASE ~Asm!Uses(Asm!Statements[d])
      BY <3>1, <2>3, <1>7, <1>12, <1>17
    <3>2. CASE Asm!Uses(Asm!Statements[d])
      <4>1. \A r \in 1 .. Len(reltab) : reltab[r].line # K
        <5> SUFFICES ASSUME NEW r \in 1 .. Len(reltab), reltab[r].line = K PROVE FALSE
          OBVIOUS
        <5>1. \E j \in 1 .. Parsed : InLine(j, K) /\ Emits(Asm!Statements[j])
          BY <1>13
        <5> QED
          BY <5>1, <3>2, <1>3, <1>8, <1>17
      <4>2. \A r \in 1 .. Len(reltab') : r # 1 =>
              /\ r - 1 \in 1 .. Len(reltab) /\ (r - 1) + 1 = r
        BY <3>2, <1>4, <1>7
      <4>3. \A r \in 1 .. Len(reltab') : r # 1 => reltab'[r] = reltab[r - 1]
        <5> TAKE r \in 1 .. Len(reltab')
        <5> HAVE r # 1
        <5>1. r - 1 \in 1 .. Len(reltab) /\ (r - 1) + 1 = r
          BY <4>2
        <5>2. reltab'[(r - 1) + 1] = reltab[r - 1]
          BY <5>1, <3>2, <1>7
        <5> QED
          BY <5>1, <5>2
      <4>4. CASE p = 1 /\ q = 1
        BY <4>4
      <4>5. CASE p = 1 /\ q # 1
        BY <4>1, <4>2, <4>3, <4>5, <2>3, <3>2, <1>7
      <4>6. CASE q = 1 /\ p # 1
        BY <4>1, <4>2, <4>3, <4>6, <2>3, <3>2, <1>7
      <4>7. CASE p # 1 /\ q # 1
        <5>1. /\ p - 1 \in 1 .. Len(reltab) /\ q - 1 \in 1 .. Len(reltab)
              /\ reltab[p - 1].line = reltab[q - 1].line
          BY <4>2, <4>3, <4>7, <2>3
        <5>2. p - 1 = q - 1
          BY <5>1, <1>12, <1>17
        <5> QED
          BY <5>2, <1>4, <1>7
      <4> QED
        BY <4>4, <4>5, <4>6, <4>7
    <3> QED
      BY <3>1, <3>2
  <2> QED
    BY <2>1, <2>2, <2>3
<1>18. Len(lines') = K
  BY <1>5
<1>19. LineInv'
  BY <1>2, <1>6, <1>17, <1>18 DEF LineInv
<1> QED
  BY <1>6, <1>19 DEF AsmInv

\* The types of a line's parts.
LEMMA PlacedIs ==
  ASSUME NEW l \in LineType, NEW addr \in Nat
  PROVE  /\ Asm!Placed(l, addr) \in LineType
         /\ Asm!Placed(l, addr).type = "INS" /\ Asm!Placed(l, addr).addr = addr
         /\ Asm!Placed(l, addr).bytes = l.bytes
         /\ [Asm!Placed(l, addr) EXCEPT !.bytes = 0] \in LineType
         /\ [Asm!Placed(l, addr) EXCEPT !.bytes = 0].bytes = 0
BY DEF Asm!Placed, LineType

\* The line of a statement with bytes.
Filled(l, addr, c, b) == [Asm!Placed(l, addr) EXCEPT !.codes = c, !.bytes = b]
LEMMA FilledIs ==
  ASSUME NEW l \in LineType, NEW addr \in Nat, NEW c \in Code, NEW b \in Nat
  PROVE  /\ Filled(l, addr, c, b) \in LineType
         /\ Filled(l, addr, c, b).type = "INS" /\ Filled(l, addr, c, b).addr = addr
         /\ Filled(l, addr, c, b).codes = c /\ Filled(l, addr, c, b).bytes = b
BY DEF Filled, Asm!Placed, LineType

\* parse_line keeps the invariant.
LEMMA ParseNext ==
  ASSUME AsmInv, Asm!parse_line
  PROVE  AsmInv'
<1> DEFINE d == Parsed + 1
           s == Asm!Statements[Parsed + 1]
           L == Asm!Last(lines)
<1>1. /\ stage = "assemble" /\ rest # <<>> /\ source' = source /\ written' = written /\ image' = image
      /\ Alive /\ LegalSource(source) /\ PosInv /\ SymInv /\ RelInv /\ RefuseInv
  BY DEF AsmInv, Asm!parse_line, Alive
<1>2. /\ Parsed \in Nat /\ d \in 1 .. Len(Asm!Statements) /\ Len(lines) \in 1 .. Len(source)
      /\ s \in Asm!Statement /\ s = Head(rest) /\ rest' \in Seq(Asm!Statement)
  BY ParseIs
<1>3. vmaddr = At[d] /\ At[d] \in Nat /\ vmaddr \in Nat
  <2>1. d \in 1 .. d
    BY <1>2
  <2> QED
    BY <2>1, <1>1 DEF SymInv
<1>4. lines \in Seq(LineType) /\ lines # <<>> /\ reltab \in Seq(Entry) /\ L \in LineType
  <2>1. lines \in Seq(LineType) /\ lines # <<>> /\ reltab \in Seq(Entry)
    BY <1>1, <1>2 DEF PosInv
  <2>2. Len(lines) \in 1 .. Len(lines) /\ L = lines[Len(lines)]
    BY <1>2 DEF Asm!Last
  <2> QED
    BY <2>1, <2>2, ElementOfSeq
<1>5. /\ s.kind \in {"label", "pos", "align", "comment", "bad", "data", "instr"}
      /\ s.kind \in {"pos", "align"} => s.value \in Nat
      /\ s.kind \in {"instr", "data"} => s.sym \in STRING /\ Asm!Codes(s) \in Code
      /\ Asm!Bytes(s) \in Nat
      /\ s.kind \notin {"instr", "data"} => Asm!Bytes(s) = 0
  BY <1>2, StatementIs
<1>6. s = Asm!Statements[Parsed + 1]
  OBVIOUS
<1> HIDE DEF s, d, L
<1>7. ASSUME Asm!Label(s) PROVE AsmInv'
  <2>1. /\ s.kind = "label" /\ Asm!add_symbol(s.name) /\ Asm!UpdateLine(Asm!Placed(L, vmaddr))
        /\ stage' = stage /\ vmaddr' = vmaddr /\ reltab' = reltab
    BY <1>7 DEF Asm!Label, L
  <2>2. /\ Asm!Placed(L, vmaddr) \in LineType /\ Asm!Placed(L, vmaddr).bytes = L.bytes
    BY <1>3, <1>4, PlacedIs
  <2>3. vmaddr' = Asm!Behind(s, vmaddr) /\ vmaddr' \in Nat
    BY <2>1, <1>3, <1>5 DEF Asm!Behind
  <2>4. ~Asm!Uses(s) /\ ~Emits(s)
    BY <2>1 DEF Asm!Uses, Emits
  <2> DEFINE l == Asm!Placed(L, vmaddr)
  <2>5. l \in LineType /\ Asm!UpdateLine(l) /\ l.bytes \in {0, L.bytes}
    BY <2>1, <2>2
  <2> HIDE DEF l
  <2> QED
    BY <2>1, <2>3, <2>4, <2>5, <1>1, <1>6, ParseKeeps DEF L
<1>8. ASSUME Asm!Emit(s) PROVE AsmInv'
  <2> DEFINE l == [Asm!Placed(L, vmaddr) EXCEPT !.codes = Asm!Codes(s), !.bytes = Asm!Bytes(s)]
  <2>1. /\ s.kind \in {"instr", "data"} /\ Asm!UpdateLine(l) /\ vmaddr' = vmaddr + Asm!Bytes(s)
        /\ IF s.sym # "none" THEN Asm!add_reloc(s.sym) ELSE reltab' = reltab
        /\ stage' = stage /\ symtab' = symtab
    BY <1>8 DEF Asm!Emit, L
  <2>2. /\ l \in LineType /\ l.type = "INS" /\ l.addr = vmaddr
        /\ l.codes = Asm!Codes(s) /\ l.bytes = Asm!Bytes(s)
    <3>1. Asm!Codes(s) \in Code /\ Asm!Bytes(s) \in Nat
      BY <2>1, <1>5
    <3>2. l = Filled(L, vmaddr, Asm!Codes(s), Asm!Bytes(s))
      BY DEF Filled
    <3> HIDE DEF l
    <3>3. L \in LineType /\ vmaddr \in Nat
      BY <1>3, <1>4
    <3>4. l \in LineType /\ l.type = "INS" /\ l.addr = vmaddr /\ l.codes = Asm!Codes(s) /\ l.bytes = Asm!Bytes(s)
      BY <3>1, <3>2, <3>3, FilledIs
    <3> QED
      BY <3>4
  <2> HIDE DEF l
  <2>3. vmaddr' = Asm!Behind(s, vmaddr) /\ vmaddr' \in Nat
    BY <2>1, <1>3, <1>5 DEF Asm!Behind
  <2>4. (Asm!Uses(s) <=> s.sym # "none") /\ Emits(s)
    BY <2>1 DEF Asm!Uses, Emits
  <2>5. Emitted(l, Parsed + 1)
    BY <2>2, <1>3, <1>6 DEF Emitted, d
  <2>6. s.kind \notin {"label", "comment", "bad"}
    BY <2>1
  <2> QED
    BY <2>1, <2>2, <2>3, <2>4, <2>5, <2>6, <1>1, <1>6, ParseKeeps
<1>9. ASSUME NEW addr \in Nat, Asm!MoveTo(addr), s.kind \in {"pos", "align"}, addr = Asm!Behind(s, vmaddr)
      PROVE  AsmInv'
  <2> DEFINE l == [Asm!Placed(L, addr) EXCEPT !.bytes = 0]
  <2>1. vmaddr' = addr /\ Asm!UpdateLine(l) /\ stage' = stage /\ symtab' = symtab /\ reltab' = reltab
    BY <1>9 DEF Asm!MoveTo, L
  <2>2. l \in LineType /\ l.bytes = 0
    BY <1>4, PlacedIs
  <2> HIDE DEF l
  <2>3. ~Asm!Uses(s) /\ ~Emits(s)
    BY <1>9 DEF Asm!Uses, Emits
  <2>4. s.kind \notin {"label", "comment", "bad"} /\ vmaddr' = Asm!Behind(s, vmaddr) /\ vmaddr' \in Nat
    BY <2>1, <1>9
  <2> QED
    BY <2>1, <2>2, <2>3, <2>4, <1>1, <1>6, ParseKeeps
<1>10. ASSUME Asm!Position(s) PROVE AsmInv'
  <2>1. CASE s.kind = "pos" /\ Asm!MoveTo(s.value)
    <3>1. s.value \in Nat /\ s.value = Asm!Behind(s, vmaddr)
      BY <2>1, <1>5 DEF Asm!Behind
    <3> QED
      BY <3>1, <2>1, <1>9
  <2>2. CASE s.kind = "align" /\ s.value > 0 /\ Asm!MoveTo(Asm!Aligned(vmaddr, s.value))
    <3>1. s.value \in Nat \ {0}
      BY <2>2, <1>5
    <3>2. /\ Asm!Aligned(vmaddr, s.value) \in Nat
          /\ (CHOOSE a \in vmaddr .. vmaddr + s.value - 1 : a % s.value = 0) = Asm!Aligned(vmaddr, s.value)
      BY <3>1, <1>3, AlignedIs
    <3>3. Asm!Behind(s, vmaddr) = CHOOSE a \in vmaddr .. vmaddr + s.value - 1 : a % s.value = 0
      BY <2>2 DEF Asm!Behind
    <3> QED
      BY <3>2, <3>3, <2>2, <1>9
  <2> QED
    BY <2>1, <2>2, <1>10 DEF Asm!Position
<1>11. ASSUME s.kind = "comment", stage' = stage, vmaddr' = vmaddr, symtab' = symtab,
              reltab' = reltab, lines' = lines
       PROVE  AsmInv'
  <2>1. vmaddr' = Asm!Behind(s, vmaddr) /\ vmaddr' \in Nat
    BY <1>11, <1>3, <1>5 DEF Asm!Behind
  <2>2. ~Asm!Uses(s) /\ ~Emits(s) /\ s.kind \notin {"label", "bad"}
    BY <1>11 DEF Asm!Uses, Emits
  <2>3. L \in LineType /\ L.bytes \in {0, Asm!Last(lines).bytes}
    BY <1>4 DEF L
  <2> QED
    BY <2>1, <2>2, <2>3, <1>1, <1>6, <1>11, ParseKeeps
<1>12. ASSUME stage' \in {"failed", "crashed"}, lines' = lines, reltab' = reltab,
              stage' = "failed" => Asm!Erroneous(Asm!Statements)
       PROVE  AsmInv'
  <2>1. Asm!Statements' = Asm!Statements /\ ~Alive'
    BY <1>1, <1>12, SourceKept DEF Alive
  <2>2. PosInv'
    BY <2>1, <1>1, <1>2, <1>12 DEF PosInv
  <2>3. RefuseInv'
    BY <2>1, <1>1, <1>12 DEF RefuseInv
  <2>4. LegalSource(source)' /\ SymInv' /\ RelInv' /\ LineInv' /\ WriteInv'
    BY <2>1, <1>1, <1>12 DEF SymInv, RelInv, LineInv, WriteInv
  <2> QED
    BY <2>2, <2>3, <2>4 DEF AsmInv
<1>13. ASSUME Asm!Divides(s) PROVE AsmInv'
  BY <1>12, <1>13 DEF Asm!Divides
<1>14. ASSUME Asm!Refused(s) PROVE AsmInv'
  <2>0. DOMAIN Asm!Statements = 1 .. Len(Asm!Statements)
    BY <1>1, SourceIs
  <2>1. CASE s.kind = "bad"
    <3>1. Asm!Erroneous(Asm!Statements)
      BY <2>0, <2>1, <1>2, <1>6 DEF Asm!Erroneous, d
    <3> QED
      BY <3>1, <1>12, <1>14 DEF Asm!Refused
  <2>2. CASE s.kind = "label" /\ s.name \in DOMAIN symtab
    <3>1. PICK j \in 1 .. Parsed : Asm!Defines(Asm!Statements[j], s.name)
      BY <2>2, <1>1 DEF SymInv
    <3>2. j \in DOMAIN Asm!Statements /\ d \in DOMAIN Asm!Statements /\ d # j
      BY <2>0, <1>2 DEF d
    <3>3. Asm!Statements[d].kind = "label" /\ Asm!Defines(Asm!Statements[j], Asm!Statements[d].name)
      BY <3>1, <2>2, <1>6 DEF d
    <3>4. Asm!Erroneous(Asm!Statements)
      BY <3>2, <3>3 DEF Asm!Erroneous
    <3> QED
      BY <3>4, <1>12, <1>14 DEF Asm!Refused
  <2> QED
    BY <2>1, <2>2, <1>14 DEF Asm!Refused
<1> QED
  BY <1>2, <1>7, <1>8, <1>10, <1>11, <1>13, <1>14 DEF Asm!parse_line

\* The other steps of assemble and relocate keep the invariant.
LEMMA NextLineNext ==
  ASSUME AsmInv, Asm!NextLine
  PROVE  AsmInv'
<1> DEFINE K == Len(lines)
<1>1. /\ stage = "assemble" /\ stage' = stage /\ rest = <<>> /\ K < Len(source)
      /\ lines' = Append(lines, Asm!EmptyLine) /\ rest' = source[K + 1]
      /\ source' = source /\ vmaddr' = vmaddr /\ symtab' = symtab /\ reltab' = reltab
      /\ written' = written /\ image' = image
  BY DEF Asm!NextLine
<1>2. /\ LegalSource(source) /\ PosInv /\ SymInv /\ RelInv /\ RefuseInv /\ LineInv /\ Alive /\ Alive'
  BY <1>1 DEF AsmInv, Alive
<1>3. /\ Off' = Off /\ Asm!Statements' = Asm!Statements /\ At' = At /\ (Asm!OnePerLine(source)' <=> Asm!OnePerLine(source))
      /\ \A j, k : InLine(j, k)' <=> InLine(j, k)
  BY <1>1, SourceKept
<1>4. lines \in Seq(LineType) /\ K \in Nat /\ Asm!EmptyLine \in LineType
  <2>1. Asm!HaltInstr \in Code
    BY DEF Asm!HaltInstr, Code, Asm!KnownCode
  <2>2. Asm!EmptyLine \in LineType
    BY <2>1 DEF Asm!EmptyLine, LineType
  <2> QED
    BY <2>2, <1>2 DEF PosInv
<1>5. /\ lines' \in Seq(LineType) /\ Len(lines') = K + 1 /\ lines' # <<>>
      /\ \A k \in 1 .. K : lines'[k] = lines[k]
      /\ lines'[K + 1] = Asm!EmptyLine
  BY <1>1, <1>4, AppendProperties
<1>6. /\ K + 1 \in 1 .. Len(source) /\ Len(source) \in Nat /\ source[K + 1] \in Seq(Asm!Statement)
      /\ Len(source[K + 1]) \in Nat /\ Off[K] \in Nat /\ Off[K + 1] = Off[K] + Len(source[K + 1])
      /\ \A i \in 1 .. Len(source[K + 1]) : Asm!Statements[Off[K] + i] = source[K + 1][i]
  <2>1. K + 1 \in 1 .. Len(source) /\ K \in 0 .. Len(source) /\ (K + 1) - 1 = K /\ Len(source) \in Nat
    BY <1>1, <1>2, <1>4, SourceIs
  <2>2. \A i \in 1 .. Len(source[K + 1]) : Asm!Statements[Off[(K + 1) - 1] + i] = source[K + 1][i]
    BY <2>1, <1>2, SourceIs
  <2>3. /\ Off[K] \in Nat /\ source[K + 1] \in Seq(Asm!Statement) /\ Len(source[K + 1]) \in Nat
        /\ Off[K + 1] = Off[(K + 1) - 1] + Len(source[K + 1])
    BY <2>1, <1>2, SourceIs
  <2> QED
    BY <2>1, <2>2, <2>3
<1>7. Parsed = Off[K] /\ Parsed \in Nat /\ Parsed' = Parsed
  <2>1. Len(rest) = 0
    BY <1>1
  <2> QED
    BY <2>1, <1>1, <1>3, <1>5, <1>6 DEF Parsed
<1>8. PosInv'
  <2>1. Len(lines') <= Len(source') /\ Len(rest') <= Len(source'[Len(lines')])
    BY <1>1, <1>5, <1>6
  <2>2. \A i \in 1 .. Len(rest') : rest'[i] = Asm!Statements'[Parsed' + i]
    BY <1>1, <1>3, <1>6, <1>7
  <2>3. rest' \in Seq(Asm!Statement) /\ reltab' \in Seq(Entry)
    BY <1>1, <1>2, <1>6 DEF PosInv
  <2> QED
    BY <2>1, <2>2, <2>3, <1>1, <1>2, <1>5 DEF PosInv
<1>9. SymInv'
  BY <1>1, <1>2, <1>3, <1>7 DEF SymInv
<1>10. RelInv'
  <2>1. \A x \in 1 .. K : x \in 1 .. Len(lines')
    BY <1>4, <1>5
  <2> HIDE DEF K
  <2>2. \A p \in 1 .. Len(reltab) :
          /\ reltab[p].line \in 1 .. K
          /\ \E j \in 1 .. Parsed : /\ InLine(j, reltab[p].line) /\ Asm!Uses(Asm!Statements[j])
                                    /\ Asm!Statements[j].sym = reltab[p].name
    BY <1>2 DEF RelInv, K
  <2>3. \A j \in 1 .. Parsed : Asm!Uses(Asm!Statements[j]) =>
         \/ Asm!Statements[j].sym \in DOMAIN symtab
         \/ \E p \in 1 .. Len(reltab) : reltab[p].name = Asm!Statements[j].sym
    BY <1>2 DEF RelInv
  <2> QED
    BY <2>1, <2>2, <2>3, <1>1, <1>3, <1>7 DEF RelInv
<1>11. RefuseInv'
  BY <1>1, <1>2, <1>4, <1>5 DEF RefuseInv
<1>12. LineInv'
  <2>1. \A k : HasEntry(k)' <=> HasEntry(k)
    BY <1>1 DEF HasEntry
  <2>2. \A j \in 1 .. Parsed : ~InLine(j, K + 1)
    BY <1>4, <1>6, <1>7 DEF InLine
  <2>3. \A k \in 1 .. Len(lines') : k = K + 1 \/ k \in 1 .. K
    BY <1>4, <1>5
  <2>4. Asm!EmptyLine.bytes = 0
    BY DEF Asm!EmptyLine
  <2> DEFINE Blank == Asm!EmptyLine
  <2>5. lines'[K + 1] = Blank /\ Blank.bytes = 0
    BY <1>5, <2>4
  <2> HIDE DEF Blank
  <2> SUFFICES ASSUME Asm!OnePerLine(source) PROVE
        /\ \A k \in 1 .. Len(lines') : \A j \in 1 .. Parsed : InLine(j, k) /\ Emits(Asm!Statements[j]) =>
             /\ lines'[k].type = "INS" /\ lines'[k].addr = At[j] /\ lines'[k].bytes = Asm!Bytes(Asm!Statements[j])
             /\ lines'[k].codes = IF Asm!Uses(Asm!Statements[j]) /\ ~HasEntry(k)
                                  THEN Asm!Encoded(Asm!Statements, At, Asm!Statements[j]) ELSE Asm!Codes(Asm!Statements[j])
        /\ \A k \in 1 .. Len(lines') :
             (\A j \in 1 .. Parsed : InLine(j, k) => ~Emits(Asm!Statements[j])) => lines'[k].bytes = 0
        /\ \A p, q \in 1 .. Len(reltab) : reltab[p].line = reltab[q].line => p = q
    BY <2>1, <1>1, <1>3, <1>7 DEF LineInv
  <2>6. /\ \A k \in 1 .. K : \A j \in 1 .. Parsed : InLine(j, k) /\ Emits(Asm!Statements[j]) =>
             /\ lines[k].type = "INS" /\ lines[k].addr = At[j] /\ lines[k].bytes = Asm!Bytes(Asm!Statements[j])
             /\ lines[k].codes = IF Asm!Uses(Asm!Statements[j]) /\ ~HasEntry(k)
                                 THEN Asm!Encoded(Asm!Statements, At, Asm!Statements[j]) ELSE Asm!Codes(Asm!Statements[j])
        /\ \A k \in 1 .. K :
             (\A j \in 1 .. Parsed : InLine(j, k) => ~Emits(Asm!Statements[j])) => lines[k].bytes = 0
        /\ \A p, q \in 1 .. Len(reltab) : reltab[p].line = reltab[q].line => p = q
    BY <1>2 DEF LineInv
  <2> HIDE DEF K
  <2>7. \A k \in 1 .. K : lines'[k] = lines[k]
    BY <1>5 DEF K
  <2>8. lines'[K + 1].bytes = 0
    BY <2>5
  <2> QED
    BY <2>2, <2>3, <2>6, <2>7, <2>8
<1>13. WriteInv' /\ LegalSource(source)'
  BY <1>1, <1>2 DEF WriteInv
<1> QED
  BY <1>8, <1>9, <1>10, <1>11, <1>12, <1>13 DEF AsmInv

\* Nothing that the invariant is about changes but the stage.
LEMMA AssembledNext ==
  ASSUME AsmInv, Asm!Assembled
  PROVE  AsmInv'
<1>1. /\ stage = "assemble" /\ stage' = "relocate" /\ rest = <<>> /\ Len(lines) = Len(source)
      /\ UNCHANGED <<source, rest, vmaddr, symtab, reltab, lines, written, image>>
  BY DEF Asm!Assembled
<1>2. /\ LegalSource(source) /\ PosInv /\ SymInv /\ RelInv /\ RefuseInv /\ LineInv /\ Alive /\ Alive'
  BY <1>1 DEF AsmInv, Alive
<1>3. /\ Off' = Off /\ Asm!Statements' = Asm!Statements /\ At' = At /\ (Asm!OnePerLine(source)' <=> Asm!OnePerLine(source))
      /\ \A j, k : InLine(j, k)' <=> InLine(j, k)
  BY <1>1, SourceKept
<1>4. Parsed' = Parsed /\ \A k : HasEntry(k)' <=> HasEntry(k)
  BY <1>1, <1>3 DEF Parsed, HasEntry
<1>5. PosInv'
  BY <1>1, <1>2, <1>3, <1>4 DEF PosInv
<1>6. SymInv' /\ RelInv'
  BY <1>1, <1>2, <1>3, <1>4 DEF SymInv, RelInv
<1>7. RefuseInv'
  BY <1>1, <1>2 DEF RefuseInv
<1>8. LineInv'
  BY <1>1, <1>2, <1>3, <1>4 DEF LineInv
<1>9. WriteInv' /\ LegalSource(source)'
  BY <1>1, <1>2 DEF WriteInv
<1> QED
  BY <1>5, <1>6, <1>7, <1>8, <1>9 DEF AsmInv

\* Behind assemble all statements are read.
LEMMA AllRead ==
  ASSUME AsmInv, stage \in {"relocate", "write", "done"}
  PROVE  /\ Len(lines) = Len(source) /\ rest = <<>> /\ Parsed = Len(Asm!Statements)
         /\ DOMAIN Asm!Statements = 1 .. Len(Asm!Statements) /\ Len(Asm!Statements) \in Nat /\ Alive
<1>1. LegalSource(source) /\ PosInv /\ Alive /\ stage # "assemble"
  BY DEF AsmInv, Alive
<1>2. Len(lines) = Len(source) /\ rest = <<>>
  BY <1>1 DEF PosInv
<1>3. Len(rest) = 0 /\ Len(Asm!Statements) \in Nat /\ Len(Asm!Statements) = Off[Len(source)]
  BY <1>1, <1>2, SourceIs
<1>4. DOMAIN Asm!Statements = 1 .. Len(Asm!Statements)
  BY <1>1, SourceIs
<1> QED
  BY <1>1, <1>2, <1>3, <1>4 DEF Parsed

\* symtab has the meaning of a name.
LEMMA MeaningIs ==
  ASSUME AsmInv, stage \in {"relocate", "write", "done"}, NEW name \in DOMAIN symtab
  PROVE  symtab[name] = Asm!Meaning(Asm!Statements, At, name) /\ symtab[name] \in Nat
<1>1. /\ Parsed = Len(Asm!Statements) /\ DOMAIN Asm!Statements = 1 .. Len(Asm!Statements)
      /\ Len(Asm!Statements) \in Nat /\ Alive
  BY AllRead
<1>2. /\ \A n \in DOMAIN symtab : \E j \in 1 .. Parsed : Asm!Defines(Asm!Statements[j], n)
      /\ \A j \in 1 .. Parsed : Asm!Statements[j].kind = "label" =>
           Asm!Statements[j].name \in DOMAIN symtab /\ symtab[Asm!Statements[j].name] = At[j]
      /\ \A j \in 1 .. Parsed + 1 : At[j] \in Nat
  BY <1>1 DEF AsmInv, SymInv
<1> DEFINE j == CHOOSE j \in DOMAIN Asm!Statements : Asm!Defines(Asm!Statements[j], name)
<1>3. j \in DOMAIN Asm!Statements /\ Asm!Defines(Asm!Statements[j], name)
  <2>1. \E i \in DOMAIN Asm!Statements : Asm!Defines(Asm!Statements[i], name)
    BY <1>1, <1>2
  <2> QED
    BY <2>1
<1>4. Asm!Meaning(Asm!Statements, At, name) = At[j]
  BY DEF Asm!Meaning
<1> HIDE DEF j
<1>5. symtab[name] = At[j] /\ At[j] \in Nat
  BY <1>1, <1>2, <1>3 DEF Asm!Defines
<1> QED
  BY <1>4, <1>5

\* relocate leaves a line with codes.
LEMMA RelocatedIs ==
  ASSUME NEW c \in Code, NEW addr \in Nat
  PROVE  Asm!Relocated(c, addr) \in Code
<1>1. CASE c.icode \in {"IRMOVQ", "JXX", "CALL"}
  <2>1. Asm!Relocated(c, addr) = [c EXCEPT !.valC = addr]
    BY <1>1 DEF Asm!Relocated
  <2> QED
    BY <2>1 DEF Code
<1>2. CASE c.icode \notin {"IRMOVQ", "JXX", "CALL"}
  <2>1. Asm!Relocated(c, addr) = Asm!Data(addr)
    BY <1>2 DEF Asm!Relocated
  <2>2. Asm!HaltInstr = [icode |-> "HALT", ifun |-> "NONE", rA |-> RNONE, rB |-> RNONE, valC |-> 0]
    BY DEF Asm!HaltInstr
  <2>3. Asm!Data(addr) = [Asm!HaltInstr EXCEPT !.icode = "DATA", !.valC = addr]
    BY DEF Asm!Data
  <2>4. Asm!Data(addr) = [icode |-> "DATA", ifun |-> "NONE", rA |-> RNONE, rB |-> RNONE, valC |-> addr]
    BY <2>2, <2>3
  <2> QED
    BY <2>1, <2>4 DEF Code
<1> QED
  BY <1>1, <1>2

\* relocate takes one entry after the other.
LEMMA RelocateNext ==
  ASSUME AsmInv, Asm!relocate
  PROVE  AsmInv'
<1> DEFINE n == Len(reltab)
<1>1. /\ stage = "relocate" /\ UNCHANGED <<source, rest, vmaddr, symtab, written, image>>
  BY DEF Asm!relocate
<1>2. /\ LegalSource(source) /\ PosInv /\ SymInv /\ RelInv /\ RefuseInv /\ LineInv /\ Alive
      /\ image = Asm!Nothing /\ written = 0
  BY <1>1 DEF AsmInv, Alive, RefuseInv
<1>3. /\ Off' = Off /\ Asm!Statements' = Asm!Statements /\ At' = At /\ (Asm!OnePerLine(source)' <=> Asm!OnePerLine(source))
      /\ \A j, k : InLine(j, k)' <=> InLine(j, k)
  BY <1>1, SourceKept
<1>4. /\ Len(lines) = Len(source) /\ rest = <<>> /\ Parsed = Len(Asm!Statements)
      /\ DOMAIN Asm!Statements = 1 .. Len(Asm!Statements) /\ Len(Asm!Statements) \in Nat
  BY <1>1, AllRead
<1>5. reltab \in Seq(Entry) /\ lines \in Seq(LineType) /\ n \in Nat /\ Len(lines) \in Nat
  BY <1>2 DEF PosInv
<1>6. ASSUME reltab = <<>>, stage' = "write", reltab' = reltab, lines' = lines PROVE AsmInv'
  <2>1. Parsed' = Parsed /\ Alive' /\ \A k : HasEntry(k)' <=> HasEntry(k)
    BY <1>1, <1>3, <1>6 DEF Parsed, HasEntry, Alive
  <2>2. PosInv' /\ LegalSource(source)'
    BY <2>1, <1>1, <1>2, <1>3, <1>4, <1>6 DEF PosInv
  <2>3. SymInv' /\ RelInv'
    BY <2>1, <1>1, <1>2, <1>3, <1>6 DEF SymInv, RelInv
  <2>4. RefuseInv'
    BY <1>1, <1>2, <1>6 DEF RefuseInv
  <2>5. LineInv'
    BY <2>1, <1>1, <1>2, <1>3, <1>6 DEF LineInv
  <2>6. WriteInv'
    <3>1. image' = Asm!Nothing /\ Asm!Nothing = [a \in {} |-> 0] /\ DOMAIN Asm!Nothing = {}
      BY <1>1, <1>2 DEF Asm!Nothing
    <3>2. Off'[written'] = 0 /\ 1 .. 0 = {}
      BY <1>1, <1>2, <1>3, SourceIs
    <3>3. UNION {Span(j)' : j \in 1 .. Off'[written']} = {}
      BY <3>2
    <3>4. image' = [a \in DOMAIN image' |-> image'[a]]
      BY <3>1
    <3> QED
      BY <3>1, <3>2, <3>3, <3>4 DEF WriteInv
  <2> QED
    BY <2>2, <2>3, <2>4, <2>5, <2>6 DEF AsmInv
<1>7. ASSUME reltab # <<>>, Head(reltab).name \notin DOMAIN symtab, stage' = "failed",
             reltab' = reltab, lines' = lines
      PROVE  AsmInv'
  <2>1. ~Alive'
    BY <1>7 DEF Alive
  <2>2. PosInv' /\ LegalSource(source)'
    BY <2>1, <1>1, <1>2, <1>3, <1>7 DEF PosInv
  <2>3. 1 \in 1 .. n /\ Head(reltab) = reltab[1]
    BY <1>5, <1>7
  <2>4. PICK j \in 1 .. Parsed : Asm!Uses(Asm!Statements[j]) /\ Asm!Statements[j].sym = reltab[1].name
    BY <2>3, <1>2 DEF RelInv
  <2>5. ASSUME NEW k \in DOMAIN Asm!Statements, Asm!Defines(Asm!Statements[k], Asm!Statements[j].sym) PROVE FALSE
    <3>1. Asm!Statements[k].kind = "label" /\ Asm!Statements[k].name \in DOMAIN symtab
      BY <2>5, <1>2, <1>4 DEF SymInv, Asm!Defines
    <3> QED
      BY <3>1, <2>3, <2>4, <2>5, <1>7 DEF Asm!Defines
  <2>6. Asm!Erroneous(Asm!Statements)
    BY <2>4, <2>5, <1>4 DEF Asm!Erroneous
  <2>7. RefuseInv'
    BY <2>6, <1>1, <1>2, <1>3, <1>7 DEF RefuseInv
  <2> QED
    BY <2>1, <2>2, <2>7, <1>7 DEF AsmInv, SymInv, RelInv, LineInv, WriteInv
<1>8. ASSUME reltab # <<>>, Head(reltab).name \in DOMAIN symtab, stage' = stage,
             lines' = [lines EXCEPT ![Head(reltab).line].codes =
                                      Asm!Relocated(@, symtab[Head(reltab).name])],
             reltab' = Tail(reltab)
      PROVE  AsmInv'
  <2> DEFINE e == reltab[1]
             K == e.line
             addr == symtab[e.name]
             l == [lines[K] EXCEPT !.codes = Asm!Relocated(lines[K].codes, addr)]
  <2>1. 1 \in 1 .. n /\ Head(reltab) = e
    BY <1>5, <1>8
  <2>2. K \in 1 .. Len(lines) /\ K \in 1 .. Len(source)
    BY <2>1, <1>2, <1>4 DEF RelInv
  <2>3. addr \in Nat /\ addr = Asm!Meaning(Asm!Statements, At, e.name)
    BY <2>1, <1>1, <1>8, MeaningIs
  <2>4. lines[K] \in LineType
    BY <2>2, <1>5, ElementOfSeq
  <2> HIDE DEF e, K, addr
  <2>5. l \in LineType /\ l.codes = Asm!Relocated(lines[K].codes, addr)
        /\ l.type = lines[K].type /\ l.addr = lines[K].addr /\ l.bytes = lines[K].bytes
    <3>1. lines[K].codes \in Code
      BY <2>4 DEF LineType
    <3> DEFINE c == Asm!Relocated(lines[K].codes, addr)
    <3>2. c \in Code
      BY <3>1, <2>3, RelocatedIs
    <3> HIDE DEF c
    <3>3. [lines[K] EXCEPT !.codes = c] \in LineType
      BY <3>2, <2>4 DEF LineType
    <3>4. l = [lines[K] EXCEPT !.codes = c]
      BY DEF c
    <3> HIDE DEF l
    <3>5. /\ l.codes = c /\ l.type = lines[K].type /\ l.addr = lines[K].addr /\ l.bytes = lines[K].bytes
      BY <3>4, <2>4 DEF LineType
    <3> QED
      BY <3>3, <3>4, <3>5 DEF c
  <2>6. lines' = [lines EXCEPT ![K] = l]
    BY <2>1, <1>8 DEF K, addr, e
  <2> HIDE DEF l
  <2>7. /\ lines' \in Seq(LineType) /\ Len(lines') = Len(lines)
        /\ \A k \in 1 .. Len(lines) : lines'[k] = IF k = K THEN l ELSE lines[k]
    BY <2>2, <2>5, <2>6, <1>5, ExceptSeq
  <2>8. /\ reltab' \in Seq(Entry) /\ Len(reltab') \in Nat /\ Len(reltab') = n - 1
        /\ \A p \in 1 .. Len(reltab') : reltab'[p] = reltab[p + 1] /\ p + 1 \in 1 .. n
    <3>1. /\ Tail(reltab) \in Seq(Entry) /\ Len(Tail(reltab)) = Len(reltab) - 1
          /\ \A p \in 1 .. Len(Tail(reltab)) : Tail(reltab)[p] = reltab[p + 1]
      BY <1>5, <1>8, HeadTailProperties
    <3>2. Len(reltab') = n - 1 /\ Len(reltab') \in Nat
      BY <3>1, <1>5, <1>8
    <3>3. \A p \in 1 .. Len(reltab') : p + 1 \in 1 .. n
      BY <3>2, <1>5
    <3> QED
      BY <3>1, <3>2, <3>3, <1>8
  <2>9. \A p \in 1 .. n : p # 1 => p - 1 \in 1 .. Len(reltab') /\ reltab'[p - 1] = reltab[p]
    <3> TAKE p \in 1 .. n
    <3> HAVE p # 1
    <3>1. p - 1 \in 1 .. Len(reltab') /\ (p - 1) + 1 = p
      BY <2>8, <1>5
    <3> QED
      BY <3>1, <2>8
  <2>10. Parsed' = Parsed /\ Alive'
    BY <2>7, <1>1, <1>2, <1>3, <1>8 DEF Parsed, Alive
  <2>11. PosInv' /\ LegalSource(source)'
    BY <2>7, <2>8, <2>10, <1>1, <1>2, <1>3, <1>4, <1>8, EmptySeq DEF PosInv
  <2>12. SymInv'
    BY <2>10, <1>1, <1>2, <1>3 DEF SymInv
  <2>13. RelInv'
    <3>1. ASSUME NEW p \in 1 .. Len(reltab')
          PROVE  /\ reltab'[p].line \in 1 .. Len(lines')
                 /\ \E j \in 1 .. Parsed : /\ InLine(j, reltab'[p].line) /\ Asm!Uses(Asm!Statements[j])
                                           /\ Asm!Statements[j].sym = reltab'[p].name
      <4>1. reltab'[p] = reltab[p + 1] /\ p + 1 \in 1 .. n
        BY <2>8
      <4>2. \A q \in 1 .. n :
              /\ reltab[q].line \in 1 .. Len(lines)
              /\ \E j \in 1 .. Parsed : /\ InLine(j, reltab[q].line) /\ Asm!Uses(Asm!Statements[j])
                                       /\ Asm!Statements[j].sym = reltab[q].name
        BY <1>2 DEF RelInv
      <4> QED
        BY <4>1, <4>2, <2>7
    <3>2. ASSUME NEW j \in 1 .. Parsed, Asm!Uses(Asm!Statements[j])
          PROVE  \/ Asm!Statements[j].sym \in DOMAIN symtab
                 \/ \E p \in 1 .. Len(reltab') : reltab'[p].name = Asm!Statements[j].sym
      <4>1. CASE Asm!Statements[j].sym \in DOMAIN symtab
        BY <4>1
      <4>2. CASE Asm!Statements[j].sym \notin DOMAIN symtab
        <5>1. PICK p \in 1 .. n : reltab[p].name = Asm!Statements[j].sym
          BY <4>2, <3>2, <1>2 DEF RelInv
        <5>2. p # 1
          BY <5>1, <4>2, <2>1, <1>8 DEF e
        <5> QED
          BY <5>1, <5>2, <2>9
      <4> QED
        BY <4>1, <4>2
    <3>3. stage' = "relocate"
      BY <1>1, <1>8
    <3> QED
      BY <3>1, <3>2, <3>3, <2>10, <1>1, <1>3 DEF RelInv
  <2>14. RefuseInv'
    BY <2>7, <1>1, <1>2, <1>8 DEF RefuseInv
  <2>15. LineInv'
    <3> SUFFICES ASSUME Asm!OnePerLine(source) PROVE
          /\ \A k \in 1 .. Len(lines') : \A j \in 1 .. Parsed : InLine(j, k) /\ Emits(Asm!Statements[j]) =>
               /\ lines'[k].type = "INS" /\ lines'[k].addr = At[j] /\ lines'[k].bytes = Asm!Bytes(Asm!Statements[j])
               /\ lines'[k].codes = IF Asm!Uses(Asm!Statements[j]) /\ ~HasEntry(k)'
                                    THEN Asm!Encoded(Asm!Statements, At, Asm!Statements[j]) ELSE Asm!Codes(Asm!Statements[j])
          /\ \A k \in 1 .. Len(lines') :
               (\A j \in 1 .. Parsed : InLine(j, k) => ~Emits(Asm!Statements[j])) => lines'[k].bytes = 0
          /\ \A p, q \in 1 .. Len(reltab') : reltab'[p].line = reltab'[q].line => p = q
      BY <2>10, <1>3 DEF LineInv
    <3>1. /\ \A k \in 1 .. Len(lines) : \A j \in 1 .. Parsed : InLine(j, k) /\ Emits(Asm!Statements[j]) =>
               /\ lines[k].type = "INS" /\ lines[k].addr = At[j] /\ lines[k].bytes = Asm!Bytes(Asm!Statements[j])
               /\ lines[k].codes = IF Asm!Uses(Asm!Statements[j]) /\ ~HasEntry(k)
                                   THEN Asm!Encoded(Asm!Statements, At, Asm!Statements[j]) ELSE Asm!Codes(Asm!Statements[j])
          /\ \A k \in 1 .. Len(lines) :
               (\A j \in 1 .. Parsed : InLine(j, k) => ~Emits(Asm!Statements[j])) => lines[k].bytes = 0
          /\ \A p, q \in 1 .. n : reltab[p].line = reltab[q].line => p = q
      BY <1>2 DEF LineInv
    <3>2. \A k \in 1 .. Len(lines) : k = K => HasEntry(k) /\ ~HasEntry(k)'
      <4> TAKE k \in 1 .. Len(lines)
      <4> HAVE k = K
      <4>1. HasEntry(k)
        BY <2>1 DEF HasEntry, K, e
      <4>2. ASSUME NEW p \in 1 .. Len(reltab'), reltab'[p].line = k PROVE FALSE
        <5>1. p + 1 \in 1 .. n /\ reltab[p + 1].line = reltab[1].line
          BY <4>2, <2>8 DEF K, e
        <5>2. p + 1 = 1
          BY <5>1, <3>1, <2>1
        <5> QED
          BY <5>2
      <4> QED
        BY <4>1, <4>2 DEF HasEntry
    <3>3. \A k \in 1 .. Len(lines) : k # K => (HasEntry(k)' <=> HasEntry(k))
      <4> TAKE k \in 1 .. Len(lines)
      <4> HAVE k # K
      <4>1. HasEntry(k)' => HasEntry(k)
        BY <2>8 DEF HasEntry
      <4>2. ASSUME NEW p \in 1 .. n, reltab[p].line = k PROVE HasEntry(k)'
        <5>1. p # 1
          BY <4>2 DEF K, e
        <5> QED
          BY <5>1, <4>2, <2>9 DEF HasEntry
      <4> QED
        BY <4>1, <4>2 DEF HasEntry
    <3>4. ASSUME NEW j \in 1 .. Parsed, InLine(j, K), Emits(Asm!Statements[j])
          PROVE  /\ l.type = "INS" /\ l.addr = At[j] /\ l.bytes = Asm!Bytes(Asm!Statements[j])
                 /\ Asm!Uses(Asm!Statements[j]) /\ l.codes = Asm!Encoded(Asm!Statements, At, Asm!Statements[j])
      <4>1. PICK i \in 1 .. Parsed : InLine(i, K) /\ Asm!Uses(Asm!Statements[i]) /\ Asm!Statements[i].sym = e.name
        BY <2>1, <1>2 DEF RelInv, K, e
      <4>2. i = j
        <5>1. i \in Nat /\ j \in Nat /\ Asm!Statements[i].kind \in {"instr", "data"}
              /\ Asm!Statements[j].kind \in {"instr", "data"}
          BY <4>1, <3>4, <1>4 DEF Asm!Uses, Emits
        <5>2. ~(i < j)
          <6>1. i < j => Asm!Statements[j].kind = "comment"
            BY <5>1, <4>1, <3>4, <2>2, <1>2, OnceIs
          <6> QED
            BY <6>1, <5>1
        <5>3. ~(j < i)
          <6>1. j < i => Asm!Statements[i].kind = "comment"
            BY <5>1, <4>1, <3>4, <2>2, <1>2, OnceIs
          <6> QED
            BY <6>1, <5>1
        <5> QED
          BY <5>1, <5>2, <5>3
      <4>3. /\ lines[K].type = "INS" /\ lines[K].addr = At[j] /\ lines[K].bytes = Asm!Bytes(Asm!Statements[j])
            /\ lines[K].codes = Asm!Codes(Asm!Statements[j])
        BY <3>1, <3>2, <3>4, <2>2
      <4>4. Asm!Statements[j] \in Asm!Statement
        BY <1>2, <1>4, SourceIs
      <4>5. Asm!Relocated(Asm!Codes(Asm!Statements[j]), addr) = [Asm!Codes(Asm!Statements[j]) EXCEPT !.valC = addr]
        BY <4>1, <4>2, <4>4, <2>3, StatementIs
      <4>6. Asm!Encoded(Asm!Statements, At, Asm!Statements[j]) = [Asm!Codes(Asm!Statements[j]) EXCEPT !.valC = addr]
        BY <4>1, <4>2, <2>3 DEF Asm!Encoded
      <4> QED
        BY <4>1, <4>2, <4>3, <4>5, <4>6, <2>5
    <3>5. ASSUME NEW k \in 1 .. Len(lines'), NEW j \in 1 .. Parsed, InLine(j, k), Emits(Asm!Statements[j])
          PROVE  /\ lines'[k].type = "INS" /\ lines'[k].addr = At[j] /\ lines'[k].bytes = Asm!Bytes(Asm!Statements[j])
                 /\ lines'[k].codes = IF Asm!Uses(Asm!Statements[j]) /\ ~HasEntry(k)'
                                      THEN Asm!Encoded(Asm!Statements, At, Asm!Statements[j]) ELSE Asm!Codes(Asm!Statements[j])
      <4>1. k \in 1 .. Len(lines)
        BY <2>7
      <4>2. CASE k = K
        <5>1. lines'[k] = l /\ ~HasEntry(k)'
          BY <4>1, <4>2, <2>7, <3>2
        <5> QED
          BY <5>1, <4>2, <3>4, <3>5
      <4>3. CASE k # K
        <5>1. lines'[k] = lines[k] /\ (HasEntry(k)' <=> HasEntry(k))
          BY <4>1, <4>3, <2>7, <3>3
        <5> QED
          BY <5>1, <4>1, <3>1, <3>5
      <4> QED
        BY <4>2, <4>3
    <3>6. ASSUME NEW k \in 1 .. Len(lines'), \A j \in 1 .. Parsed : InLine(j, k) => ~Emits(Asm!Statements[j])
          PROVE  lines'[k].bytes = 0
      <4>1. k \in 1 .. Len(lines) /\ lines[k].bytes = 0
        BY <2>7, <3>1, <3>6
      <4> QED
        BY <4>1, <2>5, <2>7
    <3>7. ASSUME NEW p \in 1 .. Len(reltab'), NEW q \in 1 .. Len(reltab'),
                 reltab'[p].line = reltab'[q].line
          PROVE  p = q
      <4>1. p + 1 \in 1 .. n /\ q + 1 \in 1 .. n /\ reltab[p + 1].line = reltab[q + 1].line
        BY <3>7, <2>8
      <4>2. p + 1 = q + 1
        BY <4>1, <3>1
      <4> QED
        BY <4>2
    <3> QED
      BY <3>5, <3>6, <3>7
  <2>16. WriteInv'
    BY <1>1, <1>8 DEF WriteInv
  <2> QED
    BY <2>11, <2>12, <2>13, <2>14, <2>15, <2>16 DEF AsmInv
<1> QED
  BY <1>6, <1>7, <1>8 DEF Asm!relocate

\* binfile adds a line to the file.
LEMMA BinfileNext ==
  ASSUME AsmInv, Asm!binfile
  PROVE  AsmInv'
<1> DEFINE k == written + 1
           line == lines[written + 1]
<1>1. /\ stage = "write" /\ written < Len(lines) /\ written' = k
      /\ image' = IF line.type = "INS" THEN Asm!Overlay(image, line) ELSE image
      /\ UNCHANGED <<source, stage, rest, vmaddr, symtab, reltab, lines>>
  BY DEF Asm!binfile
<1>2. /\ LegalSource(source) /\ PosInv /\ SymInv /\ RelInv /\ RefuseInv /\ LineInv /\ WriteInv
      /\ Alive /\ Alive'
  BY <1>1 DEF AsmInv, Alive
<1>3. /\ Off' = Off /\ Asm!Statements' = Asm!Statements /\ At' = At /\ (Asm!OnePerLine(source)' <=> Asm!OnePerLine(source))
      /\ \A j, i : InLine(j, i)' <=> InLine(j, i)
  BY <1>1, SourceKept
<1>4. Parsed' = Parsed /\ \A i : HasEntry(i)' <=> HasEntry(i)
  BY <1>1, <1>3 DEF Parsed, HasEntry
<1>5. PosInv' /\ LegalSource(source)'
  BY <1>1, <1>2, <1>3, <1>4 DEF PosInv
<1>6. SymInv' /\ RelInv'
  BY <1>1, <1>2, <1>3, <1>4 DEF SymInv, RelInv
<1>7. lines \in Seq(LineType) /\ Len(lines) \in Nat /\ written \in Nat
  BY <1>2 DEF PosInv, RefuseInv
<1>8. RefuseInv'
  BY <1>1, <1>2, <1>7 DEF RefuseInv
<1>9. LineInv'
  BY <1>1, <1>2, <1>3, <1>4 DEF LineInv
<1>10. ASSUME Asm!OnePerLine(source)
       PROVE  /\ image' = [a \in DOMAIN image' |-> image'[a]]
              /\ DOMAIN image' = UNION {Span(j) : j \in 1 .. Off[k]}
              /\ \A a \in DOMAIN image' : \A j \in 1 .. Off[k] :
                   a \in Span(j) /\ (\A i \in 1 .. Off[k] : a \in Span(i) => i <= j) =>
                     image'[a] = <<Asm!Encoded(Asm!Statements, At, Asm!Statements[j]), a - At[j]>>
  <2>1. /\ Len(lines) = Len(source) /\ Parsed = Len(Asm!Statements) /\ reltab = <<>>
        /\ Len(Asm!Statements) \in Nat
    BY <1>1, <1>2, AllRead DEF RelInv
  <2>2. /\ k \in 1 .. Len(lines) /\ k \in 1 .. Len(source) /\ k - 1 = written
        /\ written \in 0 .. Len(source) /\ k \in 0 .. Len(source) /\ written \in 0 .. k
    BY <1>1, <1>7, <2>1
  <2> DEFINE w == Off[written]
             o == Off[k]
  <2>3. /\ w \in Nat /\ o \in Nat /\ w <= o /\ o <= Parsed
        /\ \A j \in 1 .. o : j \in 1 .. w \/ InLine(j, k)
        /\ \A j \in 1 .. Parsed : InLine(j, k) => j \in 1 .. o /\ j > w
    <3>1. Off[written] \in Nat /\ Off[k] \in Nat /\ Off[written] <= Off[k] /\ Off[k] <= Parsed
      BY <2>1, <2>2, <1>2, SourceIs
    <3> QED
      BY <3>1, <2>1, <2>2 DEF InLine
  <2>4. /\ image = [a \in DOMAIN image |-> image[a]]
        /\ DOMAIN image = UNION {Span(j) : j \in 1 .. w}
        /\ \A a \in DOMAIN image : \A j \in 1 .. w :
             a \in Span(j) /\ (\A i \in 1 .. w : a \in Span(i) => i <= j) =>
               image[a] = <<Asm!Encoded(Asm!Statements, At, Asm!Statements[j]), a - At[j]>>
    BY <1>1, <1>2, <1>10 DEF WriteInv
  <2>5. \A j \in 1 .. Parsed : /\ At[j] \in Nat /\ Asm!Bytes(Asm!Statements[j]) \in Nat
                               /\ Asm!Statements[j] \in Asm!Statement
                               /\ ~Emits(Asm!Statements[j]) => Asm!Bytes(Asm!Statements[j]) = 0
    <3> TAKE j \in 1 .. Parsed
    <3>1. At[j] \in Nat
      BY <1>2, <2>1 DEF SymInv
    <3>2. Asm!Statements[j] \in Asm!Statement
      BY <1>2, <2>1, SourceIs
    <3> QED
      BY <3>1, <3>2, StatementIs DEF Emits
  <2>6. \A j \in 1 .. Parsed : ~Emits(Asm!Statements[j]) => Span(j) = {}
    BY <2>5 DEF Span
  <2>7. /\ \A j \in 1 .. Parsed : InLine(j, k) /\ Emits(Asm!Statements[j]) =>
             /\ line.type = "INS" /\ line.addr = At[j] /\ line.bytes = Asm!Bytes(Asm!Statements[j])
             /\ line.codes = IF Asm!Uses(Asm!Statements[j]) /\ ~HasEntry(k)
                             THEN Asm!Encoded(Asm!Statements, At, Asm!Statements[j]) ELSE Asm!Codes(Asm!Statements[j])
        /\ (\A j \in 1 .. Parsed : InLine(j, k) => ~Emits(Asm!Statements[j])) => line.bytes = 0
    BY <1>2, <1>10, <2>2 DEF LineInv
  <2>8. ~HasEntry(k)
    BY <2>1 DEF HasEntry
  <2>9. \A j \in 1 .. Parsed : InLine(j, k) /\ Emits(Asm!Statements[j]) =>
          line.codes = Asm!Encoded(Asm!Statements, At, Asm!Statements[j])
    BY <2>7, <2>8 DEF Asm!Encoded
  <2>10. line \in LineType
    BY <2>2, <1>7, ElementOfSeq
  <2>11. Asm!Extent(line) = line.addr .. line.addr + line.bytes - 1
    BY DEF Asm!Extent
  <2> HIDE DEF line, k, w, o
  <2>12. CASE \A j \in 1 .. Parsed : InLine(j, k) => ~Emits(Asm!Statements[j])
    <3>1. Asm!Extent(line) = {}
      BY <2>7, <2>10, <2>11, <2>12 DEF LineType
    <3>2. image' = image
      <4>1. Asm!Overlay(image, line) = image
        <5>1. DOMAIN image \cup Asm!Extent(line) = DOMAIN image
          BY <3>1
        <5>2. \A a \in DOMAIN image : a \notin Asm!Extent(line)
          BY <3>1
        <5>3. Asm!Overlay(image, line) = [a \in DOMAIN image |-> image[a]]
          BY <5>1, <5>2 DEF Asm!Overlay
        <5> QED
          BY <5>3, <2>4
      <4> QED
        BY <4>1, <1>1 DEF line
    <3>3. \A j \in 1 .. o : j \in 1 .. w \/ Span(j) = {}
      <4>1. \A j \in 1 .. o : j \in 1 .. Parsed
        BY <2>1, <2>3
      <4> QED
        BY <4>1, <2>3, <2>6, <2>12
    <3>4. \A j \in 1 .. w : j \in 1 .. o
      BY <2>3
    <3>5. UNION {Span(j) : j \in 1 .. o} = UNION {Span(j) : j \in 1 .. w}
      BY <3>3, <3>4
    <3>6. ASSUME NEW a \in DOMAIN image, NEW j \in 1 .. o, a \in Span(j),
                 \A i \in 1 .. o : a \in Span(i) => i <= j
          PROVE  image[a] = <<Asm!Encoded(Asm!Statements, At, Asm!Statements[j]), a - At[j]>>
      <4>1. j \in 1 .. w /\ \A i \in 1 .. w : a \in Span(i) => i <= j
        BY <3>3, <3>4, <3>6
      <4> QED
        BY <4>1, <3>6, <2>4
    <3> QED
      BY <3>2, <3>5, <3>6, <2>4 DEF o
  <2>13. CASE \E j \in 1 .. Parsed : InLine(j, k) /\ Emits(Asm!Statements[j])
    <3>1. PICK e \in 1 .. Parsed : InLine(e, k) /\ Emits(Asm!Statements[e])
      BY <2>13
    <3>2. \A j \in 1 .. Parsed : InLine(j, k) /\ j # e => ~Emits(Asm!Statements[j])
      <4> SUFFICES ASSUME NEW j \in 1 .. Parsed, InLine(j, k), j # e, Emits(Asm!Statements[j]) PROVE FALSE
        OBVIOUS
      <4>1. j \in Nat /\ e \in Nat /\ Asm!Statements[e].kind \in {"instr", "data"}
            /\ Asm!Statements[j].kind \in {"instr", "data"}
        BY <3>1, <2>1 DEF Emits
      <4>2. k \in 1 .. Len(source)
        BY <2>2
      <4>3. ~(j < e)
        <5>1. j < e => Asm!Statements[e].kind = "comment"
          BY <4>1, <4>2, <3>1, <1>2, <1>10, OnceIs
        <5> QED
          BY <5>1, <4>1
      <4>4. ~(e < j)
        <5>1. e < j => Asm!Statements[j].kind = "comment"
          BY <4>1, <4>2, <3>1, <1>2, <1>10, OnceIs
        <5> QED
          BY <5>1, <4>1
      <4> QED
        BY <4>1, <4>3, <4>4
    <3>3. /\ line.type = "INS" /\ line.addr = At[e] /\ line.bytes = Asm!Bytes(Asm!Statements[e])
          /\ line.codes = Asm!Encoded(Asm!Statements, At, Asm!Statements[e])
      BY <3>1, <2>7, <2>9
    <3>4. Asm!Extent(line) = Span(e)
      BY <3>3, <2>11 DEF Span
    <3>5. image' = [a \in DOMAIN image \cup Span(e) |->
                      IF a \in Span(e) THEN <<Asm!Encoded(Asm!Statements, At, Asm!Statements[e]), a - At[e]>>
                      ELSE image[a]]
      <4>1. image' = Asm!Overlay(image, line)
        BY <3>3, <1>1 DEF line
      <4> QED
        BY <4>1, <3>3, <3>4 DEF Asm!Overlay
    <3>6. /\ e \in 1 .. o /\ e > w
          /\ \A j \in 1 .. o : j = e \/ j \in 1 .. w \/ Span(j) = {}
          /\ \A j \in 1 .. w : j \in 1 .. o /\ j < e
      <4>1. e \in 1 .. o /\ e > w
        BY <3>1, <2>3
      <4>2. \A j \in 1 .. o : j \in 1 .. Parsed
        BY <2>1, <2>3
      <4>3. \A j \in 1 .. o : j = e \/ j \in 1 .. w \/ Span(j) = {}
        BY <4>2, <3>2, <2>3, <2>6
      <4>4. \A j \in 1 .. w : j \in 1 .. o /\ j < e
        BY <4>1, <2>3
      <4> QED
        BY <4>1, <4>3, <4>4
    <3>7. DOMAIN image' = DOMAIN image \cup Span(e)
      BY <3>5
    <3>8. UNION {Span(j) : j \in 1 .. o} = (UNION {Span(j) : j \in 1 .. w}) \cup Span(e)
      <4>1. ASSUME NEW j \in 1 .. o, NEW x \in Span(j)
            PROVE  x \in (UNION {Span(i) : i \in 1 .. w}) \cup Span(e)
        BY <3>6, <4>1
      <4>2. \A j \in 1 .. w : j \in 1 .. o
        BY <3>6
      <4>3. UNION {Span(j) : j \in 1 .. o} \subseteq (UNION {Span(j) : j \in 1 .. w}) \cup Span(e)
        BY <4>1
      <4>4. (UNION {Span(j) : j \in 1 .. w}) \cup Span(e) \subseteq UNION {Span(j) : j \in 1 .. o}
        BY <4>2, <3>6
      <4> QED
        BY <4>3, <4>4
    <3>9. ASSUME NEW a \in DOMAIN image', NEW j \in 1 .. o, a \in Span(j),
                 \A i \in 1 .. o : a \in Span(i) => i <= j
          PROVE  image'[a] = <<Asm!Encoded(Asm!Statements, At, Asm!Statements[j]), a - At[j]>>
      <4>1. CASE a \in Span(e)
        <5>1. e <= j
          BY <4>1, <3>6, <3>9
        <5>2. j = e
          BY <5>1, <3>6, <3>9, <2>3
        <5> QED
          BY <5>2, <4>1, <3>5, <3>7
      <4>2. CASE a \notin Span(e)
        <5>1. a \in DOMAIN image /\ image'[a] = image[a]
          BY <4>2, <3>5, <3>7
        <5>2. j \in 1 .. w /\ \A i \in 1 .. w : a \in Span(i) => i <= j
          BY <4>2, <3>6, <3>9
        <5> QED
          BY <5>1, <5>2, <3>9, <2>4
      <4> QED
        BY <4>1, <4>2
    <3>10. image' = [a \in DOMAIN image' |-> image'[a]]
      BY <3>5
    <3>11. DOMAIN image' = UNION {Span(j) : j \in 1 .. o}
      BY <3>7, <3>8, <2>4
    <3> QED
      BY <3>9, <3>10, <3>11 DEF o
  <2> QED
    BY <2>12, <2>13
<1>11. WriteInv'
  <2>1. \A j : Span(j)' = Span(j)
    BY <1>3 DEF Span
  <2> HIDE DEF k
  <2>2. written' = k
    BY <1>1 DEF k
  <2> QED
    BY <2>1, <2>2, <1>3, <1>10 DEF WriteInv
<1> QED
  BY <1>5, <1>6, <1>8, <1>9, <1>11 DEF AsmInv

\* The file is closed.
LEMMA WrittenNext ==
  ASSUME AsmInv, Asm!Written
  PROVE  AsmInv'
<1>1. /\ stage = "write" /\ stage' = "done" /\ written = Len(lines)
      /\ UNCHANGED <<source, rest, vmaddr, symtab, reltab, lines, written, image>>
  BY DEF Asm!Written
<1>2. /\ LegalSource(source) /\ PosInv /\ SymInv /\ RelInv /\ RefuseInv /\ LineInv /\ WriteInv
      /\ Alive /\ Alive'
  BY <1>1 DEF AsmInv, Alive
<1>3. /\ Off' = Off /\ Asm!Statements' = Asm!Statements /\ At' = At /\ (Asm!OnePerLine(source)' <=> Asm!OnePerLine(source))
      /\ \A j, k : InLine(j, k)' <=> InLine(j, k)
  BY <1>1, SourceKept
<1>4. Parsed' = Parsed /\ \A k : HasEntry(k)' <=> HasEntry(k)
  BY <1>1, <1>3 DEF Parsed, HasEntry
<1>5. PosInv'
  BY <1>1, <1>2, <1>3, <1>4 DEF PosInv
<1>6. SymInv' /\ RelInv'
  BY <1>1, <1>2, <1>3, <1>4 DEF SymInv, RelInv
<1>7. RefuseInv'
  BY <1>1, <1>2 DEF RefuseInv
<1>8. LineInv'
  BY <1>1, <1>2, <1>3, <1>4 DEF LineInv
<1>9. WriteInv'
  <2>1. \A j : Span(j)' = Span(j)
    BY <1>3 DEF Span
  <2> QED
    BY <2>1, <1>1, <1>2, <1>3 DEF WriteInv
<1>10. LegalSource(source)'
  BY <1>1, <1>2
<1> QED
  BY <1>5, <1>6, <1>7, <1>8, <1>9, <1>10 DEF AsmInv

\* Every step of the assembler keeps its invariant.
LEMMA AsmInvNext == AsmInv /\ (Asm!Next \/ UNCHANGED Asm!vars) => AsmInv'
<1>1. CASE AsmInv /\ Asm!Next
  BY <1>1, NextLineNext, ParseNext, AssembledNext, RelocateNext, BinfileNext, WrittenNext DEF Asm!Next
<1>2. CASE AsmInv /\ UNCHANGED Asm!vars
  <2>1. /\ UNCHANGED <<source, stage, rest, vmaddr, symtab, reltab, lines, written, image>>
        /\ LegalSource(source) /\ PosInv /\ SymInv /\ RelInv /\ RefuseInv /\ LineInv /\ WriteInv
    BY <1>2 DEF Asm!vars, AsmInv
  <2>2. /\ Off' = Off /\ Asm!Statements' = Asm!Statements /\ At' = At /\ (Asm!OnePerLine(source)' <=> Asm!OnePerLine(source))
        /\ \A j, k : InLine(j, k)' <=> InLine(j, k)
    BY <2>1, SourceKept
  <2>3. Parsed' = Parsed /\ (Alive' <=> Alive) /\ \A k : HasEntry(k)' <=> HasEntry(k)
    BY <2>1, <2>2 DEF Parsed, HasEntry, Alive
  <2>4. PosInv'
    BY <2>1, <2>2, <2>3 DEF PosInv
  <2>5. SymInv' /\ RelInv'
    BY <2>1, <2>2, <2>3 DEF SymInv, RelInv
  <2>6. RefuseInv'
    BY <2>1, <2>2 DEF RefuseInv
  <2>7. LineInv'
    BY <2>1, <2>2, <2>3 DEF LineInv
  <2>8. WriteInv'
    <3>1. \A j : Span(j)' = Span(j)
      BY <2>2 DEF Span
    <3> QED
      BY <3>1, <2>1, <2>2 DEF WriteInv
  <2>9. LegalSource(source)'
    BY <2>1
  <2> QED
    BY <2>4, <2>5, <2>6, <2>7, <2>8, <2>9 DEF AsmInv
<1> QED
  BY <1>1, <1>2

\* It holds at the start.
LEMMA AsmInvStart == Asm!Init /\ LegalSource(source) => AsmInv
<1> SUFFICES ASSUME Asm!Init, LegalSource(source) PROVE AsmInv
  OBVIOUS
<1>1. /\ stage = "assemble" /\ rest = <<>> /\ vmaddr = 0 /\ symtab = Asm!Nothing /\ reltab = <<>>
      /\ lines = <<>> /\ written = 0 /\ image = Asm!Nothing
  BY DEF Asm!Init
<1>2. Len(source) \in Nat /\ Off[0] = 0 /\ Len(Asm!Statements) \in Nat
  BY SourceIs
<1>3. Len(lines) = 0 /\ Len(rest) = 0 /\ Len(reltab) = 0 /\ Parsed = 0
  BY <1>1, <1>2 DEF Parsed
<1>4. /\ rest \in Seq(Asm!Statement) /\ reltab \in Seq(Entry) /\ lines \in Seq(LineType)
  BY <1>1
<1>5. PosInv
  BY <1>1, <1>2, <1>3, <1>4 DEF PosInv
<1>6. At[1] = 0
  BY <1>2, AddressIs DEF At
<1>7. SymInv
  <2>1. DOMAIN symtab = {}
    BY <1>1 DEF Asm!Nothing
  <2>2. \A j \in 1 .. 0 : FALSE
    OBVIOUS
  <2>3. \A j \in 1 .. 0 + 1 : At[j] \in Nat
    BY <1>6
  <2> QED
    BY <2>1, <2>2, <2>3, <1>1, <1>3, <1>6 DEF SymInv
<1>8. RelInv /\ LineInv
  <2>1. \A j \in 1 .. 0 : FALSE
    OBVIOUS
  <2> QED
    BY <2>1, <1>1, <1>3 DEF RelInv, LineInv
<1>9. RefuseInv /\ WriteInv
  BY <1>1, <1>3 DEF RefuseInv, WriteInv
<1> QED
  BY <1>5, <1>7, <1>8, <1>9 DEF AsmInv

\* The invariant has the properties.
LEMMA AsmInvRefuses == AsmInv => Asm!RefusedRightly
<1> SUFFICES ASSUME AsmInv PROVE Asm!RefusedRightly
  OBVIOUS
<1>1. stage = "failed" => Asm!Erroneous(Asm!Statements) /\ image = Asm!Nothing
  BY DEF AsmInv, RefuseInv
<1>2. ASSUME stage = "done", Asm!Erroneous(Asm!Statements) PROVE FALSE
  <2>1. /\ Parsed = Len(Asm!Statements) /\ DOMAIN Asm!Statements = 1 .. Parsed /\ Alive
    BY <1>2, AllRead
  <2>2. SymInv /\ RelInv /\ reltab = <<>> /\ Len(reltab) = 0
    BY <1>2, <2>1 DEF AsmInv, RelInv
  <2>3. CASE \E j \in DOMAIN Asm!Statements : Asm!Statements[j].kind = "bad"
    BY <2>1, <2>2, <2>3 DEF SymInv
  <2>4. CASE \E j, k \in DOMAIN Asm!Statements :
               j # k /\ Asm!Statements[j].kind = "label" /\ Asm!Defines(Asm!Statements[k], Asm!Statements[j].name)
    BY <2>1, <2>2, <2>4 DEF SymInv
  <2>5. CASE \E j \in DOMAIN Asm!Statements :
               Asm!Uses(Asm!Statements[j]) /\ \A k \in DOMAIN Asm!Statements : ~Asm!Defines(Asm!Statements[k], Asm!Statements[j].sym)
    <3>1. PICK j \in DOMAIN Asm!Statements :
               Asm!Uses(Asm!Statements[j]) /\ \A k \in DOMAIN Asm!Statements : ~Asm!Defines(Asm!Statements[k], Asm!Statements[j].sym)
      BY <2>5
    <3>2. Asm!Statements[j].sym \in DOMAIN symtab
      BY <3>1, <2>1, <2>2 DEF RelInv
    <3> QED
      BY <3>1, <3>2, <2>1, <2>2 DEF SymInv
  <2> QED
    BY <2>3, <2>4, <2>5, <1>2 DEF Asm!Erroneous
<1> QED
  BY <1>1, <1>2 DEF Asm!RefusedRightly

\* So the file has the bytes that the source means.
LEMMA AsmInvImage == AsmInv => Asm!ImageRight
<1> SUFFICES ASSUME AsmInv, stage = "done", Asm!OnePerLine(source)
             PROVE  image = Asm!File(Asm!Statements, Asm!Address(Asm!Statements))
  BY DEF Asm!ImageRight
<1>1. /\ Len(lines) = Len(source) /\ DOMAIN Asm!Statements = 1 .. Len(Asm!Statements) /\ Len(Asm!Statements) \in Nat
  BY AllRead
<1>2. written = Len(source) /\ LegalSource(source) /\ WriteInv
  BY <1>1 DEF AsmInv, RefuseInv
<1>3. 1 .. Off[written] = DOMAIN Asm!Statements
  BY <1>1, <1>2, SourceIs
<1> DEFINE Places == DOMAIN Asm!Statements
<1>4. /\ image = [a \in DOMAIN image |-> image[a]]
      /\ DOMAIN image = UNION {Span(j) : j \in Places}
      /\ \A a \in DOMAIN image : \A j \in Places :
           a \in Span(j) /\ (\A k \in Places : a \in Span(k) => k <= j) =>
             image[a] = <<Asm!Encoded(Asm!Statements, At, Asm!Statements[j]), a - At[j]>>
  BY <1>2, <1>3 DEF WriteInv
<1>5. \A j, a : Asm!Covers(Asm!Statements, At, j, a) <=> a \in Span(j)
  BY DEF Asm!Covers, Span
<1>6. ASSUME NEW a \in DOMAIN image
      PROVE  image[a] = <<Asm!Encoded(Asm!Statements, At, Asm!Statements[Asm!LastAt(Asm!Statements, At, a)]),
                          a - At[Asm!LastAt(Asm!Statements, At, a)]>>
  <2> DEFINE C == {j \in Places : a \in Span(j)}
             last == Asm!LastAt(Asm!Statements, At, a)
  <2>1. C # {} /\ C \subseteq Nat /\ \A x \in C : x <= Len(Asm!Statements)
    BY <1>1, <1>4
  <2>2. \E m \in C : \A y \in C : y <= m
    BY <2>1, <1>1, MaxOfNats
  <2>3. \E j \in Places : /\ Asm!Covers(Asm!Statements, At, j, a)
                     /\ \A k \in Places : Asm!Covers(Asm!Statements, At, k, a) => k <= j
    BY <2>2, <1>5
  <2>4. last = CHOOSE j \in Places : /\ Asm!Covers(Asm!Statements, At, j, a)
                                /\ \A k \in Places : Asm!Covers(Asm!Statements, At, k, a) => k <= j
    BY DEF Asm!LastAt
  <2> HIDE DEF last, Places
  <2>5. last \in Places /\ Asm!Covers(Asm!Statements, At, last, a)
        /\ \A k \in Places : Asm!Covers(Asm!Statements, At, k, a) => k <= last
    BY <2>3, <2>4, Zenon
  <2>6. image[a] = <<Asm!Encoded(Asm!Statements, At, Asm!Statements[last]), a - At[last]>>
    BY <2>5, <1>4, <1>5
  <2> QED
    BY <2>6 DEF last
<1>7. Asm!File(Asm!Statements, At) =
        [a \in UNION {At[j] .. At[j] + Asm!Bytes(Asm!Statements[j]) - 1 : j \in Places} |->
           <<Asm!Encoded(Asm!Statements, At, Asm!Statements[Asm!LastAt(Asm!Statements, At, a)]),
             a - At[Asm!LastAt(Asm!Statements, At, a)]>>]
  BY DEF Asm!File
<1>8. UNION {At[j] .. At[j] + Asm!Bytes(Asm!Statements[j]) - 1 : j \in Places} = DOMAIN image
  BY <1>4 DEF Span
<1> HIDE DEF Places
<1>9. image = Asm!File(Asm!Statements, At)
  BY <1>4, <1>6, <1>7, <1>8
<1> QED
  BY <1>9 DEF At

\* Without .pos, addresses grow.
LEMMA AddressesGrow ==
  ASSUME AsmInv, stage = "done", NEW prog, Denotes(Asm!Statements, prog),
         NEW k \in 1 .. Len(Asm!Statements)
  PROVE  \A j \in 1 .. k : j # k => At[j] + Asm!Bytes(Asm!Statements[j]) <= At[k]
<1> DEFINE n == Len(Asm!Statements)
           Good(m) == \A j \in 1 .. m : j # m => At[j] + Asm!Bytes(Asm!Statements[j]) <= At[m]
           Failing == {m \in 1 .. n : ~Good(m)}
<1>1. n \in Nat /\ DOMAIN Asm!Statements = 1 .. n /\ Parsed = n /\ Alive /\ LegalSource(source) /\ SymInv
  BY AllRead DEF AsmInv
<1>2. \A j \in 1 .. n : /\ At[j] \in Nat /\ At[j + 1] \in Nat
                        /\ Asm!Statements[j] \in Asm!Statement /\ Asm!Bytes(Asm!Statements[j]) \in Nat
  <2> TAKE j \in 1 .. n
  <2>1. j \in 1 .. Parsed + 1 /\ j + 1 \in 1 .. Parsed + 1
    BY <1>1
  <2>2. At[j] \in Nat /\ At[j + 1] \in Nat
    BY <2>1, <1>1 DEF SymInv
  <2>3. Asm!Statements[j] \in Asm!Statement
    BY <1>1, SourceIs
  <2> QED
    BY <2>2, <2>3, StatementIs
<1>3. ASSUME NEW j \in 1 .. n PROVE At[j] + Asm!Bytes(Asm!Statements[j]) <= At[j + 1]
  <2>1. At[j + 1] = Asm!Behind(Asm!Statements[j], At[j])
    BY <1>1, AddressIs DEF At
  <2>2. /\ Asm!Statements[j].kind # "pos"
        /\ Asm!Statements[j].kind = "align" => Asm!Statements[j].value \in Nat \ {0} /\ Asm!Bytes(Asm!Statements[j]) = 0
    BY <1>1, <1>2, StatementIs DEF Denotes
  <2>3. CASE Asm!Statements[j].kind = "align"
    <3> DEFINE v == Asm!Statements[j].value
    <3>1. v \in Nat \ {0} /\ At[j] \in Nat
      BY <2>2, <2>3, <1>2
    <3> HIDE DEF v
    <3>2. /\ At[j] <= Asm!Aligned(At[j], v)
          /\ (CHOOSE a \in At[j] .. At[j] + v - 1 : a % v = 0) = Asm!Aligned(At[j], v)
      BY <3>1, AlignedIs
    <3>3. Asm!Behind(Asm!Statements[j], At[j]) = CHOOSE a \in At[j] .. At[j] + v - 1 : a % v = 0
      BY <2>3 DEF Asm!Behind, v
    <3> QED
      <4>1. At[j + 1] = Asm!Aligned(At[j], v)
        BY <3>2, <3>3, <2>1
      <4>2. At[j] <= At[j + 1]
        BY <4>1, <3>2
      <4>3. Asm!Bytes(Asm!Statements[j]) = 0 /\ At[j] + 0 = At[j]
        BY <3>1, <2>2, <2>3
      <4> QED
        BY <4>2, <4>3
  <2>4. CASE Asm!Statements[j].kind # "align"
    BY <2>1, <2>2, <2>4, <1>2 DEF Asm!Behind
  <2> QED
    BY <2>3, <2>4
<1>4. ASSUME Failing # {} PROVE FALSE
  <2>1. PICK m \in Failing : \A i \in Failing : m <= i
    <3>1. Failing \subseteq Nat
      BY <1>1
    <3> QED
      BY <3>1, <1>4, MinOfNats
  <2>2. m \in 1 .. n /\ ~Good(m) /\ \A i \in 1 .. n : i \notin Failing => Good(i)
    OBVIOUS
  <2> HIDE DEF Failing
  <2>3. m # 1
    BY <2>2
  <2>4. m - 1 \in 1 .. n /\ ~(m <= m - 1) /\ (m - 1) + 1 = m
    BY <2>2, <2>3, <1>1
  <2>5. Good(m - 1)
    BY <2>1, <2>2, <2>4
  <2>6. At[m - 1] + Asm!Bytes(Asm!Statements[m - 1]) <= At[m]
    BY <2>4, <1>3
  <2>7. ASSUME NEW j \in 1 .. m, j # m PROVE At[j] + Asm!Bytes(Asm!Statements[j]) <= At[m]
    <3>1. CASE j = m - 1
      BY <3>1, <2>6
    <3>2. CASE j # m - 1
      <4>1. j \in 1 .. (m - 1)
        BY <3>2, <2>2, <2>7
      <4>2. At[j] + Asm!Bytes(Asm!Statements[j]) <= At[m - 1]
        BY <4>1, <3>2, <2>5
      <4>3. /\ At[m - 1] \in Nat /\ At[m] \in Nat /\ Asm!Bytes(Asm!Statements[m - 1]) \in Nat
            /\ At[j] + Asm!Bytes(Asm!Statements[j]) \in Nat
        <5>1. j \in 1 .. n
          BY <2>2
        <5> QED
          BY <5>1, <2>2, <2>4, <1>2
      <4> QED
        BY <4>2, <4>3, <2>6
    <3> QED
      BY <3>1, <3>2
  <2> QED
    BY <2>2, <2>7
<1>5. Good(k)
  BY <1>4
<1> QED
  BY <1>5

\* So the file is the program that the source denotes.
LEMMA AsmInvLoaded ==
  ASSUME AsmInv, stage = "done", Asm!OnePerLine(source), NEW prog, Denotes(Asm!Statements, prog),
         NEW a \in DOMAIN prog
  PROVE  a \in DOMAIN image /\ image[a] = <<prog[a], 0>>
<1> DEFINE n == Len(Asm!Statements)
<1>1. /\ n \in Nat /\ DOMAIN Asm!Statements = 1 .. n /\ Len(lines) = Len(source) /\ Parsed = n /\ Alive
      /\ LegalSource(source) /\ SymInv
  BY AllRead DEF AsmInv
<1>2. written = Len(source) /\ WriteInv /\ Off[written] = n
  BY <1>1, SourceIs DEF AsmInv, RefuseInv
<1>3. PICK j \in 1 .. n : /\ Asm!Statements[j].kind = "instr" /\ At[j] = a
                          /\ Asm!Encoded(Asm!Statements, At, Asm!Statements[j]) = prog[a]
  BY <1>1 DEF Denotes, At
<1>4. \A i \in 1 .. n : At[i] \in Nat /\ Asm!Bytes(Asm!Statements[i]) \in Nat
  <2> TAKE i \in 1 .. n
  <2>1. At[i] \in Nat
    BY <1>1 DEF SymInv
  <2>2. Asm!Statements[i] \in Asm!Statement
    BY <1>1, SourceIs
  <2> QED
    BY <2>1, <2>2, StatementIs
<1>5. Asm!Bytes(Asm!Statements[j]) >= 1
  <2>1. WORD \in Nat
    BY Y86Assumption
  <2> QED
    BY <2>1, <1>3 DEF Asm!Bytes, Asm!NextPc, Asm!ValcAt
<1>6. a \in Span(j) /\ a - At[j] = 0
  BY <1>3, <1>4, <1>5 DEF Span
<1>7. ASSUME NEW i \in 1 .. n, a \in Span(i) PROVE i <= j
  <2>1. CASE i <= j
    BY <2>1
  <2>2. CASE ~(i <= j)
    <3>1. j \in 1 .. i /\ j # i
      BY <2>2, <1>1
    <3>2. At[j] + Asm!Bytes(Asm!Statements[j]) <= At[i]
      BY <3>1, AddressesGrow
    <3>3. At[i] <= a
      BY <1>7, <1>4 DEF Span
    <3> QED
      BY <3>2, <3>3, <1>3, <1>4, <1>5
  <2> QED
    BY <2>1, <2>2
<1>8. /\ DOMAIN image = UNION {Span(i) : i \in 1 .. n}
      /\ \A x \in DOMAIN image : \A i \in 1 .. n :
           x \in Span(i) /\ (\A m \in 1 .. n : x \in Span(m) => m <= i) =>
             image[x] = <<Asm!Encoded(Asm!Statements, At, Asm!Statements[i]), x - At[i]>>
  BY <1>2 DEF WriteInv
<1>9. a \in DOMAIN image
  BY <1>6, <1>8
<1> QED
  BY <1>3, <1>6, <1>7, <1>8, <1>9

\* The others leave the assembler alone.
LEMMA AsmInvAlways ==
  SimInit /\ LegalSource(source) /\ [][SimNext]_simVars => []AsmInv
<1>1. SimInit /\ LegalSource(source) => AsmInv
  BY AsmInvStart DEF SimInit
<1>2. AsmInv /\ [SimNext]_simVars => AsmInv'
  <2> SUFFICES ASSUME AsmInv, [SimNext]_simVars PROVE AsmInv'
    OBVIOUS
  <2>1. Asm!Next \/ UNCHANGED Asm!vars
    BY DEF SimNext, Psim, simVars, asmVars, Asm!vars
  <2> QED
    BY <2>1, AsmInvNext
<1> QED
  BY <1>1, <1>2, PTL

\* For every source that the parse functions can take apart, and words of every
\* size, y64asm.c refuses the sources with an error before it has begun a file,
\* and no others: a text that is no statement, a label twice, a name that
\* nothing defines.
THEOREM RefusesRightly ==
  SimInit /\ LegalSource(source) /\ [][SimNext]_simVars => []RefusedRightly
<1>1. AsmInv => RefusedRightly
  BY AsmInvRefuses DEF RefusedRightly
<1> QED
  BY <1>1, AsmInvAlways, PTL

\* For every such source the two passes of y64asm.c, with their tables of names
\* and of places that want an address, write the bytes that the source as a
\* whole means.
THEOREM ImageCorrect ==
  SimInit /\ LegalSource(source) /\ [][SimNext]_simVars => []ImageRight
<1>1. AsmInv => ImageRight
  BY AsmInvImage DEF ImageRight
<1> QED
  BY <1>1, AsmInvAlways, PTL

\* For every program and every source that denotes it, the file of y64asm.c is
\* the program that the simulators of the composition run.
THEOREM LoadsCode ==
  SimInit /\ LegalSource(source) /\ Asm!OnePerLine(source) /\ Denotes(Asm!Statements, code)
    /\ [][SimNext]_simVars => []CodeLoaded
<1> DEFINE Meant == Asm!OnePerLine(source) /\ Denotes(Asm!Statements, code)
<1>1. Meant /\ [SimNext]_simVars => Meant'
  <2> SUFFICES ASSUME Meant, [SimNext]_simVars PROVE Meant'
    OBVIOUS
  <2>1. code' = code
    BY DEF SimNext, Psim, HNext, Next, Cycle, sim_step_pipe, simVars, hvars, vars
  <2>2. source' = source
    BY DEF SimNext, Psim, simVars, asmVars, Asm!Next, Asm!NextLine, Asm!parse_line, Asm!Assembled,
           Asm!relocate, Asm!binfile, Asm!Written
  <2>3. Asm!Statements' = Asm!Statements
    BY <2>2 DEF Asm!Statements
  <2> QED
    BY <2>1, <2>2, <2>3
<1>2. AsmInv /\ Meant => CodeLoaded
  <2> SUFFICES ASSUME AsmInv, Meant, stage = "done", NEW a \in DOMAIN code
               PROVE  a \in DOMAIN image /\ image[a] = <<code[a], 0>>
    BY DEF CodeLoaded
  <2> QED
    BY AsmInvLoaded
<1> HIDE DEF Meant
<1>3. SimInit /\ LegalSource(source) /\ Meant /\ [][SimNext]_simVars => []CodeLoaded
  BY <1>1, <1>2, AsmInvAlways, PTL
<1> QED
  BY <1>3 DEF Meant
=============================================================================
