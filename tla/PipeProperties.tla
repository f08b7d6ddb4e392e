--------------------------- MODULE PipeProperties ---------------------------
(***************************************************************************)
(* What the pipelined processor is for: it runs programs as Isa promises,    *)
(* and it keeps running them.                                               *)
(***************************************************************************)
EXTENDS Pipe

\* The condition codes of one cycle ago: the pipeline sets them in execute,
\* two stages before the instruction completes.
VARIABLE ccW

hvars == <<vars, ccW>>
HInit == Init /\ ccW = DEFAULT_CC
HNext == Next /\ ccW' = cc
HSpec == HInit /\ [][HNext]_hvars /\ WF_hvars(HNext)

(***************************************************************************)
(* The pipeline at rest in the eyes of the program: an instruction is done    *)
(* when it enters write-back.  Its register writes come with the next edge,   *)
(* and the program goes on at the oldest instruction behind it, or at the     *)
(* address fetched now when there are only bubbles.                          *)
(***************************************************************************)
OldestPc ==
  IF M.status # "BUB" THEN M.pc
  ELSE IF E.status # "BUB" THEN E.pc
  ELSE IF D.status # "BUB" THEN D.pc
  ELSE f_pc(F, M, W)

Program == INSTANCE Isa WITH
  pc <- IF Running THEN OldestPc ELSE W.pc,
  r <- IF Running THEN WriteBack(reg) ELSE reg,
  m <- mem, cc <- ccW, stat <- status

\* Forwarding, stalls, speculation and its undoing, and exceptions that must
\* not let younger instructions act: the pipeline completes the instructions
\* that step_state executes one by one, in that order and with its results.
ImplementsIsa == Program!Spec

\* pipe-full.hcl: of stall and bubble "at most one of these can be true".
\* A mispredicted branch, a load and a ret meet in all combinations.
NoConflict == \A s \in DOMAIN op : op[s] # "ERROR"

\* No combination of stalls and bubbles holds up the pipeline for ever: while
\* the processor runs, instructions keep completing.
KeepsCompleting == []<>(~Running \/ W.status # "BUB")

\* "Start injecting bubbles as soon as exception passes through memory stage":
\* from the cycle in which an instruction turns out to be at fault, the edges
\* to come change neither memory nor condition codes, whatever is behind it.
FaultsActAlone ==
  nextW.status \in Bad \/ W.status \in Bad =>
    cc_in = cc /\ (store.write => ~WordOk(store.addr))

\* A type invariant: what the stages compute stays within words and registers.
TypeOK ==
  /\ reg \in [Reg -> Word]
  /\ mem \in [Addr -> Word]
  /\ cc \in CC /\ cc_in \in CC
  /\ {E.valA, E.valB, E.valC, M.valE, M.valA, W.valE, W.valM} \subseteq Word
  /\ {E.dstE, E.dstM, M.dstE, M.dstM, W.dstE, W.dstM} \subseteq Reg \cup {RNONE}
  /\ status \in Stat
=============================================================================
