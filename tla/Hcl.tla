-------------------------------- MODULE Hcl --------------------------------
(***************************************************************************)
(* The control signals of one instruction that the pipelined and the          *)
(* sequential processor have in common, in pipe-full.hcl and seq-full.hcl:    *)
(* its registers in decode (d), its operation in execute (e) and its memory   *)
(* access (m).                                                               *)
(***************************************************************************)
EXTENDS Y86

srcA(d) ==
  CASE d.icode \in {"RRMOVQ", "RMMOVQ", "OPQ", "PUSHQ"} -> d.rA
    [] d.icode \in {"POPQ", "RET"} -> RSP
    [] OTHER -> RNONE
srcB(d) ==
  CASE d.icode \in {"OPQ", "RMMOVQ", "MRMOVQ", "IADDQ"} -> d.rB
    [] d.icode \in {"PUSHQ", "POPQ", "CALL", "RET"} -> RSP
    [] OTHER -> RNONE
dstE(d) ==
  CASE d.icode \in {"RRMOVQ", "IRMOVQ", "OPQ", "IADDQ"} -> d.rB
    [] d.icode \in {"PUSHQ", "POPQ", "CALL", "RET"} -> RSP
    [] OTHER -> RNONE
dstM(d) == IF d.icode \in {"MRMOVQ", "POPQ"} THEN d.rA ELSE RNONE

aluA(e) ==
  CASE e.icode \in {"RRMOVQ", "OPQ"} -> e.valA
    [] e.icode \in {"IRMOVQ", "RMMOVQ", "MRMOVQ", "IADDQ"} -> e.valC
    [] e.icode \in {"CALL", "PUSHQ"} -> -WORD
    [] e.icode \in {"RET", "POPQ"} -> WORD
    [] OTHER -> 0
aluB(e) ==
  IF e.icode \in {"RMMOVQ", "MRMOVQ", "OPQ", "CALL", "PUSHQ", "RET", "POPQ", "IADDQ"}
  THEN e.valB ELSE 0
alufun(e) == IF e.icode = "OPQ" THEN e.ifun ELSE "ADD"

mem_read(m)  == m.icode \in {"MRMOVQ", "POPQ", "RET"}
mem_write(m) == m.icode \in {"RMMOVQ", "PUSHQ", "CALL"}
mem_addr(m)  ==
  CASE m.icode \in {"RMMOVQ", "PUSHQ", "CALL", "MRMOVQ"} -> m.valE
    [] m.icode \in {"POPQ", "RET"} -> m.valA
    [] OTHER -> 0
=============================================================================
