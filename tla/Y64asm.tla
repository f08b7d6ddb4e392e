------------------------------- MODULE Y64asm -------------------------------
(***************************************************************************)
(* The assembler of lab 5, icslabs/lab5/y64asm.c.  assemble reads a source     *)
(* line by line and lays it out, relocate puts the addresses of the symbols    *)
(* where they are used, binfile writes the bytes.                            *)
(*                                                                         *)
(* A source is a sequence of lines, a line a sequence of statements as the     *)
(* parse functions take them off the text: labels, instructions, .byte and    *)
(* its like (data), .pos, .align, comments, and text that is none of these     *)
(* (bad).  A byte of the output is <<codes, k>>, byte k of what codes encodes;  *)
(* bytes that nobody writes are zero.                                        *)
(***************************************************************************)
EXTENDS Y86, SequencesExt

VARIABLES
  source,   \* the .ys file
  stage,    \* "assemble", "relocate", "write"; "done", "failed", "crashed"
  rest,     \* what parse_line has not read of its line
  vmaddr,
  symtab,   \* a function from names to addresses
  reltab,   \* the entries [line, name], the last one added first
  lines,    \* line_head: the lines read
  written,  \* how many lines binfile has dealt with
  image     \* the .bin file

vars == <<source, stage, rest, vmaddr, symtab, reltab, lines, written, image>>

\* What the parse functions take off a line.  A symbol may stand for the
\* constant of irmovq, jumps, call and data; "none" is no symbol.
Statement ==
  [kind : {"label"}, name : STRING] \cup [kind : {"pos", "align"}, value : Nat]
    \cup [kind : {"comment", "bad"}] \cup [kind : {"data"}, bytes : Nat, valC : Word, sym : STRING]
    \cup {s \in [kind : {"instr"}, icode : KnownCode, ifun : Cond \cup AluFn \cup {"NONE"},
                 rA : Reg \cup {RNONE}, rB : Reg \cup {RNONE}, valC : Word, sym : STRING] :
            s.sym = "none" \/ s.icode \in {"IRMOVQ", "JXX", "CALL"}}

Nothing == [x \in {} |-> 0]
EmptyLine == [type |-> "COMM", addr |-> 0, codes |-> HaltInstr, bytes |-> 0]

Init ==
  /\ stage = "assemble"
  /\ rest = <<>> /\ vmaddr = 0
  /\ symtab = Nothing /\ reltab = <<>>
  /\ lines = <<>> /\ written = 0
  /\ image = Nothing

----------------------------------------------------------------------------
(* assemble and parse_line.                                                *)

Data(val) == [HaltInstr EXCEPT !.icode = "DATA", !.valC = val]
Codes(s) == IF s.kind = "data" THEN Data(s.valC)
            ELSE [icode |-> s.icode, ifun |-> s.ifun, rA |-> s.rA, rB |-> s.rB, valC |-> s.valC]
Bytes(s) == CASE s.kind = "data" -> s.bytes
              [] s.kind = "instr" -> NextPc(s.icode, 0)
              [] OTHER -> 0

NextLine ==
  /\ stage = "assemble" /\ rest = <<>>
  /\ Len(lines) < Len(source)
  /\ lines' = Append(lines, EmptyLine)
  /\ rest' = source[Len(lines) + 1]
  /\ UNCHANGED <<source, stage, vmaddr, symtab, reltab, written, image>>

\* The line with one more statement: it starts at addr.
Placed(line, addr) == [line EXCEPT !.type = "INS", !.addr = addr]
UpdateLine(line) == lines' = [lines EXCEPT ![Len(lines)] = line]

\* Faulty: a name that is defined again is taken for the first.
add_symbolAgain(name) ==
  symtab' = [n \in DOMAIN symtab \cup {name} |-> IF n \in DOMAIN symtab THEN symtab[n] ELSE vmaddr]
add_symbol(name) ==
  /\ name \notin DOMAIN symtab
  /\ symtab' = [n \in DOMAIN symtab \cup {name} |-> IF n = name THEN vmaddr ELSE symtab[n]]
Label(s) ==
  /\ s.kind = "label"
  /\ add_symbol(s.name)
  /\ UpdateLine(Placed(Last(lines), vmaddr))
  /\ UNCHANGED <<stage, vmaddr, reltab>>

\* A label twice, an instruction that is none, an operand that is none.
Refused(s) ==
  /\ s.kind = "bad" \/ (s.kind = "label" /\ s.name \in DOMAIN symtab)
  /\ stage' = "failed"
  /\ UNCHANGED <<vmaddr, symtab, reltab, lines>>

add_reloc(name) == reltab' = <<[line |-> Len(lines), name |-> name]>> \o reltab
\* A second instruction on a line takes the place of the first, whose
\* relocation entry stays.
Emit(s) ==
  /\ s.kind \in {"instr", "data"}
  /\ UpdateLine([Placed(Last(lines), vmaddr) EXCEPT !.codes = Codes(s), !.bytes = Bytes(s)])
  /\ vmaddr' = vmaddr + Bytes(s)
  /\ IF s.sym # "none" THEN add_reloc(s.sym) ELSE UNCHANGED reltab
  /\ UNCHANGED <<stage, symtab>>

\* Faulty: an address that is aligned moves on.
AlignedBeyond(addr, n) == addr + n - (addr % n)
Aligned(addr, n) == IF addr % n = 0 THEN addr ELSE addr + n - (addr % n)
MoveTo(addr) ==
  /\ vmaddr' = addr
  /\ UpdateLine([Placed(Last(lines), addr) EXCEPT !.bytes = 0])
  /\ UNCHANGED <<stage, symtab, reltab>>
Position(s) ==
  \/ s.kind = "pos" /\ MoveTo(s.value)
  \/ s.kind = "align" /\ s.value > 0 /\ MoveTo(Aligned(vmaddr, s.value))
\* .align 0 divides by zero.
Divides(s) ==
  /\ s.kind = "align" /\ s.value = 0
  /\ stage' = "crashed"
  /\ UNCHANGED <<vmaddr, symtab, reltab, lines>>

parse_line ==
  /\ stage = "assemble" /\ rest # <<>>
  /\ \/ Label(Head(rest)) \/ Refused(Head(rest)) \/ Emit(Head(rest))
     \/ Position(Head(rest)) \/ Divides(Head(rest))
     \/ Head(rest).kind = "comment" /\ UNCHANGED <<stage, vmaddr, symtab, reltab, lines>>
  /\ rest' = Tail(rest)
  /\ UNCHANGED <<source, written, image>>

Assembled ==
  /\ stage = "assemble" /\ rest = <<>> /\ Len(lines) = Len(source)
  /\ stage' = "relocate"
  /\ UNCHANGED <<source, rest, vmaddr, symtab, reltab, lines, written, image>>

----------------------------------------------------------------------------
(* relocate and binfile.                                                   *)

\* Faulty: the operand of call is taken for data.
RelocatedData(codes, addr) ==
  IF codes.icode \in {"IRMOVQ", "JXX"} THEN [codes EXCEPT !.valC = addr] ELSE Data(addr)
\* In what is neither irmovq nor a jump nor call the address goes to byte 0.
Relocated(codes, addr) ==
  IF codes.icode \in {"IRMOVQ", "JXX", "CALL"} THEN [codes EXCEPT !.valC = addr] ELSE Data(addr)

relocate ==
  /\ stage = "relocate"
  /\ \/ reltab = <<>> /\ stage' = "write" /\ UNCHANGED <<reltab, lines>>
     \/ /\ reltab # <<>> /\ Head(reltab).name \in DOMAIN symtab
        /\ lines' = [lines EXCEPT ![Head(reltab).line].codes =
                                    Relocated(@, symtab[Head(reltab).name])]
        /\ reltab' = Tail(reltab)
        /\ UNCHANGED stage
     \/ /\ reltab # <<>> /\ Head(reltab).name \notin DOMAIN symtab
        /\ stage' = "failed"
        /\ UNCHANGED <<reltab, lines>>
  /\ UNCHANGED <<source, rest, vmaddr, symtab, written, image>>

Extent(line) == line.addr .. line.addr + line.bytes - 1
Overlay(file, line) ==
  [a \in DOMAIN file \cup Extent(line) |->
     IF a \in Extent(line) THEN <<line.codes, a - line.addr>> ELSE file[a]]

binfile ==
  /\ stage = "write" /\ written < Len(lines)
  /\ image' = IF lines[written + 1].type = "INS" THEN Overlay(image, lines[written + 1]) ELSE image
  /\ written' = written + 1
  /\ UNCHANGED <<source, stage, rest, vmaddr, symtab, reltab, lines>>
Written ==
  /\ stage = "write" /\ written = Len(lines)
  /\ stage' = "done"
  /\ UNCHANGED <<source, rest, vmaddr, symtab, reltab, lines, written, image>>

Next == NextLine \/ parse_line \/ Assembled \/ relocate \/ binfile \/ Written
=============================================================================
