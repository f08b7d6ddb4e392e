-------------------------- MODULE Y64asmProperties --------------------------
(***************************************************************************)
(* What an assembler promises, stated over the source as a whole: where each  *)
(* statement stands, what each name means, which bytes the file has.          *)
(***************************************************************************)
EXTENDS Y64asm

Statements == FlattenSeq(source)

Behind(s, addr) ==
  CASE s.kind = "pos" -> s.value
    [] s.kind = "align" -> CHOOSE a \in addr .. addr + s.value - 1 : a % s.value = 0
    [] OTHER -> addr + Bytes(s)
\* Where statement j starts; .pos and .align are about what comes behind them.
Address(stmts) ==
  LET at[j \in 1 .. Len(stmts) + 1] == IF j = 1 THEN 0 ELSE Behind(stmts[j - 1], at[j - 1])
  IN  at

Defines(s, name) == s.kind = "label" /\ s.name = name
Uses(s) == s.kind \in {"instr", "data"} /\ s.sym # "none"
Meaning(stmts, at, name) == at[CHOOSE j \in DOMAIN stmts : Defines(stmts[j], name)]

\* The encoding of statement j with the meaning of its symbol for a constant.
Encoded(stmts, at, s) ==
  IF Uses(s) THEN [Codes(s) EXCEPT !.valC = Meaning(stmts, at, s.sym)] ELSE Codes(s)
Covers(stmts, at, j, a) == a \in at[j] .. at[j] + Bytes(stmts[j]) - 1
\* Of statements that overlap, as they may behind .pos, the last one counts.
LastAt(stmts, at, a) ==
  CHOOSE j \in DOMAIN stmts :
    /\ Covers(stmts, at, j, a)
    /\ \A k \in DOMAIN stmts : Covers(stmts, at, k, a) => k <= j
File(stmts, at) ==
  [a \in UNION {at[j] .. at[j] + Bytes(stmts[j]) - 1 : j \in DOMAIN stmts} |->
     <<Encoded(stmts, at, stmts[LastAt(stmts, at, a)]), a - at[LastAt(stmts, at, a)]>>]

\* A line as the labs write it: labels, then one instruction or directive.
OnePerLine(src) ==
  \A k \in DOMAIN src : \A j \in DOMAIN src[k] :
    src[k][j].kind \notin {"label", "comment"} =>
      \A i \in j + 1 .. Len(src[k]) : src[k][i].kind = "comment"

\* Two passes, a table of names and a table of places that still want an
\* address come to the same bytes as reading the source as a whole: names that
\* are used before they are defined, code that .pos lays over other code.
ImageRight ==
  stage = "done" /\ OnePerLine(source) => image = File(Statements, Address(Statements))

Erroneous(stmts) ==
  \/ \E j \in DOMAIN stmts : stmts[j].kind = "bad"
  \/ \E j, k \in DOMAIN stmts : j # k /\ stmts[j].kind = "label" /\ Defines(stmts[k], stmts[j].name)
  \/ \E j \in DOMAIN stmts : Uses(stmts[j]) /\ \A k \in DOMAIN stmts : ~Defines(stmts[k], stmts[j].sym)

\* y64-err: a source with an error is refused, and no file is begun; no other
\* source is refused.
RefusedRightly ==
  /\ stage = "failed" => Erroneous(Statements) /\ image = Nothing
  /\ stage = "done" => ~Erroneous(Statements)
=============================================================================
