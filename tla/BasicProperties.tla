-------------------------- MODULE BasicProperties --------------------------
(***************************************************************************)
(* What the interpreter promises to the one who types programs.             *)
(***************************************************************************)
EXTENDS Basic

\* A type invariant: values are ints, and run stands on a line that exists.
TypeOK ==
  /\ line.number \in LineNo \cup {NoLine}
  /\ DOMAIN statements \subseteq LineNo
  /\ \A n \in DOMAIN statements : Stored(statements[n].kind)
  /\ DOMAIN symbols \subseteq Var
  /\ \A x \in DOMAIN symbols : symbols[x] \in Int32
  /\ itr \in DOMAIN statements \cup {NoLine}
  /\ asking \in Var \cup {"none"}
  /\ session \in {"open", "quit", "crashed"}

\* program.h: the text of a line "replaces the text of any existing line in the
\* program with that number".  Every line of the program is the last good one
\* that was typed under its number since it was emptied or all were cleared:
\* neither a refused line, nor an error in the middle of a run, nor INPUT, nor
\* another line touches it.
Same(n) ==
  /\ n \in DOMAIN statements <=> n \in DOMAIN statements'
  /\ n \in DOMAIN statements \cap DOMAIN statements' => statements'[n] = statements[n]
Processed == line # Nothing /\ line' = Nothing
LineKept(n) ==
  IF Processed /\ line.stmt.kind = "CLEAR" THEN n \notin DOMAIN statements'
  ELSE IF Processed /\ line.number = n /\ line.stmt.kind = "nothing" THEN n \notin DOMAIN statements'
  ELSE IF Processed /\ line.number = n /\ Stored(line.stmt.kind)
       THEN n \in DOMAIN statements' /\ statements'[n] = line.stmt
  ELSE Same(n)
LinesKept == [][\A n \in LineNo : LineKept(n)]_vars

\* No jump goes back.
Forward ==
  \A n \in DOMAIN statements :
    statements[n].kind \in {"GOTO", "IF"} => statements[n].target > n

\* The run stands on an IF whose condition holds and whose line is missing.
Repeats ==
  /\ Current.kind = "IF" /\ Current.target \notin DOMAIN statements
  /\ LET left  == parseExp(Current.lhs)
         right == parseExp(Current.rhs)
     IN  /\ left.err = "none" /\ right.err = "none"
         /\ Holds(Current.op, left.val, right.val)

\* A run of a program without jumps back ends, by END, behind the last line or
\* with an error, or waits for INPUT; and nothing keeps it but an IF that would
\* jump to a missing line, which run repeats for ever (statement.cpp:198-209).
RunEnds == (Running /\ Forward) ~> (~Running \/ Repeats)
=============================================================================
