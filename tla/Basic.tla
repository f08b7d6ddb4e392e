------------------------------- MODULE Basic -------------------------------
(***************************************************************************)
(* The BASIC interpreter, basic_interpreter/Basic: processLine takes a line   *)
(* from the console, Program keeps the numbered lines and runs them, the       *)
(* statements evaluate expressions over the variables of EvalState.            *)
(*                                                                         *)
(* A line comes scanned: its number, if it has one, and its statement, whose    *)
(* expressions are trees.                                                    *)
(***************************************************************************)
EXTENDS Integers, FiniteSets

CONSTANTS Half,       \* an int is -Half .. Half - 1; 2^31 in the source
          LineNo,     \* line numbers
          Var,        \* variable names
          Depth,      \* how deep the operators of an expression may be nested
          Stmt        \* the statements a user may type

ASSUME BasicAssumption == Half \in Nat \ {0} /\ LineNo \subseteq Nat /\ "none" \notin Var

Int32 == -Half .. Half - 1

\* Expressions, and text that parseExp refuses.  It refuses "=" everywhere, so
\* that the assignments which eval knows of are never made, and it knows no sign.
Operand == [op : {"constant"}, val : 0 .. Half - 1] \cup [op : {"identifier"}, name : Var]
CompoundExp(Exp) == [op : {"+", "-", "*", "/"}, lhs : Exp, rhs : Exp]
Nested[n \in 0 .. Depth] == IF n = 0 THEN Operand ELSE Nested[n - 1] \cup CompoundExp(Nested[n - 1])
Expression == Nested[Depth]
Text == Expression \cup {[op |-> "malformed"]}

Statement ==
  [kind : {"REM", "END", "nothing", "unknown", "malformed"}]
    \cup [kind : {"PRINT"}, exp : Text] \cup [kind : {"LET"}, var : Var, exp : Text]
    \cup [kind : {"INPUT"}, var : Var] \cup [kind : {"GOTO"}, target : Nat]
    \cup [kind : {"IF"}, lhs : Text, op : {"<", ">", "="}, rhs : Text, target : Nat]
ASSUME StmtAssumption == Depth \in Nat /\ Stmt \subseteq Statement

NoLine == -1
Command == {[kind |-> "RUN"], [kind |-> "CLEAR"], [kind |-> "QUIT"]}

VARIABLES
  line,         \* main: the line that was typed, Nothing when it is processed
  statements,   \* Program: a map from line numbers to statements
  symbols,      \* EvalState: a map from names to values
  itr,          \* the line that run executes, NoLine when it does not run
  asking,       \* the variable that INPUT waits for, or "none"
  session       \* "open", "quit" or "crashed"

vars == <<line, statements, symbols, itr, asking, session>>

Nothing == [number |-> NoLine, stmt |-> [kind |-> "none"]]
Empty == [x \in {} |-> 0]

Init ==
  /\ line = Nothing /\ statements = Empty /\ symbols = Empty
  /\ itr = NoLine /\ asking = "none" /\ session = "open"

----------------------------------------------------------------------------
(* Expressions: eval yields a value, or the error that stands for the value.    *)

Value(v) == [err |-> "none", val |-> v]
Error(e) == [err |-> e, val |-> 0]
Put(f, x, v) == [y \in DOMAIN f \cup {x} |-> IF y = x THEN v ELSE f[y]]

\* Faulty: an int does not overflow.
WrapNot(n) == n
Wrap(n) == ((n + Half) % (2 * Half)) - Half

Abs(n) == IF n < 0 THEN -n ELSE n
Quotient(a, b) == (IF a < 0 <=> b < 0 THEN 1 ELSE -1) * (Abs(a) \div Abs(b))
\* A quotient that is no int traps.
Divided(a, b) ==
  IF b = 0 THEN Error("DIVIDE BY ZERO")
  ELSE IF Quotient(a, b) \in Int32 THEN Value(Quotient(a, b)) ELSE Error("trap")
Apply(op, a, b) ==
  CASE op = "+" -> Value(Wrap(a + b))
    [] op = "-" -> Value(Wrap(a - b))
    [] op = "*" -> Value(Wrap(a * b))
    [] op = "/" -> Divided(a, b)
\* What `left` and, behind it, `right` are evaluated to.
Both(op, left, right) ==
  IF left.err # "none" THEN left ELSE IF right.err # "none" THEN right
  ELSE Apply(op, left.val, right.val)

eval[e \in Expression] ==
  CASE e.op = "constant" -> Value(e.val)
    [] e.op = "identifier" ->
         IF e.name \in DOMAIN symbols THEN Value(symbols[e.name]) ELSE Error("VARIABLE NOT DEFINED")
    [] OTHER -> Both(e.op, eval[e.lhs], eval[e.rhs])

\* parseExp reads the whole text before any of it is evaluated.
parseExp(e) == IF e.op = "malformed" THEN Error("SYNTAX ERROR") ELSE eval[e]

----------------------------------------------------------------------------
(* The statements.                                                         *)

\* main reports an error and takes the next line; a trap ends the program.
After(err) == IF err = "trap" THEN "crashed" ELSE "open"

Result(s) == IF s.kind = "REM" THEN Value(0) ELSE parseExp(s.exp)
execute(s) ==
  /\ symbols' = IF s.kind = "LET" /\ Result(s).err = "none"
                THEN Put(symbols, s.var, Result(s).val) ELSE symbols
  /\ session' = After(Result(s).err)

Holds(op, a, b) == (op = ">" /\ a > b) \/ (op = "<" /\ a < b) \/ (op = "=" /\ a = b)

Remove(f, x) == [y \in DOMAIN f \ {x} |-> f[y]]

----------------------------------------------------------------------------
(* run: one action per statement.                                           *)

\* Faulty: finds the line itself.
NextLineLowerBound(n) ==
  IF \A k \in DOMAIN statements : k < n THEN NoLine
  ELSE CHOOSE k \in DOMAIN statements : k >= n /\ \A j \in DOMAIN statements : j < n \/ k <= j
NextLine(n) ==
  IF \A k \in DOMAIN statements : k <= n THEN NoLine
  ELSE CHOOSE k \in DOMAIN statements : k > n /\ \A j \in DOMAIN statements : j <= n \/ k <= j

Current == statements[itr]
Running == session = "open" /\ itr # NoLine /\ asking = "none"

Straight ==
  /\ Current.kind \in {"REM", "PRINT", "LET"}
  /\ execute(Current)
  /\ itr' = IF Result(Current).err = "none" THEN NextLine(itr) ELSE NoLine
  /\ UNCHANGED asking

Input == Current.kind = "INPUT" /\ asking' = Current.var /\ UNCHANGED <<symbols, itr, session>>

\* A missing line is an error to GOTO.
Goto ==
  /\ Current.kind = "GOTO"
  /\ itr' = IF Current.target \in DOMAIN statements THEN Current.target ELSE NoLine
  /\ UNCHANGED <<symbols, asking, session>>

\* The left side is parsed and evaluated before the right one is parsed.  A
\* missing line is none to IF, whose condition is evaluated again, for ever.
Branch(left, right) ==
  LET err == IF left.err # "none" THEN left.err ELSE right.err
  IN  /\ itr' = IF err # "none" THEN NoLine
                ELSE IF ~Holds(Current.op, left.val, right.val) THEN NextLine(itr)
                ELSE IF Current.target \in DOMAIN statements THEN Current.target ELSE itr
      /\ session' = After(err)
If ==
  /\ Current.kind = "IF"
  /\ Branch(parseExp(Current.lhs), parseExp(Current.rhs))
  /\ UNCHANGED <<symbols, asking>>

End == Current.kind = "END" /\ itr' = NoLine /\ UNCHANGED <<symbols, asking, session>>

RunStep == Running /\ (Straight \/ Input \/ Goto \/ If \/ End) /\ UNCHANGED <<line, statements>>

\* INPUT asks again until it gets a line that is nothing but a number.
Answer(v) ==
  /\ session = "open" /\ asking # "none"
  /\ symbols' = Put(symbols, asking, v)
  /\ asking' = "none"
  /\ itr' = IF itr = NoLine THEN NoLine ELSE NextLine(itr)
  /\ UNCHANGED <<line, statements, session>>

----------------------------------------------------------------------------
(* main and processLine.  A line without a number has the number NoLine.        *)

Idle == session = "open" /\ itr = NoLine /\ asking = "none"
Type(n, s) ==
  /\ Idle /\ line = Nothing
  /\ line' = [number |-> n, stmt |-> s]
  /\ UNCHANGED <<statements, symbols, itr, asking, session>>

Processes == Idle /\ line # Nothing /\ line' = Nothing
Stored(kind) == kind \notin {"nothing", "unknown", "malformed"}

\* Faulty: insert does not replace the line that is there.
EnterOnce(n, s) ==
  /\ Stored(s.kind)
  /\ statements' = IF n \in DOMAIN statements THEN statements ELSE Put(statements, n, s)
  /\ UNCHANGED session
Enter(n, s) ==
  /\ Stored(s.kind)
  /\ statements' = Put(statements, n, s)
  /\ UNCHANGED session
\* A word that is no statement is ignored, one that cannot be scanned refused.
Refuse(n, s) == s.kind \in {"unknown", "malformed"} /\ UNCHANGED <<statements, session>>
\* The loop goes on from the element that it has erased.
Erase(n, s) ==
  /\ s.kind = "nothing"
  /\ statements' = Remove(statements, n)
  /\ \/ UNCHANGED session
     \/ n \in DOMAIN statements /\ session' = "crashed"
addSourceLine ==
  /\ Processes /\ line.number # NoLine
  /\ \/ Enter(line.number, line.stmt)
     \/ Refuse(line.number, line.stmt)
     \/ Erase(line.number, line.stmt)
  /\ UNCHANGED <<symbols, itr, asking>>

Direct(kinds) == Processes /\ line.number = NoLine /\ line.stmt.kind \in kinds

DirectExecute ==
  /\ Direct({"PRINT", "LET"})
  /\ execute(line.stmt)
  /\ UNCHANGED <<statements, itr, asking>>
DirectInput ==
  /\ Direct({"INPUT"})
  /\ asking' = line.stmt.var
  /\ UNCHANGED <<statements, symbols, itr, session>>
DirectOther ==
  /\ Direct({"REM", "GOTO", "IF", "END", "nothing", "unknown", "malformed"})
  /\ UNCHANGED <<statements, symbols, itr, asking, session>>
run ==
  /\ Direct({"RUN"})
  /\ itr' = NextLine(NoLine)
  /\ UNCHANGED <<statements, symbols, asking, session>>
clear ==
  /\ Direct({"CLEAR"})
  /\ statements' = Empty /\ symbols' = Empty
  /\ UNCHANGED <<itr, asking, session>>
Quit ==
  /\ Direct({"QUIT"})
  /\ session' = "quit"
  /\ UNCHANGED <<statements, symbols, itr, asking>>

processLine == addSourceLine \/ DirectExecute \/ DirectInput \/ DirectOther \/ run \/ clear \/ Quit

----------------------------------------------------------------------------

Interpreter == RunStep \/ processLine
User ==
  \/ \E n \in LineNo, s \in Stmt : Type(n, s)
  \/ \E s \in Stmt \cup Command : Type(NoLine, s)
  \/ \E v \in Int32 : Answer(v)
Next == Interpreter \/ User

\* The interpreter goes on; the user need not.
Spec == Init /\ [][Next]_vars /\ WF_vars(Interpreter)
=============================================================================
