------------------------------ MODULE MCBasic ------------------------------
(***************************************************************************)
(* BasicProperties for TLC: every session, of any length, with these line      *)
(* numbers, two variables and these statements.                              *)
(***************************************************************************)
EXTENDS BasicProperties

Number(v) == [op |-> "constant", val |-> v]
Name(x) == [op |-> "identifier", name |-> x]
Two(a, op, b) == [op |-> op, lhs |-> a, rhs |-> b]
Malformed == [op |-> "malformed"]
If3(a, op, b, n) == [kind |-> "IF", lhs |-> a, op |-> op, rhs |-> b, target |-> n]

Statements == {
  [kind |-> "REM"], [kind |-> "END"], [kind |-> "nothing"], [kind |-> "unknown"],
  [kind |-> "malformed"], [kind |-> "INPUT", var |-> "x"], [kind |-> "GOTO", target |-> 20],
  [kind |-> "LET", var |-> "y", exp |-> Two(Two(Name("x"), "*", Name("x")), "-", Number(1))],
  [kind |-> "LET", var |-> "x", exp |-> Two(Name("x"), "-", Two(Number(1), "*", Name("y")))],
  [kind |-> "PRINT", exp |-> Two(Name("x"), "/", Name("y"))],
  If3(Name("x"), "<", Number(0), 20),
  If3(Two(Name("y"), "+", Number(1)), ">", Name("x"), 30),
  If3(Name("y"), "=", Malformed, 10) }
=============================================================================
