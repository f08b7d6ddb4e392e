---------------------------- MODULE BasicProofs ----------------------------
(***************************************************************************)
(* Proofs about the BASIC interpreter.                                      *)
(***************************************************************************)
EXTENDS BasicProperties, NatSets

----------------------------------------------------------------------------
(* Expressions, by their depth.                                             *)

\* One level more of expressions than s has.
Deeper(s) == s \cup CompoundExp(s)
Levels(n, f) == f = [k \in 0 .. n |-> IF k = 0 THEN Operand ELSE Deeper(f[k - 1])]

\* There are expressions of every depth.
LEMMA LevelsExist ==
  ASSUME NEW n \in Nat
  PROVE  \E f : Levels(n, f)
<1> DEFINE Bad == {k \in Nat : ~ \E f : Levels(k, f)}
<1> SUFFICES ASSUME Bad # {} PROVE FALSE
  OBVIOUS
<1>1. PICK k \in Bad : \A j \in Bad : k <= j
  <2>1. Bad \subseteq Nat
    OBVIOUS
  <2> QED
    BY <2>1, MinOfNats
<1>2. k \in Nat /\ ~ \E f : Levels(k, f)
  OBVIOUS
<1>3. \A j \in Nat : j \notin Bad => \E f : Levels(j, f)
  OBVIOUS
<1> HIDE DEF Bad
<1>4. k # 0
  <2> DEFINE g == [j \in 0 .. 0 |-> Operand]
  <2>1. g = [j \in 0 .. 0 |-> IF j = 0 THEN Operand ELSE Deeper(g[j - 1])]
    OBVIOUS
  <2>2. Levels(0, g)
    BY <2>1 DEF Levels
  <2> QED
    BY <1>2, <2>2
<1>5. k - 1 \in Nat /\ k - 1 \notin Bad
  BY <1>1, <1>2, <1>4
<1>6. PICK f : Levels(k - 1, f)
  BY <1>3, <1>5
<1> DEFINE g == [j \in 0 .. k |-> IF j = k THEN Deeper(f[k - 1]) ELSE f[j]]
<1>7. ASSUME NEW j \in 0 .. k
      PROVE  g[j] = IF j = 0 THEN Operand ELSE Deeper(g[j - 1])
  <2>1. CASE j = k
    <3>1. g[j] = Deeper(f[k - 1]) /\ k - 1 \in 0 .. k /\ k - 1 # k /\ j # 0
      BY <2>1, <1>2, <1>4
    <3>2. g[k - 1] = f[k - 1]
      BY <3>1
    <3> QED
      BY <3>1, <3>2, <2>1
  <2>2. CASE j # k
    <3>1. j \in 0 .. (k - 1)
      BY <2>2, <1>2
    <3>2. f[j] = IF j = 0 THEN Operand ELSE Deeper(f[j - 1])
      BY <3>1, <1>6 DEF Levels
    <3>3. j # 0 => j - 1 \in 0 .. k /\ j - 1 # k
      BY <3>1, <1>2
    <3>4. g[j] = f[j] /\ (j # 0 => g[j - 1] = f[j - 1])
      BY <2>2, <3>3
    <3> QED
      BY <3>2, <3>4
  <2> QED
    BY <2>1, <2>2
<1>8. Levels(k, g)
  <2>1. g = [j \in 0 .. k |-> g[j]]
    OBVIOUS
  <2> HIDE DEF g
  <2>2. g = [j \in 0 .. k |-> IF j = 0 THEN Operand ELSE Deeper(g[j - 1])]
    BY <2>1, <1>7
  <2> QED
    BY <2>2 DEF Levels
<1> QED
  BY <1>2, <1>8

\* The levels of expressions are as Nested defines them.
LEMMA NestedLevels == Levels(Depth, Nested)
<1>1. Nested = CHOOSE f : f = [n \in 0 .. Depth |-> IF n = 0 THEN Operand
                                                     ELSE f[n - 1] \cup CompoundExp(f[n - 1])]
  BY DEF Nested
<1>2. Nested = CHOOSE f : Levels(Depth, f)
  BY <1>1 DEF Levels, Deeper
<1>3. \E f : Levels(Depth, f)
  BY LevelsExist, StmtAssumption
<1> QED
  BY <1>2, <1>3, Zenon

\* What is an operand, and what is not, at every level.
LEMMA NestedEquation ==
  ASSUME NEW n \in 0 .. Depth
  PROVE  Nested[n] = IF n = 0 THEN Operand ELSE Nested[n - 1] \cup CompoundExp(Nested[n - 1])
BY NestedLevels DEF Levels, Deeper

IsOperand(e) == e.op \in {"constant", "identifier"}

\* An expression is an operand, or its two sides are expressions of a level
\* below; levels grow.
LEMMA NestedParts ==
  ASSUME NEW n \in 0 .. Depth
  PROVE  /\ n > 0 => Nested[n - 1] \subseteq Nested[n]
         /\ \A e \in Nested[n] :
              \/ e \in Operand
              \/ n > 0 /\ e \in CompoundExp(Nested[n - 1])
<1> DEFINE Shaped(k) == \A e \in Nested[k] : e \in Operand \/ (k > 0 /\ e \in CompoundExp(Nested[k - 1]))
<1> DEFINE Bad == {k \in 0 .. Depth : ~Shaped(k)}
<1>1. ASSUME NEW k \in 1 .. Depth
      PROVE  Nested[k] = Nested[k - 1] \cup CompoundExp(Nested[k - 1])
  <2>1. k \in 0 .. Depth /\ k # 0
    BY StmtAssumption
  <2> QED
    BY <2>1, NestedEquation
<1>2. ASSUME Bad # {} PROVE FALSE
  <2>1. PICK k \in Bad : \A j \in Bad : k <= j
    <3>1. Bad \subseteq Nat
      BY StmtAssumption
    <3> QED
      BY <3>1, <1>2, MinOfNats
  <2>2. k \in 0 .. Depth /\ ~Shaped(k)
    OBVIOUS
  <2>3. \A j \in 0 .. Depth : j \notin Bad => Shaped(j)
    OBVIOUS
  <2>4. Shaped(0)
    <3>1. Nested[0] = Operand
      <4>1. 0 \in 0 .. Depth
        BY StmtAssumption
      <4> QED
        BY <4>1, NestedEquation
    <3> QED
      BY <3>1
  <2> HIDE DEF Bad
  <2>5. k \in 1 .. Depth /\ k - 1 \in 0 .. Depth /\ k - 1 \notin Bad
    <3>1. k # 0
      BY <2>2, <2>4
    <3>2. k \in 1 .. Depth /\ k - 1 \in 0 .. Depth /\ ~(k <= k - 1)
      BY <3>1, <2>2, StmtAssumption
    <3> QED
      BY <3>2, <2>1
  <2>6. Shaped(k - 1)
    BY <2>3, <2>5
  <2>7. k - 1 > 0 => CompoundExp(Nested[k - 2]) \subseteq CompoundExp(Nested[k - 1])
    <3> SUFFICES ASSUME k - 1 > 0 PROVE CompoundExp(Nested[k - 2]) \subseteq CompoundExp(Nested[k - 1])
      OBVIOUS
    <3>1. k - 1 \in 1 .. Depth /\ (k - 1) - 1 = k - 2
      BY <2>5, StmtAssumption
    <3>2. Nested[k - 2] \subseteq Nested[k - 1]
      BY <3>1, <1>1
    <3> QED
      BY <3>2 DEF CompoundExp
  <2>8. (k - 1) - 1 = k - 2 /\ k > 0
    BY <2>5, StmtAssumption
  <2>9. Shaped(k)
    <3> SUFFICES ASSUME NEW e \in Nested[k] PROVE e \in Operand \/ e \in CompoundExp(Nested[k - 1])
      BY <2>8
    <3>1. e \in Nested[k - 1] \/ e \in CompoundExp(Nested[k - 1])
      BY <1>1, <2>5
    <3>2. e \in Nested[k - 1] => e \in Operand \/ (k - 1 > 0 /\ e \in CompoundExp(Nested[k - 2]))
      BY <2>6, <2>8
    <3> QED
      BY <3>1, <3>2, <2>7
  <2> QED
    BY <2>2, <2>9
<1>3. Shaped(n)
  BY <1>2
<1>4. n > 0 => n \in 1 .. Depth
  BY StmtAssumption
<1> QED
  BY <1>1, <1>3, <1>4

----------------------------------------------------------------------------
(* eval.                                                                   *)

\* What eval does with an expression, when f is what it does with its parts.
Evaluated(f, e) ==
  CASE e.op = "constant" -> Value(e.val)
    [] e.op = "identifier" ->
         IF e.name \in DOMAIN symbols THEN Value(symbols[e.name]) ELSE Error("VARIABLE NOT DEFINED")
    [] OTHER -> Both(e.op, f[e.lhs], f[e.rhs])
EvaluatesTo(n, f) == f = [e \in Nested[n] |-> Evaluated(f, e)]

\* Parts that are evaluated alike make expressions that are evaluated alike.
LEMMA EvaluatedAlike ==
  ASSUME NEW f, NEW g, NEW e, NEW X,
         e \in Operand \/ (e \in CompoundExp(X) /\ \A p \in X : f[p] = g[p])
  PROVE  Evaluated(f, e) = Evaluated(g, e)
<1>1. CASE e \in Operand
  BY <1>1 DEF Operand, Evaluated
<1>2. CASE e \in CompoundExp(X) /\ \A p \in X : f[p] = g[p]
  <2>1. f[e.lhs] = g[e.lhs] /\ f[e.rhs] = g[e.rhs]
    BY <1>2 DEF CompoundExp
  <2> QED
    BY <2>1 DEF Evaluated
<1> QED
  BY <1>1, <1>2

\* Expressions of every depth can be evaluated.
LEMMA EvaluationExists ==
  ASSUME NEW n \in 0 .. Depth
  PROVE  \E f : EvaluatesTo(n, f)
<1> DEFINE Bad == {k \in 0 .. Depth : ~ \E f : EvaluatesTo(k, f)}
<1> SUFFICES ASSUME Bad # {} PROVE FALSE
  OBVIOUS
<1>1. PICK k \in Bad : \A j \in Bad : k <= j
  <2>1. Bad \subseteq Nat
    BY StmtAssumption
  <2> QED
    BY <2>1, MinOfNats
<1>2. k \in 0 .. Depth /\ ~ \E f : EvaluatesTo(k, f)
  OBVIOUS
<1>3. \A j \in 0 .. Depth : j \notin Bad => \E f : EvaluatesTo(j, f)
  OBVIOUS
<1> HIDE DEF Bad
<1>4. ASSUME NEW f, NEW X, X \subseteq Nested[k],
             \A e \in Nested[k] : e \in Operand \/ e \in CompoundExp(X),
             \A e \in X : f[e] = Evaluated(f, e)
      PROVE  FALSE
  <2> DEFINE g == [e \in Nested[k] |-> Evaluated(f, e)]
  <2>1. \A e \in X : g[e] = f[e]
    BY <1>4
  <2>2. ASSUME NEW e \in Nested[k] PROVE g[e] = Evaluated(g, e)
    <3>1. g[e] = Evaluated(f, e)
      OBVIOUS
    <3> HIDE DEF g
    <3>2. e \in Operand \/ (e \in CompoundExp(X) /\ \A p \in X : f[p] = g[p])
      BY <1>4, <2>1
    <3>3. Evaluated(f, e) = Evaluated(g, e)
      BY <3>2, EvaluatedAlike
    <3> QED
      BY <3>1, <3>3
  <2>3. g = [e \in Nested[k] |-> g[e]]
    OBVIOUS
  <2> HIDE DEF g
  <2>4. g = [e \in Nested[k] |-> Evaluated(g, e)]
    BY <2>2, <2>3
  <2> QED
    BY <1>2, <2>4 DEF EvaluatesTo
<1>5. CASE k = 0
  <2>1. \A e \in Nested[k] : e \in Operand
    BY <1>2, <1>5, NestedParts
  <2>2. {} \subseteq Nested[k] /\ \A e \in {} : Empty[e] = Evaluated(Empty, e)
    OBVIOUS
  <2>3. \A e \in Nested[k] : e \in Operand \/ e \in CompoundExp({})
    BY <2>1
  <2> QED
    BY <1>4, <2>2, <2>3
<1>6. CASE k # 0
  <2>1. k - 1 \in 0 .. Depth /\ k - 1 \notin Bad /\ k > 0
    <3>1. k - 1 \in 0 .. Depth /\ ~(k <= k - 1) /\ k > 0
      BY <1>2, <1>6, StmtAssumption
    <3> QED
      BY <3>1, <1>1
  <2>2. PICK f : EvaluatesTo(k - 1, f)
    BY <1>3, <2>1
  <2>3. \A e \in Nested[k - 1] : f[e] = Evaluated(f, e)
    BY <2>2 DEF EvaluatesTo
  <2>4. /\ Nested[k - 1] \subseteq Nested[k]
        /\ \A e \in Nested[k] : e \in Operand \/ e \in CompoundExp(Nested[k - 1])
    BY <1>2, <2>1, NestedParts
  <2> QED
    BY <1>4, <2>3, <2>4
<1> QED
  BY <1>5, <1>6

\* eval does what its cases say.
LEMMA EvalEquation ==
  ASSUME NEW e \in Expression
  PROVE  eval[e] = Evaluated(eval, e)
<1>1. eval = CHOOSE f : EvaluatesTo(Depth, f)
  BY DEF eval, EvaluatesTo, Evaluated, Expression
<1>2. \E f : EvaluatesTo(Depth, f)
  <2>1. Depth \in 0 .. Depth
    BY StmtAssumption
  <2> QED
    BY <2>1, EvaluationExists
<1>3. EvaluatesTo(Depth, eval)
  BY <1>1, <1>2, Zenon
<1> QED
  BY <1>3 DEF EvaluatesTo, Expression

----------------------------------------------------------------------------
(* What eval yields.                                                        *)

Outcome ==
  [err : {"none", "SYNTAX ERROR", "VARIABLE NOT DEFINED", "DIVIDE BY ZERO", "trap"}, val : Int32]
SymbolsOK == DOMAIN symbols \subseteq Var /\ \A x \in DOMAIN symbols : symbols[x] \in Int32

\* The result of an addition, a subtraction or a multiplication is an int.
LEMMA WrapInt32 ==
  ASSUME NEW n \in Int
  PROVE  Wrap(n) \in Int32
<1> DEFINE q == 2 * Half
<1>1. q \in Nat \ {0} /\ n + Half \in Int /\ Half \in Nat \ {0}
  BY BasicAssumption
<1>2. (n + Half) % q \in 0 .. q - 1
  <2> HIDE DEF q
  <2> QED
    BY <1>1
<1> QED
  BY <1>1, <1>2 DEF Wrap, Int32

\* An operator makes of ints an int or an error.
LEMMA ApplyOutcome ==
  ASSUME NEW op \in {"+", "-", "*", "/"}, NEW a \in Int32, NEW b \in Int32
  PROVE  Apply(op, a, b) \in Outcome
<1>1. a \in Int /\ b \in Int /\ 0 \in Int32
  BY BasicAssumption DEF Int32
<1>2. a + b \in Int /\ a - b \in Int /\ a * b \in Int
  BY <1>1
<1>3. Wrap(a + b) \in Int32 /\ Wrap(a - b) \in Int32 /\ Wrap(a * b) \in Int32
  BY <1>2, WrapInt32
<1>4. Divided(a, b) \in Outcome
  BY <1>1 DEF Divided, Outcome, Value, Error
<1>5. \A v \in Int32 : Value(v) \in Outcome
  BY DEF Value, Outcome
<1> QED
  BY <1>3, <1>4, <1>5 DEF Apply

\* The values of a program's variables being ints, every expression yields an
\* int or an error.
LEMMA EvalOutcome ==
  ASSUME SymbolsOK, NEW e \in Expression
  PROVE  eval[e] \in Outcome
<1> DEFINE Good(k) == \A x \in Nested[k] : eval[x] \in Outcome
<1> DEFINE Bad == {k \in 0 .. Depth : ~Good(k)}
<1>1. ASSUME NEW k \in 0 .. Depth PROVE Nested[k] \subseteq Expression
  <2> DEFINE Lost == {j \in 0 .. Depth : ~(Nested[Depth - j] \subseteq Expression)}
  <2>1. CASE Lost = {}
    <3>1. Depth - k \in 0 .. Depth /\ Depth - (Depth - k) = k
      BY StmtAssumption
    <3> QED
      BY <3>1, <2>1
  <2>2. CASE Lost # {}
    <3>1. PICK j \in Lost : \A i \in Lost : j <= i
      <4>1. Lost \subseteq Nat
        BY StmtAssumption
      <4> QED
        BY <4>1, <2>2, MinOfNats
    <3>2. j \in 0 .. Depth /\ ~(Nested[Depth - j] \subseteq Expression)
      OBVIOUS
    <3>3. j # 0
      <4>1. Depth - 0 = Depth
        BY StmtAssumption
      <4> QED
        BY <3>2, <4>1 DEF Expression
    <3>4. j - 1 \in 0 .. Depth /\ ~(j <= j - 1) /\ Depth - (j - 1) \in 0 .. Depth
          /\ Depth - (j - 1) > 0 /\ (Depth - (j - 1)) - 1 = Depth - j
      BY <3>2, <3>3, StmtAssumption
    <3>5. Nested[Depth - (j - 1)] \subseteq Expression
      BY <3>1, <3>4
    <3>6. Nested[(Depth - (j - 1)) - 1] \subseteq Nested[Depth - (j - 1)]
      BY <3>4, NestedParts
    <3> QED
      BY <3>2, <3>4, <3>5, <3>6
  <2> QED
    BY <2>1, <2>2
<1>2. ASSUME Bad # {} PROVE FALSE
  <2>1. PICK k \in Bad : \A j \in Bad : k <= j
    <3>1. Bad \subseteq Nat
      BY StmtAssumption
    <3> QED
      BY <3>1, <1>2, MinOfNats
  <2>2. k \in 0 .. Depth /\ ~Good(k)
    OBVIOUS
  <2>3. \A j \in 0 .. Depth : j \notin Bad => Good(j)
    OBVIOUS
  <2> HIDE DEF Bad
  <2>4. PICK x \in Nested[k] : eval[x] \notin Outcome
    BY <2>2
  <2>5. x \in Expression /\ eval[x] = Evaluated(eval, x)
    BY <2>2, <1>1, EvalEquation
  <2>6. CASE x \in Operand
    <3>1. 0 \in Int32 /\ 0 .. Half - 1 \subseteq Int32
      BY BasicAssumption DEF Int32
    <3>2. Evaluated(eval, x) \in Outcome
      <4>1. CASE x.op = "constant"
        <5>1. x.val \in Int32
          BY <4>1, <2>6, <3>1 DEF Operand
        <5> QED
          BY <4>1, <5>1 DEF Evaluated, Outcome, Value
      <4>2. CASE x.op = "identifier"
        <5>1. x.name \in DOMAIN symbols => symbols[x.name] \in Int32
          BY DEF SymbolsOK
        <5> QED
          BY <4>2, <5>1, <3>1 DEF Evaluated, Outcome, Value, Error
      <4> QED
        BY <2>6, <4>1, <4>2 DEF Operand
    <3> QED
      BY <2>4, <2>5, <3>2
  <2>7. CASE k > 0 /\ x \in CompoundExp(Nested[k - 1])
    <3>1. k - 1 \in 0 .. Depth /\ k - 1 \notin Bad
      <4>1. k - 1 \in 0 .. Depth /\ ~(k <= k - 1)
        BY <2>2, <2>7, StmtAssumption
      <4> QED
        BY <2>1, <4>1
    <3>2. x.op \in {"+", "-", "*", "/"} /\ x.lhs \in Nested[k - 1] /\ x.rhs \in Nested[k - 1]
      BY <2>7 DEF CompoundExp
    <3>3. eval[x.lhs] \in Outcome /\ eval[x.rhs] \in Outcome
      BY <3>1, <3>2, <2>3
    <3>4. Evaluated(eval, x) = Both(x.op, eval[x.lhs], eval[x.rhs])
      BY <3>2 DEF Evaluated
    <3>5. eval[x.lhs].val \in Int32 /\ eval[x.rhs].val \in Int32
      BY <3>3 DEF Outcome
    <3>6. Apply(x.op, eval[x.lhs].val, eval[x.rhs].val) \in Outcome
      BY <3>2, <3>5, ApplyOutcome
    <3>7. Both(x.op, eval[x.lhs], eval[x.rhs]) \in Outcome
      BY <3>3, <3>6 DEF Both
    <3> QED
      BY <2>4, <2>5, <3>4, <3>7
  <2> QED
    BY <2>2, <2>4, <2>6, <2>7, NestedParts
<1>3. Depth \in 0 .. Depth
  BY StmtAssumption
<1>4. Good(Depth)
  BY <1>2, <1>3
<1> QED
  BY <1>4 DEF Expression

\* What is read as an expression yields an int or an error.
LEMMA ParseOutcome ==
  ASSUME SymbolsOK, NEW e \in Text
  PROVE  parseExp(e) \in Outcome
<1>1. CASE e.op = "malformed"
  <2>1. 0 \in Int32
    BY BasicAssumption DEF Int32
  <2> QED
    BY <1>1, <2>1 DEF parseExp, Error, Outcome
<1>2. CASE e.op # "malformed"
  <2>1. e \in Expression
    BY <1>2 DEF Text
  <2> QED
    BY <1>2, <2>1, EvalOutcome DEF parseExp
<1> QED
  BY <1>1, <1>2

----------------------------------------------------------------------------
(* The type invariant.  Beyond TypeOK, the line that waits and those that are   *)
(* stored are statements.                                                    *)

LineOK ==
  \/ line = Nothing
  \/ line \in [number : LineNo, stmt : Stmt]
  \/ line \in [number : {NoLine}, stmt : Stmt \cup Command]
StatementsOK ==
  /\ DOMAIN statements \subseteq LineNo
  /\ \A n \in DOMAIN statements : statements[n] \in Stmt /\ Stored(statements[n].kind)
BasicInv ==
  /\ LineOK /\ StatementsOK /\ SymbolsOK
  /\ itr \in DOMAIN statements \cup {NoLine}
  /\ asking \in Var \cup {"none"}
  /\ session \in {"open", "quit", "crashed"}

\* The parts of a statement.
LEMMA StatementParts ==
  ASSUME NEW s \in Stmt
  PROVE  /\ s.kind \in {"PRINT", "LET"} => s.exp \in Text
         /\ s.kind \in {"LET", "INPUT"} => s.var \in Var
         /\ s.kind = "IF" => s.lhs \in Text /\ s.rhs \in Text
         /\ s.kind \notin {"RUN", "CLEAR", "QUIT"}
<1>1. s \in Statement
  BY StmtAssumption
<1>2. CASE s \in [kind : {"REM", "END", "nothing", "unknown", "malformed"}]
  BY <1>2
<1>3. CASE s \in [kind : {"PRINT"}, exp : Text]
  BY <1>3
<1>4. CASE s \in [kind : {"LET"}, var : Var, exp : Text]
  BY <1>4
<1>5. CASE s \in [kind : {"INPUT"}, var : Var]
  BY <1>5
<1>6. CASE s \in [kind : {"GOTO"}, target : Nat]
  BY <1>6
<1>7. CASE s \in [kind : {"IF"}, lhs : Text, op : {"<", ">", "="}, rhs : Text, target : Nat]
  BY <1>7
<1> QED
  BY <1>1, <1>2, <1>3, <1>4, <1>5, <1>6, <1>7 DEF Statement

\* run goes on to a line that exists, or ends.
LEMMA NextLineExists ==
  ASSUME StatementsOK, NEW n \in Int
  PROVE  NextLine(n) \in DOMAIN statements \cup {NoLine}
<1>1. CASE \A k \in DOMAIN statements : k <= n
  BY <1>1 DEF NextLine
<1>2. CASE ~ \A k \in DOMAIN statements : k <= n
  <2> DEFINE S == {k \in DOMAIN statements : k > n}
  <2>1. DOMAIN statements \subseteq Nat
    BY BasicAssumption DEF StatementsOK
  <2>2. S \subseteq Nat /\ S # {}
    BY <1>2, <2>1
  <2>3. PICK k \in S : \A j \in S : k <= j
    BY <2>2, MinOfNats
  <2>4. k \in DOMAIN statements /\ k > n /\ \A j \in DOMAIN statements : j <= n \/ k <= j
    BY <2>1, <2>3
  <2>5. NextLine(n) \in DOMAIN statements
    BY <1>2, <2>4 DEF NextLine
  <2> QED
    BY <2>5
<1> QED
  BY <1>1, <1>2

\* A variable that is set to an int leaves the variables ints.
LEMMA PutSymbols ==
  ASSUME SymbolsOK, NEW x \in Var, NEW v \in Int32, symbols' = Put(symbols, x, v)
  PROVE  SymbolsOK'
BY DEF SymbolsOK, Put

\* Executing a statement leaves the variables ints.
LEMMA ExecuteSymbols ==
  ASSUME SymbolsOK, NEW s \in Stmt, s.kind \in {"REM", "PRINT", "LET"}, execute(s)
  PROVE  SymbolsOK' /\ session' \in {"open", "crashed"}
<1>1. session' \in {"open", "crashed"}
  BY DEF execute, After
<1>2. CASE s.kind = "LET" /\ Result(s).err = "none"
  <2>1. Result(s) \in Outcome /\ s.var \in Var
    BY <1>2, StatementParts, ParseOutcome DEF Result
  <2>2. Result(s).val \in Int32
    BY <2>1 DEF Outcome
  <2>3. symbols' = Put(symbols, s.var, Result(s).val)
    BY <1>2 DEF execute
  <2> QED
    BY <1>1, <2>1, <2>2, <2>3, PutSymbols
<1>3. CASE ~(s.kind = "LET" /\ Result(s).err = "none")
  <2>1. symbols' = symbols
    BY <1>3 DEF execute
  <2> QED
    BY <1>1, <2>1 DEF SymbolsOK
<1> QED
  BY <1>2, <1>3

\* The invariant holds at the start.
LEMMA BasicInit == Init => BasicInv
BY DEF Init, BasicInv, LineOK, StatementsOK, SymbolsOK, Empty

\* A statement of a run keeps it.
LEMMA BasicRun ==
  ASSUME BasicInv, RunStep
  PROVE  BasicInv'
<1>1. itr \in DOMAIN statements /\ Current \in Stmt /\ line' = line /\ statements' = statements
  BY DEF BasicInv, RunStep, Running, Current, StatementsOK
<1>2. LineOK' /\ StatementsOK'
  BY <1>1 DEF BasicInv, LineOK, StatementsOK
<1>3. NextLine(itr) \in DOMAIN statements \cup {NoLine}
  <2>1. itr \in LineNo
    BY <1>1 DEF BasicInv, StatementsOK
  <2>2. itr \in Int
    BY <2>1, BasicAssumption
  <2> QED
    BY <2>2, NextLineExists DEF BasicInv
<1>4. CASE Straight
  <2>1. SymbolsOK' /\ session' \in {"open", "crashed"}
    BY <1>1, <1>4, ExecuteSymbols DEF Straight, BasicInv
  <2>2. itr' \in DOMAIN statements' \cup {NoLine} /\ asking' = asking
    BY <1>1, <1>3, <1>4 DEF Straight
  <2> QED
    BY <1>2, <2>1, <2>2 DEF BasicInv
<1>5. CASE Input
  <2>1. Current.var \in Var
    BY <1>1, <1>5, StatementParts DEF Input
  <2> QED
    BY <1>1, <1>2, <1>5, <2>1 DEF Input, BasicInv, SymbolsOK
<1>6. CASE Goto
  BY <1>1, <1>2, <1>6 DEF Goto, BasicInv, SymbolsOK
<1>7. CASE If
  <2>1. itr' \in DOMAIN statements' \cup {NoLine} /\ session' \in {"open", "crashed"}
    BY <1>1, <1>3, <1>7 DEF If, Branch, After
  <2> QED
    BY <1>2, <1>7, <2>1 DEF If, BasicInv, SymbolsOK
<1>8. CASE End
  BY <1>1, <1>2, <1>8 DEF End, BasicInv, SymbolsOK
<1> QED
  BY <1>4, <1>5, <1>6, <1>7, <1>8 DEF RunStep

\* A line with a number keeps it.
LEMMA BasicSource ==
  ASSUME BasicInv, addSourceLine
  PROVE  BasicInv'
<1>1. /\ itr = NoLine /\ line' = Nothing /\ itr' = itr /\ asking' = asking /\ symbols' = symbols
      /\ line.number \in LineNo /\ line.stmt \in Stmt
  BY DEF BasicInv, addSourceLine, Processes, Idle, LineOK
<1>2. LineOK' /\ SymbolsOK'
  BY <1>1 DEF BasicInv, LineOK, SymbolsOK
<1>3. StatementsOK' /\ session' \in {session, "crashed"}
  <2>1. CASE Enter(line.number, line.stmt)
    BY <1>1, <2>1 DEF Enter, Put, BasicInv, StatementsOK
  <2>2. CASE Refuse(line.number, line.stmt)
    BY <2>2 DEF Refuse, BasicInv, StatementsOK
  <2>3. CASE Erase(line.number, line.stmt)
    <3>1. statements' = Remove(statements, line.number) /\ session' \in {session, "crashed"}
      BY <2>3 DEF Erase
    <3> QED
      BY <3>1 DEF Remove, BasicInv, StatementsOK
  <2> QED
    BY <2>1, <2>2, <2>3 DEF addSourceLine
<1> QED
  BY <1>1, <1>2, <1>3 DEF BasicInv

\* A line without a number keeps it.
LEMMA BasicDirect ==
  ASSUME BasicInv, DirectExecute \/ DirectInput \/ DirectOther \/ run \/ clear \/ Quit
  PROVE  BasicInv'
<1>1. itr = NoLine /\ line' = Nothing
  BY DEF DirectExecute, DirectInput, DirectOther, run, clear, Quit, Direct, Processes, Idle
<1>2. LineOK'
  BY <1>1 DEF LineOK
<1>3. line.stmt.kind \in {"PRINT", "LET", "INPUT"} => line.stmt \in Stmt
  <2>1. \A s \in Command : s.kind \notin {"PRINT", "LET", "INPUT"}
    BY DEF Command
  <2>2. Nothing.stmt.kind \notin {"PRINT", "LET", "INPUT"}
    BY DEF Nothing
  <2> QED
    BY <2>1, <2>2 DEF BasicInv, LineOK
<1>4. CASE DirectExecute
  <2>1. line.stmt \in Stmt /\ line.stmt.kind \in {"REM", "PRINT", "LET"}
    BY <1>3, <1>4 DEF DirectExecute, Direct
  <2>2. SymbolsOK' /\ session' \in {"open", "crashed"}
    BY <1>4, <2>1, ExecuteSymbols DEF DirectExecute, BasicInv
  <2> QED
    BY <1>1, <1>2, <1>4, <2>2 DEF DirectExecute, BasicInv, StatementsOK
<1>5. CASE DirectInput
  <2>1. line.stmt.var \in Var
    BY <1>3, <1>5, StatementParts DEF DirectInput, Direct
  <2> QED
    BY <1>1, <1>2, <1>5, <2>1 DEF DirectInput, BasicInv, StatementsOK, SymbolsOK
<1>6. CASE DirectOther
  BY <1>1, <1>2, <1>6 DEF DirectOther, BasicInv, StatementsOK, SymbolsOK
<1>7. CASE run
  <2>1. NextLine(NoLine) \in DOMAIN statements \cup {NoLine}
    BY NextLineExists DEF BasicInv, NoLine
  <2> QED
    BY <1>1, <1>2, <1>7, <2>1 DEF run, BasicInv, StatementsOK, SymbolsOK
<1>8. CASE clear
  BY <1>1, <1>2, <1>8 DEF clear, Empty, BasicInv, StatementsOK, SymbolsOK
<1>9. CASE Quit
  BY <1>1, <1>2, <1>9 DEF Quit, BasicInv, StatementsOK, SymbolsOK
<1> QED
  BY <1>4, <1>5, <1>6, <1>7, <1>8, <1>9

\* What the user does keeps it.
LEMMA BasicUser ==
  ASSUME BasicInv, User
  PROVE  BasicInv'
<1>1. ASSUME NEW n, NEW s, Type(n, s),
             (n \in LineNo /\ s \in Stmt) \/ (n = NoLine /\ s \in Stmt \cup Command)
      PROVE  BasicInv'
  <2>1. LineOK'
    BY <1>1 DEF Type, LineOK
  <2> QED
    BY <1>1, <2>1 DEF Type, BasicInv, StatementsOK, SymbolsOK
<1>2. ASSUME NEW v \in Int32, Answer(v) PROVE BasicInv'
  <2>1. asking \in Var
    BY <1>2 DEF Answer, BasicInv
  <2>2. SymbolsOK'
    BY <1>2, <2>1, PutSymbols DEF Answer, BasicInv
  <2>3. itr' \in DOMAIN statements \cup {NoLine}
    <3>1. itr \in LineNo \cup {NoLine}
      BY DEF BasicInv, StatementsOK
    <3>2. itr \in Int
      BY <3>1, BasicAssumption DEF NoLine
    <3>3. NextLine(itr) \in DOMAIN statements \cup {NoLine}
      BY <3>2, NextLineExists DEF BasicInv
    <3> QED
      BY <1>2, <3>3 DEF Answer
  <2> QED
    BY <1>2, <2>2, <2>3 DEF Answer, BasicInv, LineOK, StatementsOK
<1> QED
  BY <1>1, <1>2 DEF User

\* Every step keeps it.
LEMMA BasicStep == BasicInv /\ [Next]_vars => BasicInv'
<1> SUFFICES ASSUME BasicInv, [Next]_vars PROVE BasicInv'
  OBVIOUS
<1>1. CASE UNCHANGED vars
  BY <1>1 DEF vars, BasicInv, LineOK, StatementsOK, SymbolsOK
<1>2. CASE Next
  BY <1>2, BasicRun, BasicSource, BasicDirect, BasicUser DEF Next, Interpreter, processLine
<1> QED
  BY <1>1, <1>2

\* In every session, of any length, the values of variables are ints and run
\* stands on a line that exists.
THEOREM BasicTypeCorrect == Spec => []TypeOK
<1>1. BasicInv => TypeOK
  <2> SUFFICES ASSUME BasicInv PROVE TypeOK
    OBVIOUS
  <2>1. line.number \in LineNo \cup {NoLine}
    BY DEF BasicInv, LineOK, Nothing
  <2> QED
    BY <2>1 DEF BasicInv, TypeOK, StatementsOK, SymbolsOK
<1> QED
  BY <1>1, BasicInit, BasicStep, PTL DEF Spec

----------------------------------------------------------------------------
(* Lines.                                                                   *)

\* Only a line that is processed, with its own number or CLEAR, touches a line.
LEMMA LineKeptStep ==
  ASSUME BasicInv, [Next]_vars, NEW n \in LineNo
  PROVE  LineKept(n)
<1>1. n # NoLine
  BY BasicAssumption DEF NoLine
<1>2. CASE statements' = statements /\ ~Processed
  BY <1>2 DEF LineKept, Same
<1>3. CASE addSourceLine
  <2>1. line.stmt \in Stmt /\ Processed
    BY <1>3 DEF BasicInv, LineOK, addSourceLine, Processes, Processed
  <2>2. line.stmt.kind # "CLEAR"
    BY <2>1, StatementParts
  <2>3. CASE Enter(line.number, line.stmt)
    BY <2>1, <2>2, <2>3 DEF Enter, Put, Stored, LineKept, Same
  <2>4. CASE Refuse(line.number, line.stmt)
    BY <2>1, <2>2, <2>4 DEF Refuse, Stored, LineKept, Same
  <2>5. CASE Erase(line.number, line.stmt)
    <3>1. statements' = Remove(statements, line.number) /\ line.stmt.kind = "nothing"
      BY <2>5 DEF Erase
    <3>2. line.number = n => n \notin DOMAIN statements'
      BY <3>1 DEF Remove
    <3>3. line.number # n => Same(n)
      BY <3>1 DEF Remove, Same
    <3>4. ~Stored(line.stmt.kind)
      BY <3>1 DEF Stored
    <3> QED
      BY <2>1, <2>2, <3>1, <3>2, <3>3, <3>4 DEF LineKept
  <2> QED
    BY <1>3, <2>3, <2>4, <2>5 DEF addSourceLine
<1>4. CASE clear
  <2>1. Processed /\ line.stmt.kind = "CLEAR" /\ statements' = Empty
    BY <1>4 DEF clear, Direct, Processes, Processed
  <2> QED
    BY <2>1 DEF LineKept, Empty
<1>5. CASE DirectExecute \/ DirectInput \/ DirectOther \/ run \/ Quit
  <2>1. line.number = NoLine /\ line.stmt.kind # "CLEAR" /\ statements' = statements
    BY <1>5 DEF DirectExecute, DirectInput, DirectOther, run, Quit, Direct
  <2> QED
    BY <1>1, <2>1 DEF LineKept, Same
<1>6. CASE RunStep \/ User \/ UNCHANGED vars
  <2>1. CASE RunStep
    BY <1>2, <2>1 DEF RunStep, Processed
  <2>2. CASE User
    BY <1>2, <2>2 DEF User, Type, Answer, Processed
  <2>3. CASE UNCHANGED vars
    BY <1>2, <2>3 DEF vars, Processed
  <2> QED
    BY <1>6, <2>1, <2>2, <2>3
<1> QED
  BY <1>3, <1>4, <1>5, <1>6 DEF Next, Interpreter, processLine

\* In every session, every line of the program is the last good one that was
\* typed under its number since it was emptied or all were cleared.
THEOREM LinesCorrect == Spec => LinesKept
<1>1. BasicInv /\ [Next]_vars => [\A n \in LineNo : LineKept(n)]_vars
  BY LineKeptStep
<1> QED
  BY <1>1, BasicInit, BasicStep, PTL DEF Spec, LinesKept
=============================================================================
