------------------------------ MODULE TshProofs ------------------------------
(***************************************************************************)
(* Proofs about the tiny shell, for any number of processes, of entries of  *)
(* the job list, of commands and of signals.                                *)
(***************************************************************************)
EXTENDS TshProperties, NatSets, FiniteSetTheorems

-----------------------------------------------------------------------------
(***************************************************************************)
(* The searches of the job list.                                            *)
(***************************************************************************)

LEMMA FirstInSlots ==
  ASSUME NEW S, S \subseteq Slot
  PROVE  /\ S = {} => FirstIn(S) = NULL
         /\ S # {} => FirstIn(S) \in S /\ Min(S) \in S
<1>1. S \subseteq Nat
  BY MAXJOBSAssumption DEF Slot
<1> QED
  BY <1>1, MinOfNats DEF FirstIn

LEMMA NullIsNoSlot == NULL \notin Slot
BY DEF NULL, Slot

\* getjobpid finds an entry of the process if there is one.
LEMMA getjobpidFinds ==
  ASSUME NEW J, NEW p \in Pid
  PROVE  \/ /\ getjobpid(J, p) = NULL
            /\ \A i \in Slot : J[i].pid # p
         \/ /\ getjobpid(J, p) \in Slot
            /\ J[getjobpid(J, p)].pid = p
<1> DEFINE S == OfPid(J, p)
<1>1. S \subseteq Slot
  BY DEF OfPid
<1>2. getjobpid(J, p) = FirstIn(S)
  BY DEF getjobpid
<1>3. CASE S = {}
  BY <1>1, <1>2, <1>3, FirstInSlots DEF OfPid
<1>4. CASE S # {}
  BY <1>1, <1>2, <1>4, FirstInSlots DEF OfPid
<1> QED
  BY <1>3, <1>4

\* fgpid returns the pid of an entry in the foreground, if there is one.
LEMMA fgpidFinds ==
  ASSUME NEW J
  PROVE  \/ InState(J, "FG") = {} /\ fgpid(J) = NoPid
         \/ \E i \in InState(J, "FG") : fgpid(J) = J[i].pid
<1> DEFINE S == InState(J, "FG")
<1>1. S \subseteq Slot
  BY DEF InState
<1>2. S # {} => Min(S) \in S
  BY <1>1, FirstInSlots
<1> QED
  BY <1>2 DEF fgpid

\* maxjid is a natural number.
LEMMA maxjidNat ==
  ASSUME NEW J \in [Slot -> Job]
  PROVE  maxjid(J) \in Nat
<1> DEFINE f == [i \in Slot |-> J[i].jid]
           S == {0} \cup {J[i].jid : i \in Slot}
<1>1. f \in [1 .. MAXJOBS -> Nat]
  BY DEF Slot, Job
<1>2. PICK b \in Nat : \A i \in 1 .. MAXJOBS : f[i] <= b
  BY <1>1, MAXJOBSAssumption, ArrayBounded
<1>3. S \subseteq Nat /\ S # {}
  BY DEF Job
<1>4. \A x \in S : x <= b
  BY <1>2 DEF Slot
<1>5. Max(S) \in S
  BY <1>2, <1>3, <1>4, MaxOfNats
<1> QED
  BY <1>3, <1>5 DEF maxjid

\* What addjob can do to the array: nothing, or take a free entry.
LEMMA addjobEffect ==
  ASSUME NEW J \in [Slot -> Job], NEW n \in Nat \ {0},
         NEW p \in Pid \cup {NoPid, ForkFailed}, NEW st \in JobState
  PROVE  /\ \/ addjob(J, n, p, st).jobs = J
            \/ /\ p \in Pid
               /\ \E k \in Free(J) :
                    addjob(J, n, p, st).jobs =
                      [J EXCEPT ![k] = [pid |-> p, jid |-> n, state |-> st]]
         /\ addjob(J, n, p, st).nextjid \in Nat \ {0}
<1>1. Free(J) # {} => Min(Free(J)) \in Free(J)
  BY FirstInSlots DEF Free
<1>2. BumpJid(n) \in Nat \ {0}
  BY DEF BumpJid
<1> QED
  BY <1>1, <1>2 DEF addjob

\* What deletejob can do to it: nothing, or clear an entry of the process.
LEMMA deletejobEffect ==
  ASSUME NEW J \in [Slot -> Job], NEW n \in Nat \ {0}, NEW p \in Pid \cup {NoPid}
  PROVE  /\ \/ /\ deletejob(J, n, p).jobs = J
               /\ p \in Pid => \A i \in Slot : J[i].pid # p
            \/ \E k \in Slot : J[k].pid = p
                 /\ deletejob(J, n, p).jobs = [J EXCEPT ![k] = clearjob]
         /\ deletejob(J, n, p).nextjid \in Nat \ {0}
<1> DEFINE g == getjobpid(J, p)
           left == [J EXCEPT ![g] = clearjob]
<1>1. CASE g = NULL
  BY <1>1, getjobpidFinds, NullIsNoSlot DEF deletejob
<1>2. CASE g # NULL
  <2>1. p \in Pid
    BY <1>2 DEF getjobpid
  <2>2. g \in Slot /\ J[g].pid = p
    BY <1>2, <2>1, getjobpidFinds
  <2>3. clearjob \in Job
    BY DEF clearjob, Job, JobState
  <2>4. left \in [Slot -> Job]
    BY <2>3
  <2>5. left = [J EXCEPT ![g] = clearjob]
    OBVIOUS
  <2>6. deletejob(J, n, p) = [jobs |-> left, nextjid |-> maxjid(left) + 1]
    BY <1>2, Zenon DEF deletejob
  <2> HIDE DEF g, left
  <2>7. maxjid(left) + 1 \in Nat \ {0}
    <3>1. maxjid(left) \in Nat
      BY <2>4, maxjidNat
    <3> QED
      BY <3>1
  <2>8. /\ deletejob(J, n, p).jobs = [J EXCEPT ![g] = clearjob]
        /\ deletejob(J, n, p).nextjid = maxjid(left) + 1
    BY <2>5, <2>6
  <2> QED
    BY <2>2, <2>7, <2>8
<1> QED
  BY <1>1, <1>2

-----------------------------------------------------------------------------
(***************************************************************************)
(* What the actions that change the job list make of it.                    *)
(***************************************************************************)
Typed == TypeOK /\ JobNamed

LEMMA EvalAddEffect ==
  ASSUME Typed, EvalAdd
  PROVE  /\ \/ jobs' = jobs
            \/ /\ pid \in Pid
               /\ \E k \in Free(jobs) :
                    jobs' = [jobs EXCEPT ![k] =
                               [pid |-> pid, jid |-> nextjid,
                                state |-> IF bg THEN "BG" ELSE "FG"]]
         /\ nextjid' \in Nat \ {0}
<1> DEFINE st == IF bg THEN "BG" ELSE "FG"
           added == addjob(jobs, nextjid, pid, st)
<1>1. st \in JobState
  BY DEF JobState
<1>2. jobs' = added.jobs /\ nextjid' = added.nextjid
  BY DEF EvalAdd
<1>3. /\ jobs \in [Slot -> Job]
      /\ nextjid \in Nat \ {0}
      /\ pid \in Pid \cup {NoPid, ForkFailed}
  BY DEF Typed, TypeOK
<1> HIDE DEF st
<1>4. /\ \/ added.jobs = jobs
         \/ /\ pid \in Pid
            /\ \E k \in Free(jobs) :
                 added.jobs = [jobs EXCEPT ![k] = [pid |-> pid, jid |-> nextjid, state |-> st]]
      /\ added.nextjid \in Nat \ {0}
  BY <1>1, <1>3, addjobEffect, Zenon
<1> HIDE DEF added
<1>5. /\ \/ jobs' = jobs
         \/ /\ pid \in Pid
            /\ \E k \in Free(jobs) :
                 jobs' = [jobs EXCEPT ![k] = [pid |-> pid, jid |-> nextjid, state |-> st]]
      /\ nextjid' \in Nat \ {0}
  BY <1>2, <1>4
<1> QED
  BY <1>5, Zenon DEF st

LEMMA ChldDeleteEffect ==
  ASSUME Typed, ChldDelete
  PROVE  /\ \/ /\ jobs' = jobs
               /\ hpid["CHLD"] \in Pid => \A i \in Slot : jobs[i].pid # hpid["CHLD"]
            \/ \E k \in Slot : jobs[k].pid = hpid["CHLD"]
                 /\ jobs' = [jobs EXCEPT ![k] = clearjob]
         /\ nextjid' \in Nat \ {0}
<1> DEFINE p == hpid["CHLD"]
           deleted == deletejob(jobs, nextjid, p)
<1>1. p \in Pid \cup {NoPid}
  BY DEF Typed, TypeOK, Handled, Sig
<1>2. jobs' = deleted.jobs /\ nextjid' = deleted.nextjid
  BY DEF ChldDelete
<1>3. jobs \in [Slot -> Job] /\ nextjid \in Nat \ {0}
  BY DEF Typed, TypeOK
<1> HIDE DEF p
<1>4. /\ \/ /\ jobs' = jobs
            /\ p \in Pid => \A i \in Slot : jobs[i].pid # p
         \/ \E k \in Slot : jobs[k].pid = p
              /\ jobs' = [jobs EXCEPT ![k] = clearjob]
      /\ nextjid' \in Nat \ {0}
  BY <1>1, <1>2, <1>3, deletejobEffect
<1> QED
  BY <1>4 DEF p

LEMMA ChldStoppedEffect ==
  ASSUME Typed, ChldStopped
  PROVE  \/ jobs' = jobs /\ pc' = "crashed"
         \/ /\ pc' = pc
            /\ \E k \in Slot : /\ jobs[k].pid = hpid["CHLD"]
                               /\ jobs[k].pid # NoPid
                               /\ jobs' = [jobs EXCEPT ![k].state = "ST"]
<1> DEFINE p == hpid["CHLD"]
           found == getjobpid(jobs, p)
<1>1. CASE found = NULL
  BY <1>1 DEF ChldStopped
<1>2. CASE found # NULL
  <2>1. p \in Pid
    BY <1>2 DEF getjobpid
  <2>2. found \in Slot /\ jobs[found].pid = p
    BY <1>2, <2>1, getjobpidFinds
  <2>3. pc' = pc /\ jobs' = [jobs EXCEPT ![found].state = "ST"]
    BY <1>2 DEF ChldStopped
  <2> QED
    BY <2>1, <2>2, <2>3, PidAssumption
<1> QED
  BY <1>1, <1>2

-----------------------------------------------------------------------------
(***************************************************************************)
(* Type correctness.  It rests on do_bgfg having a job when it uses it.     *)
(***************************************************************************)
LEMMA InitTyped == Init => Typed
<1> SUFFICES ASSUME Init PROVE Typed
  OBVIOUS
<1>1. initjobs \in [Slot -> Job]
  BY DEF initjobs, clearjob, Job, JobState
<1>2. /\ jobs \in [Slot -> Job]
      /\ nextjid \in Nat \ {0}
  BY <1>1 DEF Init
<1>3. /\ pc \in MainPc /\ bg \in BOOLEAN /\ pid \in Pid \cup {NoPid, ForkFailed}
      /\ job \in Slot \cup {NULL} /\ mask \in SUBSET Sig
      /\ JobNamed
  BY DEF Init, MainPc, JobNamed
<1>4. /\ stack \in Seq(Handled)
      /\ hpc \in [Handled -> HandPc]
      /\ hpid \in [Handled -> Pid \cup {NoPid}]
  BY DEF Init, HandPc
<1>5. /\ proc \in [Pid -> ProcState]
      /\ unreported \in SUBSET Pid
      /\ pending \in SUBSET Sig
      /\ cmds \in 0 .. MaxCmds
      /\ keys \in 0 .. MaxKeys
  BY BoundAssumption DEF Init, ProcState
<1> QED
  BY <1>2, <1>3, <1>4, <1>5 DEF Typed, TypeOK

\* The kernel's part keeps its types.
LEMMA SendTyped ==
  ASSUME Typed, NEW s \in {"CONT", "INT", "TSTP"}, NEW p, Send(s, p)
  PROVE  /\ proc' \in [Pid -> ProcState]
         /\ unreported' \in SUBSET Pid
         /\ pending' \in SUBSET Sig
<1> USE DEF Typed, TypeOK, ProcState, Sig
<1>1. CASE s = "CONT" /\ p \in Pid /\ proc[p] = "stopped"
  BY <1>1 DEF Send, NotifyShell
<1>2. CASE s = "CONT" /\ p \in Pid /\ proc[p] = "doomed"
  BY <1>2 DEF Send, Ends, NotifyShell
<1>3. CASE s = "INT" /\ p \in Pid /\ proc[p] = "running"
  BY <1>3 DEF Send, Ends, NotifyShell
<1>4. CASE s = "INT" /\ p \in Pid /\ proc[p] = "stopped"
  BY <1>4 DEF Send
<1>5. CASE s = "TSTP" /\ p \in Pid /\ proc[p] = "running"
  BY <1>5 DEF Send, Stops, NotifyShell
<1>6. CASE /\ ~(s = "CONT" /\ p \in Pid /\ proc[p] = "stopped")
           /\ ~(s = "CONT" /\ p \in Pid /\ proc[p] = "doomed")
           /\ ~(s = "INT" /\ p \in Pid /\ proc[p] = "running")
           /\ ~(s = "INT" /\ p \in Pid /\ proc[p] = "stopped")
           /\ ~(s = "TSTP" /\ p \in Pid /\ proc[p] = "running")
  BY <1>6 DEF Send, kernel
<1> QED
  BY <1>1, <1>2, <1>3, <1>4, <1>5, <1>6

LEMMA NextTyped == Typed /\ [Next]_vars => Typed'
<1> SUFFICES ASSUME Typed, [Next]_vars PROVE Typed'
  OBVIOUS
<1> USE DEF Typed, TypeOK, JobNamed, table, main, hands, kernel, bounds, AtMain, MainPc, HandPc
<1>1. ASSUME NEW b \in BOOLEAN, EvalStart(b) PROVE Typed'
  BY <1>1, BoundAssumption DEF EvalStart, Read, Sig
<1>2. ASSUME NEW b \in BOOLEAN, BgfgFind(b) PROVE Typed'
  <2>1. Named \subseteq Slot
    <3>1. ASSUME NEW p \in Pid PROVE getjobpid(jobs, p) \in Slot \cup {NULL}
      BY getjobpidFinds
    <3>2. ASSUME NEW i \in Slot
          PROVE  getjobjid(jobs, jobs[i].jid) \in Slot \cup {NULL}
      BY FirstInSlots DEF getjobjid, FirstIn, OfJid
    <3> QED
      BY <3>1, <3>2 DEF Named
  <2> QED
    BY <1>2, <2>1, BoundAssumption DEF BgfgFind, Read
<1>3. CASE EvalFork
  BY <1>3 DEF EvalFork, ProcState
<1>4. CASE EvalBlock
  BY <1>4 DEF EvalBlock
<1>5. CASE EvalAdd
  <2>1. jobs' \in [Slot -> Job] /\ nextjid' \in Nat \ {0}
    BY <1>5, EvalAddEffect DEF Job, JobState
  <2> QED
    BY <1>5, <2>1 DEF EvalAdd
<1>6. CASE EvalUnblock
  BY <1>6 DEF EvalUnblock, ToPrompt
<1>7. CASE WaitCheck
  BY <1>7 DEF WaitCheck, ToPrompt
<1>8. CASE WaitSleep
  BY <1>8 DEF WaitSleep
<1>9. CASE WaitTimeout
  BY <1>9 DEF WaitTimeout
<1>10. CASE BgfgSetState
  BY <1>10 DEF BgfgSetState, Job, JobState
<1>11. CASE BgfgCont
  <2>1. Send("CONT", jobs[job].pid)
    BY <1>11 DEF BgfgCont
  <2>2. /\ proc' \in [Pid -> ProcState]
        /\ unreported' \in SUBSET Pid
        /\ pending' \in SUBSET Sig
    BY <2>1, SendTyped
  <2> QED
    BY <1>11, <2>2 DEF BgfgCont, ToPrompt
<1>12. CASE FgWait
  BY <1>12 DEF FgWait, Job
<1>13. CASE Quit
  BY <1>13 DEF Quit
<1>14. CASE DeliverQuit
  BY <1>14 DEF DeliverQuit
<1>15. ASSUME NEW s \in Handled, Deliver(s) PROVE Typed'
  <2>1. <<s>> \o stack \in Seq(Handled)
    BY <1>15
  <2> QED
    BY <1>15, <2>1 DEF Deliver
<1>16. CASE ChldWait
  <2>1. ASSUME NEW p \in Pid, ReapEnded(p) \/ ReapStopped(p) PROVE Typed'
    BY <1>16, <2>1 DEF ChldWait, ReapEnded, ReapStopped, HandlerAt, ProcState
  <2>2. CASE NoneWaitable /\ Return("CHLD") /\ UNCHANGED <<proc, unreported>>
    BY <1>16, <2>2 DEF ChldWait, AtHandler, Return
  <2> QED
    BY <1>16, <2>1, <2>2 DEF ChldWait
<1>17. CASE ChldDelete
  <2>1. clearjob \in Job
    BY DEF Job, JobState, clearjob
  <2>2. jobs' \in [Slot -> Job] /\ nextjid' \in Nat \ {0}
    BY <1>17, <2>1, ChldDeleteEffect
  <2> QED
    BY <1>17, <2>2 DEF ChldDelete, HandlerAt
<1>18. CASE ChldStopped
  <2>1. jobs' \in [Slot -> Job] /\ pc' \in {pc, "crashed"}
    <3>1. CASE jobs' = jobs /\ pc' = "crashed"
      BY <3>1
    <3>2. ASSUME NEW k \in Slot, pc' = pc, jobs' = [jobs EXCEPT ![k].state = "ST"]
          PROVE  jobs' \in [Slot -> Job] /\ pc' \in {pc, "crashed"}
      BY <3>2 DEF Job, JobState
    <3> QED
      BY <1>18, <3>1, <3>2, ChldStoppedEffect
  <2> QED
    BY <1>18, <2>1 DEF ChldStopped, HandlerAt
<1>19. ASSUME NEW s \in {"INT", "TSTP"}, FwdRead(s) PROVE Typed'
  <2>1. fgpid(jobs) \in Pid \cup {NoPid}
    BY fgpidFinds DEF InState, Job
  <2>2. CASE Return(s)
    BY <1>19, <2>2 DEF FwdRead, AtHandler, Return
  <2>3. CASE HandlerAt(s, "kill", fgpid(jobs))
    BY <1>19, <2>1, <2>3 DEF FwdRead, AtHandler, HandlerAt
  <2> QED
    BY <1>19, <2>2, <2>3 DEF FwdRead
<1>20. ASSUME NEW s \in {"INT", "TSTP"}, FwdKill(s) PROVE Typed'
  <2>1. /\ proc' \in [Pid -> ProcState]
        /\ unreported' \in SUBSET Pid
        /\ pending' \in SUBSET Sig
    BY <1>20, SendTyped DEF FwdKill
  <2> QED
    BY <1>20, <2>1 DEF FwdKill, AtHandler, Return
<1>21. ASSUME NEW p \in Pid, Exec(p) \/ Die(p) \/ SelfStop(p) PROVE Typed'
  BY <1>21 DEF Exec, Die, SelfStop, Ends, Stops, NotifyShell, ProcState, Sig
<1>22. ASSUME NEW s \in Sig \ {"CHLD"}, Key(s) PROVE Typed'
  BY <1>22, BoundAssumption DEF Key
<1>23. CASE UNCHANGED vars
  BY <1>23 DEF vars
<1> QED
  BY <1>1, <1>2, <1>3, <1>4, <1>5, <1>6, <1>7, <1>8, <1>9, <1>10, <1>11, <1>12,
     <1>13, <1>14, <1>15, <1>16, <1>17, <1>18, <1>19, <1>20, <1>21, <1>22, <1>23
     DEF Next, MainStep, ReadCommand, HandlerStep, Delivery, Environment

\* The shell's state, the job list above all, keeps its type.
THEOREM TypeCorrect == Spec => []TypeOK
<1>1. Typed => TypeOK
  BY DEF Typed
<1> QED
  BY <1>1, InitTyped, NextTyped, PTL DEF Spec

-----------------------------------------------------------------------------
(***************************************************************************)
(* The handlers nest.                                                       *)
(***************************************************************************)
LEMMA Push ==
  ASSUME NEW S, NEW q \in Seq(S), NEW e \in S
  PROVE  /\ DOMAIN (<<e>> \o q) = 1 .. Len(q) + 1
         /\ DOMAIN q = 1 .. Len(q) /\ Len(q) \in Nat
         /\ (<<e>> \o q)[1] = e
         /\ \A i \in 1 .. Len(q) : (<<e>> \o q)[i + 1] = q[i]
OBVIOUS

LEMMA Pop ==
  ASSUME NEW S, NEW q \in Seq(S), q # <<>>
  PROVE  /\ DOMAIN Tail(q) = 1 .. Len(q) - 1
         /\ DOMAIN q = 1 .. Len(q) /\ Len(q) \in Nat \ {0}
         /\ Head(q) = q[1]
         /\ \A i \in 1 .. Len(q) - 1 : Tail(q)[i] = q[i + 1]
OBVIOUS

Nested(stk, h) ==
  /\ \A i, k \in DOMAIN stk : stk[i] = stk[k] => i = k
  /\ \A s \in Handled : h[s] # "idle" => \E i \in DOMAIN stk : stk[i] = s

LEMMA NestedPush ==
  ASSUME NEW q \in Seq(Handled), NEW h \in [Handled -> HandPc], NEW e \in Handled,
         NEW l \in HandPc, Nested(q, h), \A i \in DOMAIN q : q[i] # e
  PROVE  Nested(<<e>> \o q, [h EXCEPT ![e] = l])
<1> DEFINE r == <<e>> \o q
<1>1. /\ DOMAIN r = 1 .. Len(q) + 1
      /\ DOMAIN q = 1 .. Len(q) /\ Len(q) \in Nat
      /\ r[1] = e
      /\ \A i \in 1 .. Len(q) : r[i + 1] = q[i]
  BY Push
<1> HIDE DEF r
<1>2. ASSUME NEW i \in DOMAIN r, NEW k \in DOMAIN r, r[i] = r[k] PROVE i = k
  <2>1. \A j \in DOMAIN r : j = 1 \/ (j - 1 \in DOMAIN q /\ r[j] = q[j - 1])
    <3> SUFFICES ASSUME NEW j \in DOMAIN r, j # 1
                 PROVE  j - 1 \in DOMAIN q /\ r[j] = q[j - 1]
      OBVIOUS
    <3>1. j - 1 \in 1 .. Len(q) /\ (j - 1) + 1 = j
      BY <1>1
    <3> QED
      BY <1>1, <3>1
  <2>2. i - 1 = k - 1 => i = k
    BY <1>1
  <2> QED
    BY <1>1, <1>2, <2>1, <2>2 DEF Nested
<1>3. ASSUME NEW s \in Handled, [h EXCEPT ![e] = l][s] # "idle"
      PROVE  \E i \in DOMAIN r : r[i] = s
  <2>1. CASE s = e
    BY <2>1, <1>1
  <2>2. CASE s # e
    <3>1. PICK i \in DOMAIN q : q[i] = s
      BY <1>3, <2>2 DEF Nested
    <3>2. i + 1 \in DOMAIN r /\ r[i + 1] = s
      BY <1>1, <3>1
    <3> QED
      BY <3>2
  <2> QED
    BY <2>1, <2>2
<1> QED
  BY <1>2, <1>3 DEF Nested, r

LEMMA NestedPop ==
  ASSUME NEW q \in Seq(Handled), NEW h \in [Handled -> HandPc],
         Nested(q, h), q # <<>>
  PROVE  Nested(Tail(q), [h EXCEPT ![Head(q)] = "idle"])
<1> DEFINE r == Tail(q)
<1>1. /\ DOMAIN r = 1 .. Len(q) - 1
      /\ DOMAIN q = 1 .. Len(q) /\ Len(q) \in Nat \ {0}
      /\ Head(q) = q[1]
      /\ \A i \in 1 .. Len(q) - 1 : r[i] = q[i + 1]
  BY Pop
<1> HIDE DEF r
<1>2. ASSUME NEW i \in DOMAIN r, NEW k \in DOMAIN r, r[i] = r[k] PROVE i = k
  <2>1. i + 1 \in DOMAIN q /\ k + 1 \in DOMAIN q /\ q[i + 1] = q[k + 1]
    BY <1>1, <1>2
  <2>2. i + 1 = k + 1
    BY <2>1 DEF Nested
  <2> QED
    BY <1>1, <2>2
<1>3. ASSUME NEW s \in Handled, [h EXCEPT ![Head(q)] = "idle"][s] # "idle"
      PROVE  \E i \in DOMAIN r : r[i] = s
  <2>1. s # q[1] /\ h[s] # "idle"
    BY <1>1, <1>3
  <2>2. PICK i \in DOMAIN q : q[i] = s
    BY <2>1 DEF Nested
  <2>3. i - 1 \in DOMAIN r /\ (i - 1) + 1 = i
    BY <1>1, <2>1, <2>2
  <2> QED
    BY <1>1, <2>2, <2>3
<1> QED
  BY <1>2, <1>3 DEF Nested, r

LEMMA InitHandlersNest == Init => HandlersNest
BY DEF Init, HandlersNest, Handled, Sig

\* Main runs only when every handler is idle.
LEMMA MainAlone ==
  ASSUME HandlersNest, stack = <<>>
  PROVE  \A s \in Handled : hpc[s] = "idle"
BY DEF HandlersNest

\* What a handler's step does to the handlers: it moves on, or returns.
LEMMA HandlerMoves ==
  ASSUME Typed, HandlersNest, NEW s \in Handled, NEW l \in HandPc, l # "idle",
         NEW p \in Pid \cup {NoPid}, stack # <<>>, Head(stack) = s, HandlerAt(s, l, p)
  PROVE  Nested(stack', hpc')
<1>1. \E i \in DOMAIN stack : stack[i] = s
  BY Pop DEF Typed, TypeOK
<1> QED
  BY <1>1 DEF Typed, TypeOK, HandlersNest, HandlerAt, Nested

LEMMA HandlerReturns ==
  ASSUME Typed, HandlersNest, NEW s \in Handled, stack # <<>>, Head(stack) = s, Return(s)
  PROVE  Nested(stack', hpc')
<1>1. stack \in Seq(Handled) /\ hpc \in [Handled -> HandPc]
  BY DEF Typed, TypeOK
<1>2. Nested(stack, hpc)
  BY DEF HandlersNest, Nested
<1>3. Nested(Tail(stack), [hpc EXCEPT ![Head(stack)] = "idle"])
  BY <1>1, <1>2, NestedPop
<1>4. stack' = Tail(stack) /\ hpc' = [hpc EXCEPT ![Head(stack)] = "idle"]
  BY DEF Return
<1> QED
  BY <1>3, <1>4, Zenon

LEMMA NextHandlersNest == Typed /\ HandlersNest /\ [Next]_vars => HandlersNest'
<1> SUFFICES ASSUME Typed, HandlersNest, [Next]_vars PROVE HandlersNest'
  OBVIOUS
<1> USE DEF table, main, hands, kernel, bounds, AtMain
<1>0. Handled = {"CHLD", "INT", "TSTP"}
  BY DEF Handled, Sig
<1>1. ASSUME NEW b \in BOOLEAN, EvalStart(b) PROVE HandlersNest'
  BY <1>0, <1>1, MainAlone DEF EvalStart, Read, HandlersNest
<1>2. ASSUME NEW b \in BOOLEAN, BgfgFind(b) PROVE HandlersNest'
  BY <1>2 DEF BgfgFind, Read, HandlersNest
<1>3. CASE EvalFork
  BY <1>3 DEF EvalFork, HandlersNest
<1>4. CASE EvalBlock
  BY <1>4 DEF EvalBlock, HandlersNest, Sig
<1>5. CASE EvalAdd
  BY <1>5 DEF EvalAdd, HandlersNest
<1>6. CASE EvalUnblock
  BY <1>6 DEF EvalUnblock, ToPrompt, HandlersNest
<1>7. CASE WaitCheck
  BY <1>7 DEF WaitCheck, ToPrompt, HandlersNest
<1>8. CASE WaitSleep
  BY <1>8 DEF WaitSleep, HandlersNest
<1>9. CASE WaitTimeout
  BY <1>9 DEF WaitTimeout, HandlersNest
<1>10. CASE BgfgSetState
  BY <1>10 DEF BgfgSetState, HandlersNest
<1>11. CASE BgfgCont
  BY <1>11 DEF BgfgCont, ToPrompt, HandlersNest
<1>12. CASE FgWait
  BY <1>12 DEF FgWait, HandlersNest
<1>13. CASE Quit
  BY <1>13 DEF Quit, HandlersNest
<1>14. CASE DeliverQuit
  BY <1>14 DEF DeliverQuit, HandlersNest
<1>15. ASSUME NEW s \in Handled, Deliver(s) PROVE HandlersNest'
  <2> DEFINE l == IF s = "CHLD" THEN "reap" ELSE "read"
  <2>1. /\ \A i \in DOMAIN stack : stack[i] # s
        /\ s \notin mask
    BY <1>15 DEF Deliver, Blocked
  <2>2. Nested(stack', hpc')
    <3>1. l \in HandPc /\ Nested(stack, hpc)
      BY DEF HandPc, HandlersNest, Nested
    <3>2. stack' = <<s>> \o stack /\ hpc' = [hpc EXCEPT ![s] = l]
      BY <1>15 DEF Deliver
    <3> QED
      BY <2>1, <3>1, <3>2, NestedPush DEF Typed, TypeOK
  <2>3. hpc' = [hpc EXCEPT ![s] = l] /\ hpid' = hpid /\ mask' = mask
        /\ pc' = IF pc = "sleep" THEN "check" ELSE pc
    BY <1>15 DEF Deliver
  <2> QED
    BY <1>0, <2>1, <2>2, <2>3 DEF HandlersNest, Nested, Typed, TypeOK
<1>16. CASE ChldWait
  <2>1. ASSUME NEW p \in Pid, ReapEnded(p) \/ ReapStopped(p) PROVE HandlersNest'
    <3>1. PICK l \in {"delete", "stopped"} : HandlerAt("CHLD", l, p)
      BY <2>1 DEF ReapEnded, ReapStopped
    <3>2. Nested(stack', hpc')
      BY <1>0, <1>16, <3>1, HandlerMoves DEF ChldWait, AtHandler, HandPc
    <3> QED
      BY <1>0, <1>16, <3>1, <3>2
         DEF ChldWait, AtHandler, HandlerAt, HandlersNest, Nested, Typed, TypeOK
  <2>2. CASE NoneWaitable /\ Return("CHLD") /\ UNCHANGED <<proc, unreported>>
    <3>1. Nested(stack', hpc')
      BY <1>0, <1>16, <2>2, HandlerReturns DEF ChldWait, AtHandler
    <3> QED
      BY <1>0, <1>16, <2>2, <3>1
         DEF ChldWait, AtHandler, Return, HandlersNest, Nested, Typed, TypeOK
  <2> QED
    BY <1>16, <2>1, <2>2 DEF ChldWait
<1>17. CASE ChldDelete \/ ChldStopped
  <2>1. /\ HandlerAt("CHLD", "reap", NoPid)
        /\ stack # <<>> /\ Head(stack) = "CHLD" /\ hpc["CHLD"] # "idle"
        /\ pc' \in {pc, "crashed"} /\ mask' = mask
    BY <1>17, ChldStoppedEffect DEF ChldDelete, ChldStopped, AtHandler
  <2>2. Nested(stack', hpc')
    BY <1>0, <2>1, HandlerMoves DEF HandPc
  <2> QED
    BY <1>0, <2>1, <2>2 DEF HandlerAt, HandlersNest, Nested, Typed, TypeOK
<1>18. ASSUME NEW s \in {"INT", "TSTP"}, FwdRead(s) PROVE HandlersNest'
  <2>0. stack # <<>> /\ Head(stack) = s /\ pc' = pc /\ mask' = mask
    BY <1>18 DEF FwdRead, AtHandler
  <2>1. CASE Return(s)
    <3>1. Nested(stack', hpc')
      BY <1>0, <2>0, <2>1, HandlerReturns
    <3> QED
      BY <1>0, <2>0, <2>1, <3>1 DEF Return, HandlersNest, Nested, Typed, TypeOK
  <2>2. CASE fgpid(jobs) # NoPid /\ HandlerAt(s, "kill", fgpid(jobs))
    <3>1. fgpid(jobs) \in Pid
      BY <2>2, fgpidFinds DEF Typed, TypeOK, InState, Job
    <3>2. Nested(stack', hpc')
      BY <1>0, <2>0, <2>2, <3>1, HandlerMoves DEF HandPc
    <3> QED
      BY <1>0, <2>0, <2>2, <3>1, <3>2
         DEF HandlerAt, HandlersNest, Nested, Typed, TypeOK
  <2> QED
    BY <1>18, <2>1, <2>2 DEF FwdRead
<1>19. ASSUME NEW s \in {"INT", "TSTP"}, FwdKill(s) PROVE HandlersNest'
  <2>0. stack # <<>> /\ Head(stack) = s /\ pc' = pc /\ mask' = mask /\ Return(s)
    BY <1>19 DEF FwdKill, AtHandler
  <2>1. Nested(stack', hpc')
    BY <1>0, <2>0, HandlerReturns
  <2> QED
    BY <1>0, <2>0, <2>1 DEF Return, HandlersNest, Nested, Typed, TypeOK
<1>20. ASSUME NEW p \in Pid, Exec(p) \/ Die(p) \/ SelfStop(p) PROVE HandlersNest'
  BY <1>20 DEF Exec, Die, SelfStop, HandlersNest
<1>21. ASSUME NEW s \in Sig \ {"CHLD"}, Key(s) PROVE HandlersNest'
  BY <1>21 DEF Key, HandlersNest
<1>22. CASE UNCHANGED vars
  BY <1>22 DEF vars, HandlersNest
<1> QED
  BY <1>1, <1>2, <1>3, <1>4, <1>5, <1>6, <1>7, <1>8, <1>9, <1>10, <1>11, <1>12,
     <1>13, <1>14, <1>15, <1>16, <1>17, <1>18, <1>19, <1>20, <1>21, <1>22
     DEF Next, MainStep, ReadCommand, HandlerStep, Delivery, Environment

-----------------------------------------------------------------------------
(***************************************************************************)
(* The foreground.                                                          *)
(***************************************************************************)
LEMMA InitForeground == Init => ForegroundInv
BY DEF Init, initjobs, clearjob, ForegroundInv, InState

LEMMA NextForeground == Typed /\ ForegroundInv /\ [Next]_vars => ForegroundInv'
<1> SUFFICES ASSUME Typed, ForegroundInv, [Next]_vars PROVE ForegroundInv'
  OBVIOUS
<1> USE DEF table, main, hands, kernel, bounds, AtMain, ForegroundInv, InState
<1>1. ASSUME NEW b \in BOOLEAN, EvalStart(b) PROVE ForegroundInv'
  BY <1>1 DEF EvalStart, Read
<1>2. ASSUME NEW b \in BOOLEAN, BgfgFind(b) PROVE ForegroundInv'
  BY <1>2 DEF BgfgFind, Read
<1>3. CASE EvalFork
  BY <1>3 DEF EvalFork
<1>4. CASE EvalBlock
  BY <1>4 DEF EvalBlock
<1>5. CASE EvalAdd
  <2>1. /\ pc' = "unblock" /\ bg' = bg /\ pid' = pid
        /\ \A i \in Slot : jobs[i].state # "FG"
    BY <1>5 DEF EvalAdd
  <2>2. CASE jobs' = jobs
    BY <2>1, <2>2
  <2>3. ASSUME NEW k \in Free(jobs),
               jobs' = [jobs EXCEPT ![k] = [pid |-> pid, jid |-> nextjid,
                                            state |-> IF bg THEN "BG" ELSE "FG"]]
        PROVE  ForegroundInv'
    <3>1. \A i \in Slot : jobs'[i].state = "FG" =>
            i = k /\ ~bg /\ jobs'[i].pid = pid
      BY <2>1, <2>3 DEF Typed, TypeOK, Free
    <3> QED
      BY <2>1, <3>1
  <2> QED
    BY <1>5, <2>2, <2>3, EvalAddEffect
<1>6. CASE EvalUnblock
  BY <1>6 DEF EvalUnblock, ToPrompt
<1>7. CASE WaitCheck
  BY <1>7, fgpidFinds DEF WaitCheck, ToPrompt
<1>8. CASE WaitSleep
  BY <1>8 DEF WaitSleep
<1>9. CASE WaitTimeout
  BY <1>9 DEF WaitTimeout
<1>10. CASE BgfgSetState
  <2>1. /\ pc' = "cont" /\ bg' = bg /\ job' = job
        /\ jobs' = [jobs EXCEPT ![job].state = IF bg THEN "BG" ELSE "FG"]
        /\ \A i \in Slot : jobs[i].state # "FG"
    BY <1>10 DEF BgfgSetState
  <2>2. \A i \in Slot : jobs'[i].state = "FG" => i = job /\ ~bg
    BY <2>1 DEF Typed, TypeOK, JobNamed
  <2> QED
    BY <2>1, <2>2
<1>11. CASE BgfgCont
  BY <1>11 DEF BgfgCont, ToPrompt
<1>12. CASE FgWait
  BY <1>12 DEF FgWait
<1>13. CASE Quit
  BY <1>13 DEF Quit
<1>14. CASE DeliverQuit
  BY <1>14 DEF DeliverQuit
<1>15. ASSUME NEW s \in Handled, Deliver(s) PROVE ForegroundInv'
  BY <1>15 DEF Deliver
<1>16. CASE ChldWait
  BY <1>16 DEF ChldWait
<1>17. CASE ChldDelete \/ ChldStopped
  <2>1. UNCHANGED <<bg, pid, job>> /\ (pc' = pc \/ pc' = "crashed")
    BY <1>17, ChldStoppedEffect DEF ChldDelete, ChldStopped
  <2>2. CASE jobs' = jobs
    BY <2>1, <2>2
  <2>3. ASSUME NEW k \in Slot,
               \/ jobs' = [jobs EXCEPT ![k] = clearjob]
               \/ jobs' = [jobs EXCEPT ![k].state = "ST"]
        PROVE  ForegroundInv'
    <3>1. ASSUME NEW i \in Slot, jobs'[i].state = "FG"
          PROVE  jobs[i].state = "FG" /\ jobs'[i] = jobs[i]
      <4>1. jobs'[k].state # "FG" /\ (i # k => jobs'[i] = jobs[i])
        BY <2>3 DEF Typed, TypeOK, Job, clearjob
      <4> QED
        BY <3>1, <4>1
    <3> QED
      BY <2>1, <3>1
  <2> QED
    BY <1>17, <2>2, <2>3, ChldDeleteEffect, ChldStoppedEffect
<1>18. ASSUME NEW s \in {"INT", "TSTP"}, FwdRead(s) \/ FwdKill(s) PROVE ForegroundInv'
  BY <1>18 DEF FwdRead, FwdKill
<1>19. ASSUME NEW p \in Pid, Exec(p) \/ Die(p) \/ SelfStop(p) PROVE ForegroundInv'
  BY <1>19 DEF Exec, Die, SelfStop
<1>20. ASSUME NEW s \in Sig \ {"CHLD"}, Key(s) PROVE ForegroundInv'
  BY <1>20 DEF Key
<1>21. CASE UNCHANGED vars
  BY <1>21 DEF vars
<1> QED
  BY <1>1, <1>2, <1>3, <1>4, <1>5, <1>6, <1>7, <1>8, <1>9, <1>10, <1>11, <1>12,
     <1>13, <1>14, <1>15, <1>16, <1>17, <1>18, <1>19, <1>20, <1>21
     DEF Next, MainStep, ReadCommand, HandlerStep, Delivery, Environment

\* At most one job is in the foreground, and none while the shell prompts.
THEOREM ForegroundCorrect == Spec => []ForegroundDiscipline
<1>1. ForegroundInv => ForegroundDiscipline
  BY DEF ForegroundInv, ForegroundDiscipline
<1> QED
  BY <1>1, InitTyped, InitForeground, NextTyped, NextForeground, PTL DEF Spec

-----------------------------------------------------------------------------
(***************************************************************************)
(* The entries of the list and the children.                                *)
(***************************************************************************)
LEMMA InitChildren == Init => ChildInv
BY DEF Init, initjobs, clearjob, ChildInv, EntryHasChild

\* No signal makes a child of what is none, or none of a child.
LEMMA SendKeepsChildren ==
  ASSUME Typed, NEW s \in {"CONT", "INT", "TSTP"}, NEW p, Send(s, p)
  PROVE  \A q \in Pid : proc'[q] = "none" <=> proc[q] = "none"
<1> USE DEF Typed, TypeOK
<1>1. CASE s = "CONT" /\ p \in Pid /\ proc[p] = "stopped"
  BY <1>1 DEF Send
<1>2. CASE s = "CONT" /\ p \in Pid /\ proc[p] = "doomed"
  BY <1>2 DEF Send, Ends
<1>3. CASE s = "INT" /\ p \in Pid /\ proc[p] = "running"
  BY <1>3 DEF Send, Ends
<1>4. CASE s = "INT" /\ p \in Pid /\ proc[p] = "stopped"
  BY <1>4 DEF Send
<1>5. CASE s = "TSTP" /\ p \in Pid /\ proc[p] = "running"
  BY <1>5 DEF Send, Stops
<1>6. CASE /\ ~(s = "CONT" /\ p \in Pid /\ proc[p] = "stopped")
           /\ ~(s = "CONT" /\ p \in Pid /\ proc[p] = "doomed")
           /\ ~(s = "INT" /\ p \in Pid /\ proc[p] = "running")
           /\ ~(s = "INT" /\ p \in Pid /\ proc[p] = "stopped")
           /\ ~(s = "TSTP" /\ p \in Pid /\ proc[p] = "running")
  BY <1>6 DEF Send, kernel
<1> QED
  BY <1>1, <1>2, <1>3, <1>4, <1>5, <1>6

\* ChildInv survives a step that keeps the list, main's place and child, the
\* SIGCHLD handler's deletion, and what is a child.
LEMMA SameChildren ==
  ASSUME Typed, ChildInv, UNCHANGED <<jobs, pid>>, proc' \in [Pid -> ProcState],
         \A q \in Pid : proc[q] # "none" => proc'[q] # "none",
         hpc["CHLD"] = "delete" => hpc'["CHLD"] = "delete" /\ hpid'["CHLD"] = hpid["CHLD"],
         pc' \in {"block", "add"} => pc \in {"block", "add"}
  PROVE  ChildInv'
BY DEF Typed, TypeOK, Job, ChildInv, EntryHasChild, OfPid

LEMMA NextChildren == Typed /\ HandlersNest /\ ChildInv /\ [Next]_vars => ChildInv'
<1> SUFFICES ASSUME Typed, HandlersNest, ChildInv, [Next]_vars PROVE ChildInv'
  OBVIOUS
<1>0. /\ Handled = {"CHLD", "INT", "TSTP"}
      /\ proc' \in [Pid -> ProcState]
  BY NextTyped DEF Handled, Sig, Typed, TypeOK
<1> USE DEF table, main, hands, kernel, bounds, AtMain
<1>1. ASSUME NEW b \in BOOLEAN, EvalStart(b) \/ BgfgFind(b) PROVE ChildInv'
  BY <1>0, <1>1, SameChildren DEF EvalStart, BgfgFind, Read
<1>2. CASE EvalFork
  <2>1. hpc["CHLD"] = "idle"
    BY <1>0, <1>2 DEF EvalFork, HandlersNest
  <2>2. UNCHANGED <<jobs, hpc, hpid>> /\ pc' = "block"
    BY <1>2 DEF EvalFork
  <2>3. ASSUME NEW p \in Pid, proc[p] = "none", pid' = p,
               proc' = [proc EXCEPT ![p] = "forked"]
        PROVE  ChildInv'
    <3>1. \A i \in Slot : jobs[i].pid # p
      BY <2>1, <2>3, PidAssumption DEF ChildInv, EntryHasChild
    <3> QED
      BY <2>2, <2>3, <3>1 DEF Typed, TypeOK, Job, ChildInv, EntryHasChild, OfPid
  <2>4. CASE pid' = ForkFailed /\ proc' = proc
    BY <2>2, <2>4, PidAssumption DEF ChildInv, EntryHasChild, OfPid
  <2> QED
    BY <1>2, <2>3, <2>4 DEF EvalFork
<1>3. CASE EvalBlock
  BY <1>0, <1>3, SameChildren DEF EvalBlock
<1>4. CASE EvalAdd
  <2>1. UNCHANGED <<pid, proc, hpc, hpid>> /\ pc = "add" /\ pc' = "unblock"
    BY <1>4 DEF EvalAdd
  <2>2. CASE jobs' = jobs
    BY <1>0, <2>1, <2>2, SameChildren
  <2>3. ASSUME NEW k \in Slot, NEW e, e.pid = pid, pid \in Pid, jobs' = [jobs EXCEPT ![k] = e]
        PROVE  ChildInv'
    <3>1. proc[pid] # "none" /\ \A i \in Slot : jobs[i].pid # pid
      BY <2>1, <2>3 DEF ChildInv, OfPid
    <3>2. jobs'[k].pid = pid /\ \A i \in Slot : i # k => jobs'[i] = jobs[i]
      BY <2>3 DEF Typed, TypeOK
    <3> QED
      BY <2>1, <3>1, <3>2 DEF ChildInv, EntryHasChild
  <2>4. ASSUME NEW k \in Slot, NEW st,
               jobs' = [jobs EXCEPT ![k] = [pid |-> pid, jid |-> nextjid, state |-> st]],
               pid \in Pid
        PROVE  ChildInv'
    BY <2>3, <2>4
  <2> QED
    BY <1>4, <2>2, <2>4, EvalAddEffect DEF Free
<1>5. CASE EvalUnblock \/ WaitCheck \/ WaitSleep \/ WaitTimeout
  <2>1. /\ UNCHANGED <<jobs, proc, hpc, hpid>>
        /\ pc' \notin {"block", "add"}
    BY <1>5 DEF EvalUnblock, WaitCheck, WaitSleep, WaitTimeout, ToPrompt
  <2> QED
    BY <2>1 DEF ChildInv, EntryHasChild
<1>6. CASE BgfgSetState
  <2>1. /\ UNCHANGED <<proc, hpc, hpid>> /\ pc' = "cont"
        /\ \A i \in Slot : jobs'[i].pid = jobs[i].pid
    BY <1>6 DEF BgfgSetState, Typed, TypeOK, Job
  <2> QED
    BY <2>1 DEF ChildInv, EntryHasChild
<1>7. CASE BgfgCont
  <2>1. UNCHANGED <<jobs, hpc, hpid>> /\ pc' \in {"prompt", "fgwait"}
    BY <1>7 DEF BgfgCont, ToPrompt
  <2>2. \A q \in Pid : proc'[q] = "none" <=> proc[q] = "none"
    BY <1>7, SendKeepsChildren DEF BgfgCont
  <2> QED
    BY <1>0, <2>1, <2>2 DEF Typed, TypeOK, Job, ChildInv, EntryHasChild
<1>8. CASE FgWait
  BY <1>8 DEF FgWait, ChildInv, EntryHasChild
<1>9. CASE Quit \/ DeliverQuit
  BY <1>0, <1>9, SameChildren DEF Quit, DeliverQuit
<1>10. ASSUME NEW s \in Handled, Deliver(s) PROVE ChildInv'
  <2>1. /\ UNCHANGED <<jobs, pid, proc, hpid>>
        /\ pc' = IF pc = "sleep" THEN "check" ELSE pc
        /\ \A i \in DOMAIN stack : stack[i] # s
        /\ hpc' = [hpc EXCEPT ![s] = IF s = "CHLD" THEN "reap" ELSE "read"]
    BY <1>10 DEF Deliver, Blocked
  <2>2. hpc["CHLD"] = "delete" => s # "CHLD"
    BY <1>0, <2>1 DEF HandlersNest
  <2> QED
    BY <1>0, <2>1, <2>2, SameChildren DEF Typed, TypeOK
<1>11. CASE ChldWait
  <2>0. /\ hpc["CHLD"] = "reap" /\ UNCHANGED <<jobs, pid, pc>>
        /\ pc \notin {"fork", "block", "add"}
    BY <1>0, <1>11 DEF ChldWait, AtHandler, HandlersNest
  <2>1. ASSUME NEW p \in Pid, ReapEnded(p) PROVE ChildInv'
    <3>1. /\ proc' = [proc EXCEPT ![p] = "none"]
          /\ hpc'["CHLD"] = "delete" /\ hpid'["CHLD"] = p
      BY <1>0, <2>1 DEF ReapEnded, HandlerAt, Typed, TypeOK
    <3> QED
      BY <2>0, <3>1 DEF Typed, TypeOK, Job, ChildInv, EntryHasChild
  <2>2. CASE proc' = proc
    BY <1>0, <2>0, <2>2, SameChildren
  <2> QED
    BY <1>11, <2>1, <2>2 DEF ChldWait, ReapStopped
<1>12. CASE ChldDelete
  <2>1. /\ hpc["CHLD"] = "delete" /\ hpid["CHLD"] \in Pid
        /\ UNCHANGED <<pc, pid, proc>>
        /\ pc \notin {"fork", "block", "add"}
    BY <1>0, <1>12 DEF ChldDelete, AtHandler, HandlersNest
  <2>2. CASE jobs' = jobs /\ \A i \in Slot : jobs[i].pid # hpid["CHLD"]
    BY <2>1, <2>2 DEF ChildInv, EntryHasChild
  <2>3. ASSUME NEW k \in Slot, jobs[k].pid = hpid["CHLD"],
               jobs' = [jobs EXCEPT ![k] = clearjob]
        PROVE  ChildInv'
    <3>1. /\ jobs'[k].pid = NoPid
          /\ \A i \in Slot : i # k => jobs'[i] = jobs[i] /\ jobs[i].pid # hpid["CHLD"]
      BY <2>1, <2>3, PidAssumption DEF Typed, TypeOK, clearjob, ChildInv, EntryHasChild
    <3> QED
      BY <2>1, <3>1 DEF ChildInv, EntryHasChild
  <2> QED
    BY <1>12, <2>1, <2>2, <2>3, ChldDeleteEffect
<1>13. CASE ChldStopped
  <2>1. /\ hpc["CHLD"] = "stopped" /\ UNCHANGED <<pid, proc>>
        /\ pc' \in {pc, "crashed"} /\ pc \notin {"fork", "block", "add"}
        /\ \A i \in Slot : jobs'[i].pid = jobs[i].pid
    BY <1>0, <1>13, ChldStoppedEffect
       DEF ChldStopped, AtHandler, HandlersNest, Typed, TypeOK, Job
  <2> QED
    BY <2>1 DEF ChildInv, EntryHasChild
<1>14. ASSUME NEW s \in {"INT", "TSTP"}, FwdRead(s) \/ FwdKill(s) PROVE ChildInv'
  <2>1. UNCHANGED <<jobs, pid, pc>>
    BY <1>14 DEF FwdRead, FwdKill
  <2>2. hpc'["CHLD"] = hpc["CHLD"] /\ hpid'["CHLD"] = hpid["CHLD"]
    BY <1>0, <1>14 DEF FwdRead, FwdKill, Return, HandlerAt, Typed, TypeOK
  <2>3. \A q \in Pid : proc'[q] = "none" <=> proc[q] = "none"
    BY <1>14, SendKeepsChildren DEF FwdRead, FwdKill
  <2> QED
    BY <1>0, <2>1, <2>2, <2>3, SameChildren
<1>15. ASSUME NEW p \in Pid, Exec(p) \/ Die(p) \/ SelfStop(p) PROVE ChildInv'
  <2>1. UNCHANGED <<jobs, pid, pc, hpc, hpid>>
    BY <1>15 DEF Exec, Die, SelfStop
  <2>2. \A q \in Pid : proc[q] # "none" => proc'[q] # "none"
    BY <1>15 DEF Exec, Die, SelfStop, Ends, Stops, Typed, TypeOK
  <2> QED
    BY <1>0, <2>1, <2>2, SameChildren
<1>16. ASSUME NEW s \in Sig \ {"CHLD"}, Key(s) PROVE ChildInv'
  BY <1>0, <1>16, SameChildren DEF Key
<1>17. CASE UNCHANGED vars
  BY <1>0, <1>17, SameChildren DEF vars
<1> QED
  BY <1>1, <1>2, <1>3, <1>4, <1>5, <1>6, <1>7, <1>8, <1>9, <1>10, <1>11, <1>12,
     <1>13, <1>14, <1>15, <1>16, <1>17
     DEF Next, MainStep, ReadCommand, HandlerStep, Delivery, Environment

\* Every entry of the job list is a child's, and a child has one entry.
THEOREM EntriesCorrect == Spec => []EntryHasChild
<1>1. ChildInv => EntryHasChild
  BY DEF ChildInv
<1> QED
  BY <1>1, InitTyped, InitHandlersNest, InitChildren,
     NextTyped, NextHandlersNest, NextChildren, PTL DEF Spec

-----------------------------------------------------------------------------
(***************************************************************************)
(* The signals of the keyboard.                                             *)
(***************************************************************************)
KeysInv == Typed /\ HandlersNest /\ ChildInv /\ KeysSpareBackground

\* While a keyboard handler is between its fgpid and its kill, main is not
\* running, and the other handlers only stop jobs and delete them.
LEMMA NextKeys == KeysInv /\ [Next]_vars => KeysSpareBackground'
<1> SUFFICES ASSUME KeysInv, [Next]_vars PROVE KeysSpareBackground'
  OBVIOUS
<1> USE DEF table, main, hands, kernel, bounds, KeysInv
<1>0. /\ Handled = {"CHLD", "INT", "TSTP"}
      /\ "INT" \in Handled /\ "TSTP" \in Handled
  BY DEF Handled, Sig
<1>1. CASE MainStep \/ ReadCommand \/ Quit
  <2>1. stack = <<>> /\ hpc' = hpc
    BY <1>1 DEF MainStep, ReadCommand, Quit, EvalStart, EvalFork, EvalBlock, EvalAdd,
         EvalUnblock, WaitCheck, WaitSleep, WaitTimeout, BgfgFind, BgfgSetState, BgfgCont,
         FgWait, Read, AtMain
  <2>2. \A s \in Handled : hpc'[s] = "idle"
    BY <2>1, MainAlone
  <2> QED
    BY <1>0, <2>2 DEF KeysSpareBackground
<1>2. CASE DeliverQuit \/ Environment
  <2>1. UNCHANGED <<jobs, hpc, hpid>>
    BY <1>2 DEF DeliverQuit, Environment, Exec, Die, SelfStop, Key
  <2> QED
    BY <2>1 DEF KeysSpareBackground
<1>3. ASSUME NEW s \in Handled, Deliver(s) PROVE KeysSpareBackground'
  BY <1>0, <1>3 DEF Deliver, Typed, TypeOK, KeysSpareBackground
<1>4. CASE ChldWait
  <2>1. /\ jobs' = jobs
        /\ \A s \in {"INT", "TSTP"} : hpc'[s] = hpc[s] /\ hpid'[s] = hpid[s]
    BY <1>0, <1>4 DEF ChldWait, ReapEnded, ReapStopped, HandlerAt, Return, Typed, TypeOK
  <2> QED
    BY <2>1 DEF KeysSpareBackground
<1>5. CASE ChldDelete \/ ChldStopped
  <2>1. \A s \in {"INT", "TSTP"} : hpc'[s] = hpc[s] /\ hpid'[s] = hpid[s]
    BY <1>0, <1>5 DEF ChldDelete, ChldStopped, HandlerAt, Typed, TypeOK
  <2>2. CASE jobs' = jobs
    BY <2>1, <2>2 DEF KeysSpareBackground
  <2>3. ASSUME NEW k \in Slot, \/ jobs' = [jobs EXCEPT ![k] = clearjob]
                               \/ jobs' = [jobs EXCEPT ![k].state = "ST"]
        PROVE  KeysSpareBackground'
    <3>1. /\ jobs'[k].state # "BG"
          /\ \A i \in Slot : i # k => jobs'[i] = jobs[i]
      BY <2>3 DEF Typed, TypeOK, Job, clearjob
    <3> QED
      BY <2>1, <3>1 DEF KeysSpareBackground
  <2> QED
    BY <1>5, <2>2, <2>3, ChldDeleteEffect, ChldStoppedEffect
<1>6. ASSUME NEW s \in {"INT", "TSTP"}, FwdRead(s) PROVE KeysSpareBackground'
  <2>1. CASE Return(s)
    BY <1>0, <1>6, <2>1 DEF FwdRead, Return, Typed, TypeOK, KeysSpareBackground
  <2>2. CASE fgpid(jobs) # NoPid /\ HandlerAt(s, "kill", fgpid(jobs))
    <3>1. PICK k \in Slot : jobs[k].state = "FG" /\ fgpid(jobs) = jobs[k].pid
      BY <2>2, fgpidFinds DEF InState
    <3>2. \A i \in Slot : jobs[i].pid = fgpid(jobs) => i = k
      BY <2>2, <3>1 DEF ChildInv, EntryHasChild
    <3>3. /\ jobs' = jobs /\ hpid'[s] = fgpid(jobs)
          /\ \A t \in {"INT", "TSTP"} : t # s => hpc'[t] = hpc[t] /\ hpid'[t] = hpid[t]
      BY <1>0, <1>6, <2>2 DEF FwdRead, HandlerAt, Typed, TypeOK
    <3> QED
      BY <3>1, <3>2, <3>3 DEF KeysSpareBackground
  <2> QED
    BY <1>6, <2>1, <2>2 DEF FwdRead
<1>7. ASSUME NEW s \in {"INT", "TSTP"}, FwdKill(s) PROVE KeysSpareBackground'
  BY <1>0, <1>7 DEF FwdKill, Return, Typed, TypeOK, KeysSpareBackground
<1>8. CASE UNCHANGED vars
  BY <1>8 DEF vars, KeysSpareBackground
<1> QED
  BY <1>1, <1>2, <1>3, <1>4, <1>5, <1>6, <1>7, <1>8 DEF Next, HandlerStep, Delivery

\* ctrl-c and ctrl-z never signal a background job.
THEOREM KeysCorrect == Spec => []KeysSpareBackground
<1>1. Init => KeysSpareBackground
  BY DEF Init, KeysSpareBackground, Handled, Sig
<1>2. Init => KeysInv
  BY <1>1, InitTyped, InitHandlersNest, InitChildren DEF KeysInv
<1>3. KeysInv /\ [Next]_vars => KeysInv'
  BY NextTyped, NextHandlersNest, NextChildren, NextKeys DEF KeysInv
<1>4. KeysInv => KeysSpareBackground
  BY DEF KeysInv
<1> QED
  BY <1>2, <1>3, <1>4, PTL DEF Spec

-----------------------------------------------------------------------------
(***************************************************************************)
(* The tiny shell implements job control: under the refinement mapping      *)
(* state <- ListedState every behaviour of Tsh is one of JobControl.  Only  *)
(* four actions move the mapped state: addjob in eval starts a job,         *)
(* deletejob in sigchld_handler finishes one, the same handler stops one,   *)
(* and do_bgfg moves one to the background or the foreground; every other   *)
(* step is a stutter.                                                       *)
(***************************************************************************)

OneEntry(J, p) == \A i, k \in Slot : J[i].pid = p /\ J[k].pid = p => i = k

\* The listed state of a process is that of its entry, if it has one.
LEMMA ListedEntry ==
  ASSUME NEW J \in [Slot -> Job], NEW p \in Pid,
         OneEntry(J, p)
  PROVE  /\ \A i \in Slot : J[i].pid = p => Listed(J)[p] = J[i].state
         /\ (\A i \in Slot : J[i].pid # p) => Listed(J)[p] = "none"
BY getjobpidFinds, NullIsNoSlot DEF Listed, OneEntry

\* Entries of other processes do not matter.
LEMMA ListedSame ==
  ASSUME NEW J \in [Slot -> Job], NEW K \in [Slot -> Job], NEW p \in Pid,
         OneEntry(J, p),
         \A i \in Slot : J[i].pid = p \/ K[i].pid = p => K[i] = J[i]
  PROVE  Listed(K)[p] = Listed(J)[p]
<1>1. OneEntry(K, p)
  BY DEF OneEntry
<1>2. CASE \A i \in Slot : J[i].pid # p
  <2>1. \A i \in Slot : K[i].pid # p
    BY <1>2
  <2>2. Listed(K)[p] = "none"
    BY <1>1, <2>1, ListedEntry
  <2>3. Listed(J)[p] = "none"
    BY <1>2, ListedEntry
  <2> QED
    BY <2>2, <2>3
<1>3. ASSUME NEW i \in Slot, J[i].pid = p PROVE Listed(K)[p] = Listed(J)[p]
  <2>1. K[i] = J[i]
    BY <1>3
  <2>2. Listed(J)[p] = J[i].state
    BY <1>3, ListedEntry
  <2>3. Listed(K)[p] = K[i].state
    BY <1>1, <1>3, <2>1, ListedEntry
  <2> QED
    BY <2>1, <2>2, <2>3
<1> QED
  BY <1>2, <1>3

RefInv == Typed /\ HandlersNest /\ ForegroundInv /\ ChildInv /\ JobsHaveState

LEMMA InitRefInv == Init => RefInv
<1>1. Init => JobsHaveState
  BY DEF Init, initjobs, clearjob, JobsHaveState
<1> QED
  BY <1>1, InitTyped, InitHandlersNest, InitForeground, InitChildren DEF RefInv

\* What a step makes of the job list, by the four actions that change it
LEMMA ListChanges ==
  ASSUME RefInv, [Next]_vars
  PROVE  \/ jobs' = jobs
         \/ EvalAdd
         \/ BgfgSetState
         \/ ChldDelete
         \/ ChldStopped
BY DEF Next, MainStep, ReadCommand, HandlerStep, Delivery, Environment, vars, table,
       EvalStart, EvalFork, EvalBlock, EvalUnblock, WaitCheck, WaitSleep, WaitTimeout,
       BgfgFind, BgfgCont, FgWait, Quit, Read, ToPrompt, Deliver, DeliverQuit, ChldWait,
       FwdRead, FwdKill, Exec, Die, SelfStop, Key

LEMMA NextRefInv == RefInv /\ [Next]_vars => RefInv'
<1> SUFFICES ASSUME RefInv, [Next]_vars PROVE JobsHaveState'
  BY NextTyped, NextHandlersNest, NextForeground, NextChildren DEF RefInv
<1> USE DEF RefInv, JobsHaveState
<1>1. CASE jobs' = jobs
  BY <1>1
<1>2. CASE EvalAdd
  <2>1. CASE jobs' = jobs
    BY <2>1
  <2>2. ASSUME NEW k \in Slot,
               jobs' = [jobs EXCEPT ![k] = [pid |-> pid, jid |-> nextjid,
                                            state |-> IF bg THEN "BG" ELSE "FG"]]
        PROVE  JobsHaveState'
    <3>1. /\ jobs'[k].state # "UNDEF"
          /\ \A i \in Slot : i # k => jobs'[i] = jobs[i]
      BY <2>2 DEF Typed, TypeOK
    <3> QED
      BY <3>1
  <2> QED
    BY <1>2, <2>1, <2>2, EvalAddEffect DEF Free
<1>3. CASE BgfgSetState
  <2>1. \A i \in Slot : /\ jobs'[i].pid = jobs[i].pid
                        /\ jobs'[i].state \in {jobs[i].state, "BG", "FG"}
    BY <1>3 DEF BgfgSetState, Typed, TypeOK, Job
  <2> QED
    BY <2>1
<1>4. CASE ChldDelete \/ ChldStopped
  <2>1. ASSUME NEW k \in Slot, \/ jobs' = [jobs EXCEPT ![k] = clearjob]
                               \/ jobs' = [jobs EXCEPT ![k].state = "ST"]
        PROVE  JobsHaveState'
    <3>1. /\ jobs'[k].pid = NoPid \/ jobs'[k].state = "ST"
          /\ \A i \in Slot : i # k => jobs'[i] = jobs[i]
      BY <2>1 DEF Typed, TypeOK, Job, clearjob
    <3> QED
      BY <3>1
  <2> QED
    BY <1>1, <1>4, <2>1, ChldDeleteEffect, ChldStoppedEffect
<1> QED
  BY <1>1, <1>2, <1>3, <1>4, ListChanges

-----------------------------------------------------------------------------
\* With a free entry there are fewer than MAXJOBS jobs.
LEMMA RoomForJob ==
  ASSUME RefInv, NEW k \in Slot, jobs[k].pid = NoPid
  PROVE  JC!Cardinality(JC!Jobs) < MAXJOBS
<1> USE DEF RefInv
<1> DEFINE S == {i \in Slot : jobs[i].pid # NoPid}
           f == [i \in S |-> jobs[i].pid]
<1>1. /\ IsFiniteSet(Slot \ {k}) /\ Cardinality(Slot \ {k}) = MAXJOBS - 1
      /\ IsFiniteSet(Slot)
  <2>1. IsFiniteSet(Slot) /\ Cardinality(Slot) = MAXJOBS
    BY MAXJOBSAssumption, FS_Interval DEF Slot
  <2> QED
    BY <2>1, FS_RemoveElement
<1>2. S \in SUBSET (Slot \ {k})
  OBVIOUS
<1>3. IsFiniteSet(S) /\ Cardinality(S) <= MAXJOBS - 1
  BY <1>1, <1>2, FS_Subset
<1>4. \A p \in JC!Jobs : \E i \in S : f[i] = p
  <2> SUFFICES ASSUME NEW p \in Pid, Listed(jobs)[p] # "none" PROVE \E i \in S : f[i] = p
    BY DEF JC!Jobs, ListedState
  <2>1. \E i \in Slot : jobs[i].pid = p
    BY getjobpidFinds DEF Listed
  <2> QED
    BY <2>1, PidAssumption
<1>5. \A i \in S : f[i] \in JC!Jobs
  <2> SUFFICES ASSUME NEW i \in S PROVE f[i] \in Pid /\ Listed(jobs)[f[i]] # "none"
    BY DEF JC!Jobs, ListedState
  <2>1. f[i] \in Pid /\ jobs[i].state # "none"
    BY PidAssumption DEF Typed, TypeOK, Job, JobState
  <2>2. OneEntry(jobs, f[i])
    BY DEF ChildInv, EntryHasChild, OneEntry
  <2>3. Listed(jobs)[f[i]] = jobs[i].state
    BY <2>1, <2>2, ListedEntry DEF Typed, TypeOK
  <2> QED
    BY <2>1, <2>3
<1>6. f \in Surjection(S, JC!Jobs)
  BY <1>4, <1>5 DEF Surjection
<1>7. Cardinality(JC!Jobs) <= Cardinality(S) /\ IsFiniteSet(JC!Jobs)
  BY <1>3, <1>6, FS_Surjection
<1>8. Cardinality(JC!Jobs) \in Nat /\ Cardinality(S) \in Nat
  BY <1>3, <1>7, FS_CardinalityType
<1>9. JC!Cardinality(JC!Jobs) = Cardinality(JC!Jobs)
  BY DEF JC!Cardinality, Cardinality
<1> QED
  BY <1>3, <1>7, <1>8, <1>9, MAXJOBSAssumption

\* With no entry in the foreground there is no job in the foreground.
LEMMA NoForeground ==
  ASSUME RefInv, InState(jobs, "FG") = {}
  PROVE  JC!Foreground = {}
BY getjobpidFinds DEF JC!Foreground, ListedState, Listed, InState

\* A change of one entry, of a process that has no other, changes the state of
\* that process only.
Update(J, K, k, p, st) ==
  /\ \A i \in Slot : i # k => K[i] = J[i] /\ J[i].pid # p
  /\ J[k].pid \in {p, NoPid}
  /\ K[k].pid \in {p, NoPid}
  /\ st = IF K[k].pid = p THEN K[k].state ELSE "none"

LEMMA ListedUpdate ==
  ASSUME NEW J \in [Slot -> Job], NEW K \in [Slot -> Job], NEW k \in Slot,
         NEW p \in Pid, NEW st \in {"none", "FG", "BG", "ST"},
         \A q \in Pid : OneEntry(J, q), Update(J, K, k, p, st)
  PROVE  Listed(K) = [Listed(J) EXCEPT ![p] = st]
<1>1. Listed(K)[p] = st
  <2>0. p # NoPid
    BY PidAssumption
  <2>1. OneEntry(K, p)
    BY <2>0 DEF Update, OneEntry
  <2>2. CASE K[k].pid = p
    <3>1. Listed(K)[p] = K[k].state
      BY <2>1, <2>2, ListedEntry
    <3> QED
      BY <2>2, <3>1 DEF Update
  <2>3. CASE K[k].pid # p
    <3>1. \A i \in Slot : K[i].pid # p
      BY <2>3 DEF Update
    <3>2. Listed(K)[p] = "none"
      BY <2>1, <3>1, ListedEntry
    <3> QED
      BY <2>3, <3>2 DEF Update
  <2> QED
    BY <2>2, <2>3
<1>2. ASSUME NEW q \in Pid, q # p PROVE Listed(K)[q] = Listed(J)[q]
  <2>1. \A i \in Slot : J[i].pid = q \/ K[i].pid = q => K[i] = J[i]
    BY <1>2, PidAssumption DEF Update
  <2> QED
    BY <2>1, ListedSame
<1> QED
  BY <1>1, <1>2, Zenon DEF Listed

-----------------------------------------------------------------------------
\* Every step of the shell is a step of job control, or none.
LEMMA Simulation == RefInv /\ RefInv' /\ [Next]_vars => [JC!Next]_ListedState
<1> SUFFICES ASSUME RefInv, RefInv', [Next]_vars,
                    ListedState' # ListedState
             PROVE  \E p \in Pid : \/ JC!Start(p) \/ JC!Stop(p) \/ JC!Background(p)
                                   \/ JC!ToForeground(p) \/ JC!Finish(p)
  BY DEF JC!Next
<1>0. /\ jobs \in [Slot -> Job] /\ jobs' \in [Slot -> Job]
      /\ ListedState = Listed(jobs) /\ ListedState' = Listed(jobs')
      /\ \A i, k \in Slot : jobs[i].pid = jobs[k].pid /\ jobs[i].pid # NoPid => i = k
      /\ \A q \in Pid : OneEntry(jobs, q)
      /\ \A i \in Slot : jobs[i].pid # NoPid =>
           jobs[i].pid \in Pid /\ jobs[i].state \in {"FG", "BG", "ST"}
  <2>1. jobs \in [Slot -> Job] /\ jobs' \in [Slot -> Job]
    BY DEF RefInv, Typed, TypeOK
  <2>2. ListedState = Listed(jobs) /\ ListedState' = Listed(jobs')
    BY DEF ListedState
  <2>3. \A i, k \in Slot : jobs[i].pid = jobs[k].pid /\ jobs[i].pid # NoPid => i = k
    BY DEF RefInv, ChildInv, EntryHasChild
  <2>4. \A q \in Pid : OneEntry(jobs, q)
    BY <2>3, PidAssumption DEF OneEntry
  <2>5. \A i \in Slot : jobs[i].pid # NoPid =>
          jobs[i].pid \in Pid /\ jobs[i].state \in {"FG", "BG", "ST"}
    BY <2>1 DEF RefInv, JobsHaveState, Job, JobState
  <2> QED
    BY <2>1, <2>2, <2>3, <2>4, <2>5
<1>1. jobs' # jobs
  BY <1>0
<1>2. CASE EvalAdd
  <2>1. PICK k \in Free(jobs) :
          jobs' = [jobs EXCEPT ![k] = [pid |-> pid, jid |-> nextjid,
                                       state |-> IF bg THEN "BG" ELSE "FG"]]
        /\ pid \in Pid
    BY <1>1, <1>2, EvalAddEffect DEF RefInv
  <2>0. PICK st \in {"BG", "FG"} : st = IF bg THEN "BG" ELSE "FG"
    OBVIOUS
  <2>2. /\ k \in Slot /\ jobs[k].pid = NoPid
        /\ jobs'[k].pid = pid /\ jobs'[k].state = st
        /\ \A i \in Slot : i # k => jobs'[i] = jobs[i]
    BY <1>0, <2>0, <2>1 DEF Free
  <2>3. /\ \A i \in Slot : jobs[i].pid # pid
        /\ InState(jobs, "FG") = {}
    BY <1>2, <2>1 DEF EvalAdd, AtMain, RefInv, ChildInv, ForegroundInv, OfPid
  <2>4. Listed(jobs') = [Listed(jobs) EXCEPT ![pid] = st]
    <3>1. Update(jobs, jobs', k, pid, st)
      BY <2>2, <2>3 DEF Update
    <3>2. pid \in Pid /\ k \in Slot /\ st \in {"none", "FG", "BG", "ST"}
      BY <2>1, <2>2
    <3>3. /\ jobs \in [Slot -> Job] /\ jobs' \in [Slot -> Job]
          /\ \A q \in Pid : OneEntry(jobs, q)
      BY <1>0
    <3> QED
      BY <3>1, <3>2, <3>3, ListedUpdate
  <2>5. Listed(jobs)[pid] = "none"
    BY <1>0, <2>1, <2>3, ListedEntry
  <2>6. JC!Cardinality(JC!Jobs) < MAXJOBS
    BY <2>2, RoomForJob
  <2>7. JC!Foreground = {}
    BY <2>3, NoForeground
  <2>8. JC!Start(pid)
    <3>1. ListedState[pid] = "none" /\ ListedState' = [ListedState EXCEPT ![pid] = st]
      BY <1>0, <2>4, <2>5
    <3>2. CASE st = "BG"
      BY <2>6, <3>1, <3>2 DEF JC!Start, JC!Move
    <3>3. CASE st = "FG"
      BY <2>6, <2>7, <3>1, <3>3 DEF JC!Start, JC!Move
    <3> QED
      BY <2>0, <3>2, <3>3
  <2> QED
    BY <2>1, <2>8
<1>3. CASE BgfgSetState
  <2>1. /\ jobs' = [jobs EXCEPT ![job].state = IF bg THEN "BG" ELSE "FG"]
        /\ job \in Slot /\ InState(jobs, "FG") = {}
    BY <1>3 DEF BgfgSetState, AtMain, RefInv, Typed, JobNamed, ForegroundInv
  <2>0. PICK st \in {"BG", "FG"} : st = IF bg THEN "BG" ELSE "FG"
    OBVIOUS
  <2> DEFINE p == jobs[job].pid
  <2>2. /\ jobs'[job].pid = p /\ jobs'[job].state = st
        /\ \A i \in Slot : i # job => jobs'[i] = jobs[i]
    BY <1>0, <2>0, <2>1 DEF Job
  <2>3. CASE p = NoPid
    <3>1. ASSUME NEW q \in Pid PROVE Listed(jobs')[q] = Listed(jobs)[q]
      <4>1. \A i \in Slot : jobs[i].pid = q \/ jobs'[i].pid = q => jobs'[i] = jobs[i]
        BY <2>2, <2>3, PidAssumption
      <4> QED
        BY <1>0, <4>1, ListedSame
    <3>2. Listed(jobs') = Listed(jobs)
      BY <3>1, Zenon DEF Listed
    <3> QED
      BY <1>0, <3>2
  <2>4. CASE p # NoPid
    <3>1. p \in Pid /\ jobs[job].state \in {"BG", "ST"}
      BY <1>0, <2>1, <2>4 DEF InState
    <3>2. Listed(jobs)[p] = jobs[job].state
      BY <1>0, <2>1, <3>1, ListedEntry
    <3>3. Listed(jobs') = [Listed(jobs) EXCEPT ![p] = st]
      <4>1. Update(jobs, jobs', job, p, st)
        BY <1>0, <2>1, <2>2, <2>4 DEF Update
      <4> HIDE DEF p
      <4>2. p \in Pid /\ job \in Slot /\ st \in {"none", "FG", "BG", "ST"}
        BY <2>1, <3>1
      <4>3. /\ jobs \in [Slot -> Job] /\ jobs' \in [Slot -> Job]
            /\ \A q \in Pid : OneEntry(jobs, q)
        BY <1>0
      <4> QED
        BY <4>1, <4>2, <4>3, ListedUpdate
    <3>4. JC!Foreground = {}
      BY <2>1, NoForeground
    <3> HIDE DEF p
    <3>6. CASE st = "FG"
      BY <1>0, <3>1, <3>2, <3>3, <3>4, <3>6 DEF JC!ToForeground, JC!Move
    <3>7. CASE st = "BG" /\ jobs[job].state = "ST"
      BY <1>0, <3>1, <3>2, <3>3, <3>7 DEF JC!Background, JC!Move
    <3>8. CASE st = "BG" /\ jobs[job].state = "BG"
      <4>1. [Listed(jobs) EXCEPT ![p] = st] = Listed(jobs)
        BY <3>2, <3>8 DEF Listed
      <4> QED
        BY <1>0, <3>3, <4>1
    <3> QED
      BY <2>0, <3>1, <3>6, <3>7, <3>8
  <2> QED
    BY <2>3, <2>4
<1>4. CASE ChldDelete
  <2> DEFINE p == hpid["CHLD"]
  <2>1. p \in Pid
    BY <1>4 DEF ChldDelete, AtHandler, RefInv, HandlersNest, Handled, Sig
  <2>2. PICK k \in Slot : jobs[k].pid = p /\ jobs' = [jobs EXCEPT ![k] = clearjob]
    BY <1>1, <1>4, ChldDeleteEffect DEF RefInv
  <2> HIDE DEF p
  <2>3. /\ jobs'[k].pid = NoPid
        /\ \A i \in Slot : i # k => jobs'[i] = jobs[i] /\ jobs[i].pid # p
    BY <1>0, <2>1, <2>2, PidAssumption DEF clearjob
  <2>4. Listed(jobs') = [Listed(jobs) EXCEPT ![p] = "none"]
    <3>1. Update(jobs, jobs', k, p, "none")
      BY <2>1, <2>2, <2>3, PidAssumption DEF Update
    <3> QED
      BY <1>0, <2>1, <2>3, <3>1, ListedUpdate
  <2>5. Listed(jobs)[p] \in {"FG", "BG", "ST"}
    BY <1>0, <2>1, <2>2, PidAssumption, ListedEntry
  <2>6. JC!Finish(p)
    BY <1>0, <2>4, <2>5 DEF JC!Finish, JC!Move
  <2> QED
    BY <2>1, <2>6
<1>5. CASE ChldStopped
  <2>1. PICK k \in Slot : jobs[k].pid # NoPid /\ jobs' = [jobs EXCEPT ![k].state = "ST"]
    BY <1>1, <1>5, ChldStoppedEffect DEF RefInv
  <2> DEFINE p == jobs[k].pid
  <2>2. p \in Pid /\ jobs[k].state \in {"FG", "BG", "ST"}
    BY <1>0, <2>1
  <2>3. /\ jobs'[k].pid = p /\ jobs'[k].state = "ST"
        /\ \A i \in Slot : i # k => jobs'[i] = jobs[i] /\ jobs[i].pid # p
    BY <1>0, <2>1 DEF Job
  <2>4. Listed(jobs)[p] = jobs[k].state
    BY <1>0, <2>2, ListedEntry
  <2> HIDE DEF p
  <2>5. Listed(jobs') = [Listed(jobs) EXCEPT ![p] = "ST"]
    <3>1. Update(jobs, jobs', k, p, "ST")
      BY <2>3 DEF Update, p
    <3> QED
      BY <1>0, <2>2, <2>3, <3>1, ListedUpdate
  <2>6. CASE jobs[k].state = "ST"
    <3>1. [Listed(jobs) EXCEPT ![p] = "ST"] = Listed(jobs)
      BY <2>4, <2>6 DEF Listed
    <3> QED
      BY <1>0, <2>5, <3>1
  <2>7. CASE jobs[k].state # "ST"
    <3>1. JC!Stop(p)
      BY <1>0, <2>2, <2>4, <2>5, <2>7 DEF JC!Stop, JC!Move
    <3> QED
      BY <2>2, <3>1
  <2> QED
    BY <2>6, <2>7
<1> QED
  BY <1>1, <1>2, <1>3, <1>4, <1>5, ListChanges

\* The shell implements JobControl.
THEOREM Refinement == Spec => ImplementsJobControl
<1>1. Init => JC!Init
  <2> SUFFICES ASSUME Init PROVE \A p \in Pid : Listed(jobs)[p] = "none"
    BY Zenon DEF JC!Init, ListedState, Listed
  <2>1. \A i \in Slot : jobs[i].pid = NoPid
    BY DEF Init, initjobs, clearjob
  <2> QED
    BY <2>1, PidAssumption, getjobpidFinds DEF Listed
<1>2. Init => RefInv
  BY InitRefInv
<1>3. RefInv /\ [Next]_vars => RefInv'
  BY NextRefInv
<1>4. RefInv /\ RefInv' /\ [Next]_vars => [JC!Next]_ListedState
  BY Simulation
<1> QED
  BY <1>1, <1>2, <1>3, <1>4, PTL DEF Spec, ImplementsJobControl, JC!Spec

-----------------------------------------------------------------------------
(***************************************************************************)
(* Stopped children.  What StopIsListed needs besides the invariants above: *)
(* eval's child has not been reported before it is on the list, for SIGCHLD *)
(* is blocked until then.                                                   *)
(***************************************************************************)
Halted(p) == proc[p] \in {"stopped", "doomed"}

NewbornUnreported ==
  pc \in {"block", "add"} /\ pid \in Pid /\ Halted(pid) => pid \in unreported

StopInv == StopIsListed /\ NewbornUnreported

\* A signal halts no child without leaving it to be reported.
LEMMA SendReports ==
  ASSUME Typed, NEW s \in {"CONT", "INT", "TSTP"}, NEW p, Send(s, p)
  PROVE  \A q \in Pid : Halted(q)' /\ q \notin unreported' =>
                          /\ Halted(q) /\ q \notin unreported
                          /\ ~(s = "CONT" /\ q = p)
<1> USE DEF Typed, TypeOK, Halted
<1>1. CASE s = "CONT" /\ p \in Pid /\ proc[p] = "stopped"
  BY <1>1 DEF Send
<1>2. CASE s = "CONT" /\ p \in Pid /\ proc[p] = "doomed"
  BY <1>2 DEF Send, Ends
<1>3. CASE s = "INT" /\ p \in Pid /\ proc[p] = "running"
  BY <1>3 DEF Send, Ends
<1>4. CASE s = "INT" /\ p \in Pid /\ proc[p] = "stopped"
  BY <1>4 DEF Send
<1>5. CASE s = "TSTP" /\ p \in Pid /\ proc[p] = "running"
  BY <1>5 DEF Send, Stops
<1>6. CASE /\ ~(s = "CONT" /\ p \in Pid /\ proc[p] = "stopped")
           /\ ~(s = "CONT" /\ p \in Pid /\ proc[p] = "doomed")
           /\ ~(s = "INT" /\ p \in Pid /\ proc[p] = "running")
           /\ ~(s = "INT" /\ p \in Pid /\ proc[p] = "stopped")
           /\ ~(s = "TSTP" /\ p \in Pid /\ proc[p] = "running")
  BY <1>6 DEF Send, kernel
<1> QED
  BY <1>1, <1>2, <1>3, <1>4, <1>5, <1>6

\* StopInv survives a step that changes neither the list nor the SIGCHLD
\* handler, halts no child unreported, and does not move main from "cont".
LEMMA SameStops ==
  ASSUME Typed, Typed', StopInv, jobs' = jobs,
         \A q \in Pid : Halted(q)' /\ q \notin unreported' => Halted(q) /\ q \notin unreported,
         hpc["CHLD"] = "stopped" => hpc'["CHLD"] = "stopped" /\ hpid'["CHLD"] = hpid["CHLD"],
         Alive' => Alive,
         pc = "cont" /\ Alive' => pc' = "cont" /\ job' = job,
         pc' \in {"block", "add"} => pc \in {"block", "add"} /\ pid' = pid
  PROVE  StopInv'
<1>1. NewbornUnreported'
  BY DEF StopInv, NewbornUnreported
<1>2. StopIsListed'
  <2> SUFFICES ASSUME NEW i \in Slot, Alive', jobs[i].pid # NoPid,
                      Halted(jobs[i].pid)', jobs[i].pid \notin unreported'
               PROVE  \/ jobs[i].state = "ST"
                      \/ hpc'["CHLD"] = "stopped" /\ hpid'["CHLD"] = jobs[i].pid
                      \/ pc' = "cont" /\ job' = i
    BY DEF StopIsListed, Halted
  <2>1. jobs[i].pid \in Pid
    BY DEF Typed, TypeOK, Job
  <2>2. Alive /\ Halted(jobs[i].pid) /\ jobs[i].pid \notin unreported
    BY <2>1
  <2>3. \/ jobs[i].state = "ST"
        \/ hpc["CHLD"] = "stopped" /\ hpid["CHLD"] = jobs[i].pid
        \/ pc = "cont" /\ job = i
    BY <2>2 DEF StopInv, StopIsListed, Halted
  <2> QED
    BY <2>3
<1> QED
  BY <1>1, <1>2 DEF StopInv

LEMMA NextStops ==
  Typed /\ HandlersNest /\ ChildInv /\ StopInv /\ [Next]_vars => StopInv'
<1> SUFFICES ASSUME Typed, HandlersNest, ChildInv, StopInv, [Next]_vars PROVE StopInv'
  OBVIOUS
<1>0. /\ Handled = {"CHLD", "INT", "TSTP"}
      /\ "CHLD" \in Handled
      /\ Typed'
  BY NextTyped DEF Handled, Sig
<1> USE DEF table, main, hands, kernel, bounds, AtMain
<1>1. ASSUME NEW b \in BOOLEAN, EvalStart(b) \/ BgfgFind(b) PROVE StopInv'
  BY <1>0, <1>1, SameStops DEF EvalStart, BgfgFind, Read, Alive, Halted
<1>2. CASE EvalFork
  <2>1. UNCHANGED <<jobs, hpc, hpid, unreported>> /\ pc = "fork" /\ pc' = "block"
    BY <1>2 DEF EvalFork
  <2>2. ASSUME NEW p \in Pid, proc[p] = "none", pid' = p,
               proc' = [proc EXCEPT ![p] = "forked"]
        PROVE  StopInv'
    <3>1. \A q \in Pid : Halted(q)' => Halted(q) /\ q # p
      BY <2>2 DEF Typed, TypeOK, Halted
    <3>2. \A i \in Slot : jobs[i].pid \in Pid \cup {NoPid}
      BY DEF Typed, TypeOK, Job
    <3>3. NewbornUnreported'
      BY <2>1, <2>2, <3>1 DEF NewbornUnreported
    <3>4. StopIsListed'
      BY <2>1, <3>1, <3>2 DEF StopInv, StopIsListed, Alive, Halted
    <3> QED
      BY <3>3, <3>4 DEF StopInv
  <2>3. CASE pid' = ForkFailed /\ proc' = proc
    BY <2>1, <2>3, PidAssumption DEF StopInv, StopIsListed, NewbornUnreported, Alive
  <2> QED
    BY <1>2, <2>2, <2>3 DEF EvalFork
<1>3. CASE EvalBlock
  BY <1>0, <1>3, SameStops DEF EvalBlock, Alive, Halted
<1>4. CASE EvalAdd
  <2>1. /\ UNCHANGED <<pid, proc, hpc, hpid, job, unreported>>
        /\ pc = "add" /\ pc' = "unblock"
    BY <1>4 DEF EvalAdd
  <2>2. CASE jobs' = jobs
    BY <1>0, <2>1, <2>2, SameStops DEF Alive, Halted
  <2>3. ASSUME NEW k \in Slot, NEW e, e.pid = pid, pid \in Pid, jobs' = [jobs EXCEPT ![k] = e]
        PROVE  StopInv'
    <3>1. Halted(pid) => pid \in unreported
      BY <2>1, <2>3 DEF StopInv, NewbornUnreported
    <3>2. jobs'[k].pid = pid /\ \A i \in Slot : i # k => jobs'[i] = jobs[i]
      BY <2>3 DEF Typed, TypeOK
    <3> QED
      BY <2>1, <3>1, <3>2 DEF StopInv, StopIsListed, NewbornUnreported, Alive, Halted
  <2>4. ASSUME NEW k \in Slot, NEW st,
               jobs' = [jobs EXCEPT ![k] = [pid |-> pid, jid |-> nextjid, state |-> st]],
               pid \in Pid
        PROVE  StopInv'
    BY <2>3, <2>4
  <2> QED
    BY <1>4, <2>2, <2>4, EvalAddEffect DEF Free
<1>5. CASE EvalUnblock \/ WaitCheck \/ WaitSleep \/ WaitTimeout \/ FgWait
  <2>1. /\ UNCHANGED <<jobs, proc, hpc, hpid, unreported>>
        /\ pc \notin {"cont", "exit", "crashed"}
        /\ pc' \notin {"block", "add"}
    BY <1>5 DEF EvalUnblock, WaitCheck, WaitSleep, WaitTimeout, FgWait, ToPrompt
  <2> QED
    BY <1>0, <2>1, SameStops DEF Alive, Halted
<1>6. CASE BgfgSetState
  <2>1. /\ UNCHANGED <<proc, hpc, hpid, unreported, job>>
        /\ pc = "setstate" /\ pc' = "cont" /\ job \in Slot
        /\ \A i \in Slot : jobs'[i].pid = jobs[i].pid
        /\ \A i \in Slot : i # job => jobs'[i] = jobs[i]
    BY <1>6 DEF BgfgSetState, Typed, TypeOK, Job, JobNamed
  <2> QED
    BY <2>1 DEF StopInv, StopIsListed, NewbornUnreported, Alive
<1>7. CASE BgfgCont
  <2>1. UNCHANGED <<jobs, hpc, hpid>> /\ pc = "cont" /\ pc' \in {"prompt", "fgwait"}
    BY <1>7 DEF BgfgCont, ToPrompt
  <2>2. \A q \in Pid : Halted(q)' /\ q \notin unreported' =>
          Halted(q) /\ q \notin unreported /\ q # jobs[job].pid
    BY <1>7, SendReports DEF BgfgCont
  <2>3. job \in Slot /\ \A i \in Slot : jobs[i].pid \in Pid \cup {NoPid}
    BY <2>1 DEF Typed, TypeOK, JobNamed, Job
  <2>4. NewbornUnreported'
    BY <2>1 DEF NewbornUnreported
  <2>5. ASSUME NEW i \in Slot, jobs[i].pid # NoPid, Halted(jobs[i].pid)',
               jobs[i].pid \notin unreported'
        PROVE  \/ jobs[i].state = "ST"
               \/ hpc["CHLD"] = "stopped" /\ hpid["CHLD"] = jobs[i].pid
    <3>1. Alive /\ Halted(jobs[i].pid) /\ jobs[i].pid \notin unreported /\ job # i
      BY <2>1, <2>2, <2>3, <2>5 DEF Alive
    <3> QED
      BY <2>5, <3>1 DEF StopInv, StopIsListed, Halted
  <2>6. StopIsListed'
    BY <2>1, <2>5 DEF StopIsListed, Halted
  <2> QED
    BY <2>4, <2>6 DEF StopInv
<1>8. CASE Quit \/ DeliverQuit
  BY <1>8 DEF Quit, DeliverQuit, StopInv, StopIsListed, NewbornUnreported, Alive
<1>9. ASSUME NEW s \in Handled, Deliver(s) PROVE StopInv'
  <2>1. /\ UNCHANGED <<jobs, pid, job, proc, hpid, unreported>>
        /\ pc' = IF pc = "sleep" THEN "check" ELSE pc
        /\ \A i \in DOMAIN stack : stack[i] # s
        /\ hpc' = [hpc EXCEPT ![s] = IF s = "CHLD" THEN "reap" ELSE "read"]
    BY <1>9 DEF Deliver, Blocked
  <2>2. hpc["CHLD"] = "stopped" => s # "CHLD"
    BY <1>0, <2>1 DEF HandlersNest
  <2>3. hpc["CHLD"] = "stopped" => hpc'["CHLD"] = "stopped"
    BY <1>0, <2>1, <2>2 DEF Typed, TypeOK
  <2> QED
    BY <1>0, <2>1, <2>3, SameStops DEF Alive, Halted
<1>10. CASE ChldWait
  <2>0. /\ hpc["CHLD"] = "reap" /\ UNCHANGED <<jobs, pid, pc, job>>
        /\ pc \notin {"fork", "block", "add"}
    BY <1>0, <1>10 DEF ChldWait, AtHandler, HandlersNest
  <2>1. ASSUME NEW p \in Pid, ReapEnded(p) PROVE StopInv'
    <3>1. proc' = [proc EXCEPT ![p] = "none"] /\ unreported' = unreported
      BY <2>1 DEF ReapEnded
    <3>2. \A q \in Pid : Halted(q)' => Halted(q)
      BY <3>1 DEF Typed, TypeOK, Halted
    <3> QED
      BY <1>0, <2>0, <3>1, <3>2, SameStops DEF Alive
  <2>2. ASSUME NEW p \in Pid, ReapStopped(p) PROVE StopInv'
    <3>1. /\ proc' = proc /\ unreported' = unreported \ {p}
          /\ hpc'["CHLD"] = "stopped" /\ hpid'["CHLD"] = p
      BY <1>0, <2>2 DEF ReapStopped, HandlerAt, Typed, TypeOK
    <3> QED
      BY <2>0, <3>1 DEF StopInv, StopIsListed, NewbornUnreported, Alive
  <2>3. CASE UNCHANGED <<proc, unreported>>
    BY <1>0, <2>0, <2>3, SameStops DEF Alive, Halted
  <2> QED
    BY <1>10, <2>1, <2>2, <2>3 DEF ChldWait
<1>11. CASE ChldDelete
  <2>1. /\ hpc["CHLD"] = "delete"
        /\ UNCHANGED <<pc, pid, job, proc, unreported>>
    BY <1>11 DEF ChldDelete, AtHandler
  <2>2. CASE jobs' = jobs
    BY <1>0, <2>1, <2>2, SameStops DEF Alive, Halted
  <2>3. ASSUME NEW k \in Slot, jobs' = [jobs EXCEPT ![k] = clearjob]
        PROVE  StopInv'
    <3>1. /\ jobs'[k].pid = NoPid
          /\ \A i \in Slot : i # k => jobs'[i] = jobs[i]
      BY <2>3 DEF Typed, TypeOK, clearjob
    <3> QED
      BY <2>1, <3>1 DEF StopInv, StopIsListed, NewbornUnreported, Alive, Halted
  <2> QED
    BY <1>11, <2>2, <2>3, ChldDeleteEffect
<1>12. CASE ChldStopped
  <2>1. UNCHANGED <<pid, job, proc, unreported>>
    BY <1>12 DEF ChldStopped
  <2>2. CASE pc' = "crashed"
    BY <2>2 DEF StopInv, StopIsListed, NewbornUnreported, Alive
  <2>3. ASSUME pc' = pc,
               NEW k \in Slot, jobs[k].pid = hpid["CHLD"], jobs[k].pid # NoPid,
               jobs' = [jobs EXCEPT ![k].state = "ST"]
        PROVE  StopInv'
    <3>1. /\ jobs'[k].state = "ST"
          /\ \A i \in Slot : jobs'[i].pid = jobs[i].pid
          /\ \A i \in Slot : i # k => jobs'[i] = jobs[i] /\ jobs[i].pid # hpid["CHLD"]
      BY <2>3 DEF Typed, TypeOK, Job, ChildInv, EntryHasChild
    <3> QED
      BY <2>1, <2>3, <3>1 DEF StopInv, StopIsListed, NewbornUnreported, Alive, Halted
  <2> QED
    BY <1>12, <2>2, <2>3, ChldStoppedEffect
<1>13. ASSUME NEW s \in {"INT", "TSTP"}, FwdRead(s) \/ FwdKill(s) PROVE StopInv'
  <2>1. UNCHANGED <<jobs, pid, pc, job>>
    BY <1>13 DEF FwdRead, FwdKill
  <2>2. hpc'["CHLD"] = hpc["CHLD"] /\ hpid'["CHLD"] = hpid["CHLD"]
    BY <1>0, <1>13 DEF FwdRead, FwdKill, Return, HandlerAt, Typed, TypeOK
  <2>3. \A q \in Pid : Halted(q)' /\ q \notin unreported' => Halted(q) /\ q \notin unreported
    <3>1. CASE FwdRead(s)
      BY <3>1 DEF FwdRead, Halted
    <3>2. CASE FwdKill(s)
      BY <3>2, SendReports DEF FwdKill
    <3> QED
      BY <1>13, <3>1, <3>2
  <2> QED
    BY <1>0, <2>1, <2>2, <2>3, SameStops DEF Alive
<1>14. ASSUME NEW p \in Pid, Exec(p) \/ Die(p) \/ SelfStop(p) PROVE StopInv'
  <2>1. UNCHANGED <<jobs, pid, pc, job, hpc, hpid>>
    BY <1>14 DEF Exec, Die, SelfStop
  <2>2. \A q \in Pid : Halted(q)' /\ q \notin unreported' => Halted(q) /\ q \notin unreported
    BY <1>14 DEF Exec, Die, SelfStop, Ends, Stops, Typed, TypeOK, Halted
  <2> QED
    BY <1>0, <2>1, <2>2, SameStops DEF Alive
<1>15. ASSUME NEW s \in Sig \ {"CHLD"}, Key(s) PROVE StopInv'
  BY <1>0, <1>15, SameStops DEF Key, Alive, Halted
<1>16. CASE UNCHANGED vars
  BY <1>0, <1>16, SameStops DEF vars, Alive, Halted
<1> QED
  BY <1>1, <1>2, <1>3, <1>4, <1>5, <1>6, <1>7, <1>8, <1>9, <1>10, <1>11, <1>12,
     <1>13, <1>14, <1>15, <1>16
     DEF Next, MainStep, ReadCommand, HandlerStep, Delivery, Environment

\* The inductive invariant of the runs holds in every reachable state.
THEOREM InvariantHolds == Spec => []TshInv
<1>1. RefInv => TshInv
  BY DEF RefInv, TshInv, Typed
<1> QED
  BY <1>1, InitRefInv, NextRefInv, PTL DEF Spec

\* A child that waitpid has reported stopped is listed as stopped.
THEOREM StopsListed == Spec => []StopIsListed
<1>1. Init => StopInv
  BY DEF Init, initjobs, clearjob, StopInv, StopIsListed, NewbornUnreported
<1>2. RefInv /\ StopInv /\ [Next]_vars => StopInv'
  BY NextStops DEF RefInv
<1>3. StopInv => StopIsListed
  BY DEF StopInv
<1> QED
  BY <1>1, <1>2, <1>3, InitRefInv, NextRefInv, PTL DEF Spec

-----------------------------------------------------------------------------
(***************************************************************************)
(* Children that are on no entry, on a list of any length.  sigchld_handler *)
(* marks a child stopped that is not reaped, and deletes the job of one     *)
(* that is.                                                                 *)
(***************************************************************************)
ReportInv ==
  /\ hpc["CHLD"] = "stopped" => proc[hpid["CHLD"]] # "none"
  /\ hpc["CHLD"] = "delete" => proc[hpid["CHLD"]] = "none"
  /\ \A p \in unreported : Halted(p)

\* What UnlistedOnlyWhenFull says of a step
LosesWhenFull ==
  /\ \A p \in Unlisted' \ Unlisted : pc = "add" /\ pid = p /\ Free(jobs) = {}
  /\ pc # "crashed" /\ pc' = "crashed" => hpid["CHLD"] \in Unlisted

\* Signals do not report, reap or fork.
LEMMA SendListed ==
  ASSUME Typed, NEW s \in {"CONT", "INT", "TSTP"}, NEW p, Send(s, p),
         \A q \in unreported : Halted(q)
  PROVE  \A q \in unreported' : Halted(q)'
<1> USE DEF Typed, TypeOK, Halted
<1>1. CASE s = "CONT" /\ p \in Pid /\ proc[p] = "stopped"
  BY <1>1 DEF Send
<1>2. CASE s = "CONT" /\ p \in Pid /\ proc[p] = "doomed"
  BY <1>2 DEF Send, Ends
<1>3. CASE s = "INT" /\ p \in Pid /\ proc[p] = "running"
  BY <1>3 DEF Send, Ends
<1>4. CASE s = "INT" /\ p \in Pid /\ proc[p] = "stopped"
  BY <1>4 DEF Send
<1>5. CASE s = "TSTP" /\ p \in Pid /\ proc[p] = "running"
  BY <1>5 DEF Send, Stops
<1>6. CASE /\ ~(s = "CONT" /\ p \in Pid /\ proc[p] = "stopped")
           /\ ~(s = "CONT" /\ p \in Pid /\ proc[p] = "doomed")
           /\ ~(s = "INT" /\ p \in Pid /\ proc[p] = "running")
           /\ ~(s = "INT" /\ p \in Pid /\ proc[p] = "stopped")
           /\ ~(s = "TSTP" /\ p \in Pid /\ proc[p] = "running")
  BY <1>6 DEF Send, kernel
<1> QED
  BY <1>1, <1>2, <1>3, <1>4, <1>5, <1>6

\* A step loses no child that takes none off the list, makes none, keeps what
\* eval has just forked, and does not move the SIGCHLD handler but to or from "reap".
LEMMA SameListed ==
  ASSUME RefInv, ReportInv,
         \A i \in Slot : jobs'[i].pid = jobs[i].pid,
         \A q \in Pid : proc'[q] = "none" <=> proc[q] = "none",
         \A q \in unreported' : Halted(q)',
         hpc'["CHLD"] \in {"stopped", "delete"} =>
           hpc["CHLD"] = hpc'["CHLD"] /\ hpid'["CHLD"] = hpid["CHLD"],
         Alive' => Alive /\ \A q \in Pid : Newborn(q) => Newborn(q)',
         pc' = "crashed" => pc = "crashed"
  PROVE  ReportInv' /\ LosesWhenFull
<1>1. hpc'["CHLD"] \in {"stopped", "delete"} => hpid["CHLD"] \in Pid
  BY DEF RefInv, HandlersNest, Handled, Sig
<1>2. Unlisted' \subseteq Unlisted
  BY DEF Unlisted, OfPid
<1> QED
  BY <1>1, <1>2 DEF ReportInv, LosesWhenFull

LEMMA NextListed == RefInv /\ ReportInv /\ [Next]_vars => ReportInv' /\ LosesWhenFull
<1> DEFINE Goal == ReportInv' /\ LosesWhenFull
<1> SUFFICES ASSUME RefInv, ReportInv, [Next]_vars PROVE Goal
  OBVIOUS
<1>0. /\ Handled = {"CHLD", "INT", "TSTP"}
      /\ "CHLD" \in Handled
      /\ RefInv' /\ Typed /\ Typed' /\ HandlersNest
  BY NextRefInv DEF Handled, Sig, RefInv
<1>r. \A q \in unreported : Halted(q)
  BY DEF ReportInv
<1> USE DEF table, main, hands, kernel, bounds, AtMain
<1>1. CASE ReadCommand \/ EvalUnblock \/ WaitCheck \/ WaitSleep \/ WaitTimeout \/ FgWait
  <2>1. /\ UNCHANGED <<jobs, proc, hpc, hpid, unreported>>
        /\ pc \notin {"block", "add"} /\ Alive /\ Alive'
    BY <1>1 DEF ReadCommand, EvalStart, BgfgFind, Read, EvalUnblock, WaitCheck, WaitSleep,
         WaitTimeout, FgWait, ToPrompt, Alive
  <2> QED
    BY <1>0, <1>r, <2>1, SameListed DEF Halted, Newborn, Alive
<1>2. CASE EvalFork
  <2>1. UNCHANGED <<jobs, hpc, hpid, unreported>> /\ pc = "fork" /\ pc' = "block"
    BY <1>2 DEF EvalFork
  <2>0. hpc["CHLD"] = "idle"
    BY <1>0, <2>1 DEF HandlersNest
  <2>2. ASSUME NEW p \in Pid, proc[p] = "none", pid' = p,
               proc' = [proc EXCEPT ![p] = "forked"]
        PROVE  Goal
    <3>1. \A q \in Pid : q # p => proc'[q] = proc[q]
      BY <2>2 DEF RefInv, Typed, TypeOK
    <3>2. p \notin unreported /\ unreported \subseteq Pid
      BY <1>r, <2>2 DEF Halted, RefInv, Typed, TypeOK
    <3> QED
      BY <2>0, <2>1, <2>2, <3>1, <3>2 DEF ReportInv, LosesWhenFull, Unlisted, OfPid, Newborn, Halted, Alive
  <2>3. CASE pid' = ForkFailed /\ proc' = proc
    BY <2>0, <2>1, <2>3 DEF ReportInv, LosesWhenFull, Unlisted, OfPid, Newborn, Halted, Alive
  <2> QED
    BY <1>2, <2>2, <2>3 DEF EvalFork
<1>3. CASE EvalBlock
  BY <1>0, <1>3, <1>r, SameListed DEF EvalBlock, Halted, Newborn, Alive
<1>4. CASE EvalAdd
  <2>1. /\ UNCHANGED <<pid, proc, hpc, hpid, unreported>>
        /\ pc = "add" /\ pc' = "unblock"
    BY <1>4 DEF EvalAdd
  <2>0. hpc["CHLD"] = "idle"
    BY <1>0, <2>1 DEF HandlersNest
  <2>2. CASE pid \in Pid /\ Free(jobs) # {}
    <3> DEFINE k == Min(Free(jobs))
               e == [pid |-> pid, jid |-> nextjid, state |-> IF bg THEN "BG" ELSE "FG"]
    <3>1. k \in Free(jobs)
      BY <2>2, FirstInSlots DEF Free
    <3>2. e.pid = pid /\ jobs' = [jobs EXCEPT ![k] = e]
      BY <1>4, <2>2 DEF EvalAdd, addjob
    <3> HIDE DEF k, e
    <3>3. /\ k \in Slot /\ jobs[k].pid = NoPid /\ jobs'[k].pid = pid
          /\ \A i \in Slot : i # k => jobs'[i] = jobs[i]
      BY <3>1, <3>2 DEF Free, RefInv, Typed, TypeOK
    <3>4. Unlisted' \subseteq Unlisted
      <4> SUFFICES ASSUME NEW q \in Pid, q \in Unlisted' PROVE q \in Unlisted
        BY DEF Unlisted
      <4>1. q # pid /\ proc[q] # "none" /\ \A i \in Slot : jobs'[i].pid # q
        BY <2>1, <3>3 DEF Unlisted, OfPid
      <4>2. \A i \in Slot : jobs[i].pid # q
        BY <3>3, <4>1, PidAssumption
      <4> QED
        BY <2>1, <4>1, <4>2 DEF Unlisted, OfPid, Newborn, Alive
    <3> QED
      BY <2>0, <2>1, <3>4 DEF ReportInv, LosesWhenFull, Halted
  <2>3. CASE ~(pid \in Pid /\ Free(jobs) # {})
    <3>1. jobs' = jobs
      BY <1>4, <2>3 DEF EvalAdd, addjob
    <3>2. ReportInv'
      BY <2>0, <2>1 DEF ReportInv, Halted
    <3>3. \A q \in Unlisted' \ Unlisted : q = pid
      BY <2>1, <3>1 DEF Unlisted, OfPid, Newborn, Alive
    <3>4. Unlisted' \subseteq Pid
      BY DEF Unlisted
    <3> QED
      BY <2>1, <2>3, <3>2, <3>3, <3>4 DEF LosesWhenFull
  <2> QED
    BY <2>2, <2>3
<1>5. CASE BgfgSetState
  <2>1. /\ UNCHANGED <<proc, hpc, hpid, unreported>>
        /\ pc = "setstate" /\ pc' = "cont"
        /\ \A i \in Slot : jobs'[i].pid = jobs[i].pid
    BY <1>5 DEF BgfgSetState, RefInv, Typed, TypeOK, Job
  <2> QED
    BY <1>0, <1>r, <2>1, SameListed DEF Halted, Newborn, Alive
<1>6. CASE BgfgCont
  <2>1. /\ UNCHANGED <<jobs, hpc, hpid>>
        /\ pc = "cont" /\ pc' \in {"prompt", "fgwait"}
        /\ Send("CONT", jobs[job].pid)
    BY <1>6 DEF BgfgCont, ToPrompt
  <2>2. \A q \in Pid : proc'[q] = "none" <=> proc[q] = "none"
    BY <1>0, <2>1, SendKeepsChildren
  <2>3. \A q \in unreported' : Halted(q)'
    BY <1>0, <1>r, <2>1, SendListed
  <2> QED
    BY <1>0, <2>1, <2>2, <2>3, SameListed DEF Newborn, Alive
<1>7. CASE Quit
  BY <1>0, <1>7, <1>r, SameListed DEF Quit, Halted, Newborn, Alive
<1>8. ASSUME NEW s \in Handled, Deliver(s) PROVE Goal
  <2>1. /\ UNCHANGED <<jobs, pid, proc, hpid, unreported>>
        /\ pc' = IF pc = "sleep" THEN "check" ELSE pc
        /\ hpc' = [hpc EXCEPT ![s] = IF s = "CHLD" THEN "reap" ELSE "read"]
    BY <1>8 DEF Deliver
  <2>2. Alive /\ s \notin mask
    BY <1>8 DEF Deliver, Blocked
  <2>3. hpc'["CHLD"] \in {"stopped", "delete"} => hpc["CHLD"] = hpc'["CHLD"]
    BY <1>0, <2>1 DEF Typed, TypeOK
  <2>4. \A q \in Pid : Newborn(q) => Newborn(q)'
    <3> SUFFICES ASSUME NEW q \in Pid, Newborn(q) PROVE Newborn(q)'
      OBVIOUS
    <3>1. pc \in {"block", "add"} /\ s # "CHLD"
      BY <1>0, <2>2 DEF Newborn, Alive, HandlersNest
    <3> QED
      BY <1>0, <2>1, <3>1 DEF Newborn, Typed, TypeOK
  <2> QED
    BY <1>0, <1>r, <2>1, <2>3, <2>4, SameListed DEF Halted, Alive
<1>9. CASE ChldWait
  <2>0. UNCHANGED <<jobs, pid, pc>> /\ hpc["CHLD"] = "reap"
    BY <1>9 DEF ChldWait, AtHandler
  <2>1. ASSUME NEW p \in Pid, ReapEnded(p) PROVE Goal
    <3>1. /\ proc[p] = "zombie" /\ proc' = [proc EXCEPT ![p] = "none"]
          /\ unreported' = unreported
          /\ hpc'["CHLD"] = "delete" /\ hpid'["CHLD"] = p
      BY <1>0, <2>1 DEF ReapEnded, HandlerAt, Typed, TypeOK
    <3>2. proc'[p] = "none" /\ \A q \in Pid : q # p => proc'[q] = proc[q]
      BY <1>0, <3>1 DEF Typed, TypeOK
    <3>3. p \notin unreported /\ unreported \subseteq Pid
      BY <1>0, <1>r, <3>1 DEF Halted, Typed, TypeOK
    <3> QED
      BY <2>0, <3>1, <3>2, <3>3 DEF ReportInv, LosesWhenFull, Unlisted, OfPid, Newborn, Halted, Alive
  <2>2. ASSUME NEW p \in Pid, ReapStopped(p) PROVE Goal
    <3>1. /\ proc' = proc /\ unreported' = unreported \ {p} /\ p \in unreported
          /\ hpc'["CHLD"] = "stopped" /\ hpid'["CHLD"] = p
      BY <1>0, <2>2 DEF ReapStopped, HandlerAt, Typed, TypeOK
    <3> QED
      BY <2>0, <3>1 DEF ReportInv, LosesWhenFull, Unlisted, OfPid, Newborn, Halted, Alive
  <2>3. CASE Return("CHLD") /\ UNCHANGED <<proc, unreported>>
    <3>1. hpc'["CHLD"] = "idle"
      BY <1>0, <2>3 DEF Return, Typed, TypeOK
    <3> QED
      BY <1>0, <1>r, <2>0, <2>3, <3>1, SameListed DEF Halted, Newborn, Alive
  <2> QED
    BY <1>9, <2>1, <2>2, <2>3 DEF ChldWait
<1>10. CASE ChldDelete
  <2>1. /\ hpc["CHLD"] = "delete" /\ hpc'["CHLD"] = "reap"
        /\ UNCHANGED <<pc, pid, proc, unreported>>
    BY <1>0, <1>10 DEF ChldDelete, AtHandler, HandlerAt, Typed, TypeOK
  <2>2. CASE jobs' = jobs
    BY <1>0, <1>r, <2>1, <2>2, SameListed DEF Halted, Newborn, Alive
  <2>3. ASSUME NEW k \in Slot, jobs[k].pid = hpid["CHLD"], jobs' = [jobs EXCEPT ![k] = clearjob]
        PROVE  Goal
    <3>1. \A i \in Slot : i # k => jobs'[i] = jobs[i]
      BY <1>0, <2>3 DEF Typed, TypeOK
    <3>2. \A q \in Pid : OfPid(jobs, q)' = {} /\ q # hpid["CHLD"] => OfPid(jobs, q) = {}
      BY <2>3, <3>1 DEF OfPid
    <3> QED
      BY <2>1, <3>2 DEF ReportInv, LosesWhenFull, Unlisted, OfPid, Newborn, Halted, Alive
  <2> QED
    BY <1>0, <1>10, <2>2, <2>3, ChldDeleteEffect
<1>11. CASE ChldStopped
  <2>1. /\ UNCHANGED <<pid, proc, unreported>>
        /\ hpc'["CHLD"] = "reap" /\ hpc["CHLD"] = "stopped" /\ Alive
    BY <1>0, <1>11 DEF ChldStopped, AtHandler, HandlerAt, Typed, TypeOK
  <2>2. CASE getjobpid(jobs, hpid["CHLD"]) # NULL
    <3>1. hpid["CHLD"] \in Pid
      BY <1>0, <2>1 DEF HandlersNest
    <3>2. PICK k \in Slot : jobs' = [jobs EXCEPT ![k].state = "ST"] /\ pc' = pc
      BY <1>11, <2>2, <3>1, getjobpidFinds DEF ChldStopped
    <3>3. \A i \in Slot : jobs'[i].pid = jobs[i].pid
      BY <1>0, <3>2 DEF Typed, TypeOK, Job
    <3> QED
      BY <1>0, <1>r, <2>1, <3>2, <3>3, SameListed DEF Halted, Newborn, Alive
  <2>3. CASE getjobpid(jobs, hpid["CHLD"]) = NULL
    <3>1. pc' = "crashed" /\ jobs' = jobs
      BY <1>11, <2>3 DEF ChldStopped
    <3>2. hpid["CHLD"] \in Pid /\ OfPid(jobs, hpid["CHLD"]) = {}
      BY <1>0, <2>1, <2>3, getjobpidFinds, NullIsNoSlot DEF HandlersNest, OfPid
    <3>3. proc[hpid["CHLD"]] # "none" /\ ~Newborn(hpid["CHLD"])
      BY <1>0, <2>1 DEF ReportInv, HandlersNest, Newborn
    <3>4. hpid["CHLD"] \in Unlisted
      BY <2>1, <3>2, <3>3 DEF Unlisted
    <3>5. Unlisted' = {}
      BY <3>1 DEF Unlisted, Alive
    <3> QED
      BY <2>1, <3>4, <3>5 DEF ReportInv, LosesWhenFull, Halted
  <2> QED
    BY <2>2, <2>3
<1>12. ASSUME NEW s \in {"INT", "TSTP"}, FwdRead(s) \/ FwdKill(s) PROVE Goal
  <2>1. UNCHANGED <<jobs, pid, pc>>
    BY <1>12 DEF FwdRead, FwdKill
  <2>2. hpc'["CHLD"] = hpc["CHLD"] /\ hpid'["CHLD"] = hpid["CHLD"]
    BY <1>0, <1>12 DEF FwdRead, FwdKill, Return, HandlerAt, Typed, TypeOK
  <2>3. \A q \in Pid : proc'[q] = "none" <=> proc[q] = "none"
    BY <1>0, <1>12, SendKeepsChildren DEF FwdRead, FwdKill
  <2>4. \A q \in unreported' : Halted(q)'
    <3>1. CASE FwdRead(s)
      BY <1>r, <3>1 DEF FwdRead, Halted
    <3>2. CASE FwdKill(s)
      BY <1>0, <1>r, <3>2, SendListed DEF FwdKill
    <3> QED
      BY <1>12, <3>1, <3>2
  <2> QED
    BY <1>0, <2>1, <2>2, <2>3, <2>4, SameListed DEF Newborn, Alive
<1>13. ASSUME NEW p \in Pid, Exec(p) \/ Die(p) \/ SelfStop(p) PROVE Goal
  <2>1. UNCHANGED <<jobs, pid, pc, hpc, hpid>>
    BY <1>13 DEF Exec, Die, SelfStop
  <2>2. \A q \in Pid : proc'[q] = "none" <=> proc[q] = "none"
    BY <1>0, <1>13 DEF Exec, Die, SelfStop, Ends, Stops, Typed, TypeOK
  <2>3. \A q \in unreported' : Halted(q)'
    BY <1>0, <1>r, <1>13 DEF Exec, Die, SelfStop, Ends, Stops, Typed, TypeOK, Halted
  <2> QED
    BY <1>0, <2>1, <2>2, <2>3, SameListed DEF Newborn, Alive
<1>14. ASSUME NEW s \in Sig \ {"CHLD"}, Key(s) PROVE Goal
  BY <1>0, <1>14, <1>r, SameListed DEF Key, Halted, Newborn, Alive
<1>15. CASE UNCHANGED vars
  BY <1>0, <1>15, <1>r, SameListed DEF vars, Halted, Newborn, Alive
<1>16. CASE DeliverQuit
  <2>1. UNCHANGED <<jobs, pid, proc, hpc, hpid, unreported>> /\ pc' = "exit"
    BY <1>16 DEF DeliverQuit
  <2> QED
    BY <1>0, <1>r, <2>1, SameListed DEF Halted, Newborn, Alive
<1> QED
  BY <1>1, <1>2, <1>3, <1>4, <1>5, <1>6, <1>7, <1>8, <1>9, <1>10, <1>11, <1>12,
     <1>13, <1>14, <1>15, <1>16
     DEF Next, MainStep, HandlerStep, Delivery, Environment

\* Whatever the length of the list: only addjob on a full one leaves a child off
\* it, and only for such a child does sigchld_handler follow a null pointer.
THEOREM LostOnlyWhenFull == Spec => UnlistedOnlyWhenFull
<1>1. Init => ReportInv
  BY DEF Init, ReportInv, Handled, Sig
<1>2. RefInv /\ ReportInv /\ [Next]_vars => ReportInv' /\ LosesWhenFull
  BY NextListed
<1>3. UnlistedOnlyWhenFull <=> [][LosesWhenFull]_vars
  BY Zenon DEF UnlistedOnlyWhenFull, LosesWhenFull
<1> QED
  BY <1>1, <1>2, <1>3, InitRefInv, NextRefInv, PTL DEF Spec
=============================================================================
