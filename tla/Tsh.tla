-------------------------------- MODULE Tsh --------------------------------
(***************************************************************************)
(* The tiny shell of icslabs/lab9/tsh.c, with the kernel it runs on.        *)
(*                                                                         *)
(* One thread executes main's read/eval loop; signal handlers interrupt it  *)
(* (and one another) between any two of its steps, on the same stack.  The  *)
(* actors that run beside the shell are its children and the user at the    *)
(* keyboard.  A step of main or of a handler is a stretch of code within    *)
(* which no interruption could be told apart from one before or after it.   *)
(*                                                                         *)
(* The process group of a job is one process here.  The built-in `jobs`,    *)
(* blank lines and rejected arguments change no state, so they are          *)
(* stuttering steps of main.                                                *)
(***************************************************************************)
EXTENDS JobList, Sequences

CONSTANTS MaxCmds,      \* bound on the command lines that run or resume a job
          MaxKeys       \* bound on the signals sent to the shell from outside

ASSUME BoundAssumption == MaxCmds \in Nat /\ MaxKeys \in Nat

VARIABLES
  jobs, nextjid,        \* the job list
  pc,                   \* where main is
  bg,                   \* eval: the job runs in the background; do_bgfg: it is `bg`
  pid,                  \* eval: the child; waitfg: its parameter
  job,                  \* do_bgfg: the job pointer, a slot
  mask,                 \* main's signal mask
  stack,                \* active signal handlers, the running one first
  hpc, hpid,            \* where each handler is, and its local pid
  proc,                 \* the kernel's process table, for the shell's children
  unreported,           \* stopped children that waitpid has not returned
  pending,              \* signals pending for the shell
  cmds, keys            \* how much of the bounds is used up

table  == <<jobs, nextjid>>
main   == <<pc, bg, pid, job, mask>>
hands  == <<stack, hpc, hpid>>
kernel == <<proc, unreported, pending>>
bounds == <<cmds, keys>>
vars   == <<table, main, hands, kernel, bounds>>

Sig     == {"CHLD", "INT", "TSTP", "QUIT"}
Handled == Sig \ {"QUIT"}   \* the QUIT handler only exits

MainPc == {"prompt", "fork", "block", "add", "unblock", "check", "nap", "sleep",
           "setstate", "cont", "fgwait", "exit", "crashed"}
HandPc == {"idle", "reap", "delete", "stopped", "read", "kill"}

(***************************************************************************)
(* A child is "forked" until it has called setpgid: it is then still in the *)
(* shell's process group and kill(-pid, ...) does not reach it.  "doomed"   *)
(* is a stopped child with a SIGINT pending.                                *)
(***************************************************************************)
ProcState == {"none", "forked", "running", "stopped", "doomed", "zombie"}

TypeOK ==
  /\ jobs \in [Slot -> Job]
  /\ nextjid \in Nat \ {0}
  /\ pc \in MainPc
  /\ bg \in BOOLEAN
  /\ pid \in Pid \cup {NoPid, ForkFailed}
  /\ job \in Slot \cup {NULL}
  /\ mask \in SUBSET Sig
  /\ stack \in Seq(Handled)
  /\ hpc \in [Handled -> HandPc]
  /\ hpid \in [Handled -> Pid \cup {NoPid}]
  /\ proc \in [Pid -> ProcState]
  /\ unreported \in SUBSET Pid
  /\ pending \in SUBSET Sig
  /\ cmds \in 0 .. MaxCmds
  /\ keys \in 0 .. MaxKeys

Init ==
  /\ jobs = initjobs
  /\ nextjid = 1
  /\ pc = "prompt"
  /\ bg = FALSE
  /\ pid = NoPid
  /\ job = NULL
  /\ mask = {}
  /\ stack = <<>>
  /\ hpc = [s \in Handled |-> "idle"]
  /\ hpid = [s \in Handled |-> NoPid]
  /\ proc = [p \in Pid |-> "none"]
  /\ unreported = {}
  /\ pending = {}
  /\ cmds = 0
  /\ keys = 0

Alive == pc \notin {"exit", "crashed"}

-----------------------------------------------------------------------------
(***************************************************************************)
(* The kernel's part: what becomes of a child, and of the shell's pending   *)
(* signals, when the child ends, stops or is continued.  SIGCHLD has one    *)
(* pending bit however many children changed.                               *)
(***************************************************************************)
NotifyShell == pending' = pending \cup {"CHLD"}

Ends(p) ==
  /\ proc' = [proc EXCEPT ![p] = "zombie"]
  /\ unreported' = unreported \ {p}
  /\ NotifyShell

Stops(p) ==
  /\ proc' = [proc EXCEPT ![p] = "stopped"]
  /\ unreported' = unreported \cup {p}
  /\ NotifyShell

\* kill(-p, s) by the shell, for s one of CONT, INT and TSTP
Send(s, p) ==
  CASE s = "CONT" /\ p \in Pid /\ proc[p] = "stopped" ->
         /\ proc' = [proc EXCEPT ![p] = "running"]
         /\ unreported' = unreported \ {p}
         /\ NotifyShell
    [] s = "CONT" /\ p \in Pid /\ proc[p] = "doomed" -> Ends(p)
    [] s = "INT" /\ p \in Pid /\ proc[p] = "running" -> Ends(p)
    [] s = "INT" /\ p \in Pid /\ proc[p] = "stopped" ->
         /\ proc' = [proc EXCEPT ![p] = "doomed"]
         /\ UNCHANGED <<unreported, pending>>
    [] s = "TSTP" /\ p \in Pid /\ proc[p] = "running" -> Stops(p)
    [] OTHER -> UNCHANGED kernel

-----------------------------------------------------------------------------
(***************************************************************************)
(* main: the read/eval loop.  It runs only when no handler does.            *)
(***************************************************************************)
AtMain(l) == pc = l /\ stack = <<>>

Read(l) ==
  /\ AtMain("prompt")
  /\ cmds < MaxCmds
  /\ cmds' = cmds + 1
  /\ pc' = l

\* Back to the prompt: the locals of eval, do_bgfg and waitfg are gone.
ToPrompt ==
  /\ pc' = "prompt"
  /\ bg' = FALSE
  /\ pid' = NoPid
  /\ job' = NULL

\* Faulty: forks without blocking SIGCHLD first.
EvalStartUnblocked(amp) ==
  /\ Read("fork")
  /\ bg' = amp
  /\ mask' = {}
  /\ UNCHANGED <<table, pid, job, hands, kernel, keys>>

\* A command that is not built in, with or without a trailing '&'
EvalStart(amp) ==
  /\ Read("fork")
  /\ bg' = amp
  /\ mask' = {"CHLD"}
  /\ UNCHANGED <<table, pid, job, hands, kernel, keys>>

EvalFork ==
  /\ AtMain("fork")
  /\ pc' = "block"
  /\ \/ \E p \in Pid :
          /\ proc[p] = "none"
          /\ proc' = [proc EXCEPT ![p] = "forked"]
          /\ pid' = p
     \/ /\ pid' = ForkFailed
        /\ proc' = proc
  /\ UNCHANGED <<table, bg, job, mask, hands, unreported, pending, bounds>>

EvalBlock ==
  /\ AtMain("block")
  /\ pc' = "add"
  /\ mask' = Sig
  /\ UNCHANGED <<table, bg, pid, job, hands, kernel, bounds>>

EvalAdd ==
  /\ AtMain("add")
  /\ pc' = "unblock"
  /\ LET added == addjob(jobs, nextjid, pid, IF bg THEN "BG" ELSE "FG")
     IN  /\ jobs' = added.jobs
         /\ nextjid' = added.nextjid
  /\ UNCHANGED <<bg, pid, job, mask, hands, kernel, bounds>>

EvalUnblock ==
  /\ AtMain("unblock")
  /\ mask' = {}
  /\ IF bg
     THEN ToPrompt
     ELSE pc' = "check" /\ UNCHANGED <<bg, pid, job>>
  /\ UNCHANGED <<table, hands, kernel, bounds>>

\* waitfg: the test of the loop, the call of sleep(100), its end
WaitCheck ==
  /\ AtMain("check")
  /\ IF pid = fgpid(jobs)
     THEN pc' = "nap" /\ UNCHANGED <<bg, pid, job>>
     ELSE ToPrompt
  /\ UNCHANGED <<table, mask, hands, kernel, bounds>>

WaitSleep ==
  /\ AtMain("nap")
  /\ pc' = "sleep"
  /\ UNCHANGED <<table, bg, pid, job, mask, hands, kernel, bounds>>

WaitTimeout ==
  /\ AtMain("sleep")
  /\ pc' = "check"
  /\ UNCHANGED <<table, bg, pid, job, mask, hands, kernel, bounds>>

\* do_bgfg: find the job by PID or by %jobid, set its state, continue the
\* process group, and for fg wait.  Nothing is blocked on the way, and the
\* entry is read again through the pointer at each step.
Named == ({getjobpid(jobs, p) : p \in Pid}
           \cup {getjobjid(jobs, jobs[i].jid) : i \in Slot}) \ {NULL}

BgfgFind(isbg) ==
  /\ Read("setstate")
  /\ bg' = isbg
  /\ job' \in Named
  /\ UNCHANGED <<table, pid, mask, hands, kernel, keys>>

BgfgSetState ==
  /\ AtMain("setstate")
  /\ pc' = "cont"
  /\ jobs' = [jobs EXCEPT ![job].state = IF bg THEN "BG" ELSE "FG"]
  /\ UNCHANGED <<nextjid, bg, pid, job, mask, hands, kernel, bounds>>

\* Faulty: fg does not wait.
BgfgContNoWait ==
  /\ AtMain("cont")
  /\ Send("CONT", jobs[job].pid)
  /\ ToPrompt
  /\ UNCHANGED <<table, mask, hands, bounds>>

BgfgCont ==
  /\ AtMain("cont")
  /\ Send("CONT", jobs[job].pid)
  /\ IF bg
     THEN ToPrompt
     ELSE pc' = "fgwait" /\ UNCHANGED <<bg, pid, job>>
  /\ UNCHANGED <<table, mask, hands, bounds>>

FgWait ==
  /\ AtMain("fgwait")
  /\ pc' = "check"
  /\ pid' = jobs[job].pid
  /\ job' = NULL
  /\ UNCHANGED <<table, bg, mask, hands, kernel, bounds>>

\* The built-in quit, and end of file
Quit ==
  /\ AtMain("prompt")
  /\ pc' = "exit"
  /\ UNCHANGED <<table, bg, pid, job, mask, hands, kernel, bounds>>
-----------------------------------------------------------------------------
(***************************************************************************)
(* The signal handlers.  A handler runs with its own signal blocked, on top *)
(* of what it interrupted.  The stretch of sigchld_handler that blocks      *)
(* every signal around deletejob is the single step ChldDelete.             *)
(***************************************************************************)
\* Faulty: as if sigaction were given SA_NODEFER.
BlockedNoDefer == mask

Blocked == mask \cup {stack[i] : i \in DOMAIN stack}

\* A handler that interrupts sleep(100) makes it return.
Deliver(s) ==
  /\ Alive
  /\ s \in pending \ Blocked
  /\ pending' = pending \ {s}
  /\ stack' = <<s>> \o stack
  /\ hpc' = [hpc EXCEPT ![s] = IF s = "CHLD" THEN "reap" ELSE "read"]
  /\ pc' = IF pc = "sleep" THEN "check" ELSE pc
  /\ UNCHANGED <<table, bg, pid, job, mask, hpid, proc, unreported, bounds>>

DeliverQuit ==
  /\ Alive
  /\ "QUIT" \in pending \ Blocked
  /\ pending' = pending \ {"QUIT"}
  /\ pc' = "exit"
  /\ UNCHANGED <<table, bg, pid, job, mask, hands, proc, unreported, bounds>>

AtHandler(s, l) == Alive /\ stack # <<>> /\ Head(stack) = s /\ hpc[s] = l

Return(s) ==
  /\ stack' = Tail(stack)
  /\ hpc' = [hpc EXCEPT ![s] = "idle"]
  /\ hpid' = [hpid EXCEPT ![s] = NoPid]

\* Go on at l, with the local pid set to p.
HandlerAt(s, l, p) ==
  /\ hpc' = [hpc EXCEPT ![s] = l]
  /\ hpid' = [hpid EXCEPT ![s] = p]
  /\ stack' = stack

\* waitpid(-1, &status, WNOHANG | WUNTRACED): a child that ended, a child
\* that stopped, or none, which ends the loop.
ReapEnded(p) ==
  /\ proc[p] = "zombie"
  /\ proc' = [proc EXCEPT ![p] = "none"]
  /\ unreported' = unreported
  /\ HandlerAt("CHLD", "delete", p)

ReapStopped(p) ==
  /\ p \in unreported
  /\ unreported' = unreported \ {p}
  /\ proc' = proc
  /\ HandlerAt("CHLD", "stopped", p)

NoneWaitable == unreported = {} /\ \A p \in Pid : proc[p] # "zombie"

\* Faulty: waitpid without WUNTRACED.
ChldWaitEndedOnly ==
  /\ AtHandler("CHLD", "reap")
  /\ \/ \E p \in Pid : ReapEnded(p)
     \/ (\A p \in Pid : proc[p] # "zombie") /\ Return("CHLD")
          /\ UNCHANGED <<proc, unreported>>
  /\ UNCHANGED <<table, main, pending, bounds>>

ChldWait ==
  /\ AtHandler("CHLD", "reap")
  /\ \/ \E p \in Pid : ReapEnded(p) \/ ReapStopped(p)
     \/ NoneWaitable /\ Return("CHLD") /\ UNCHANGED <<proc, unreported>>
  /\ UNCHANGED <<table, main, pending, bounds>>

\* Faulty: one child per signal ("if" for "while").
ChldDeleteOnce ==
  /\ AtHandler("CHLD", "delete")
  /\ LET deleted == deletejob(jobs, nextjid, hpid["CHLD"])
     IN  /\ jobs' = deleted.jobs
         /\ nextjid' = deleted.nextjid
  /\ Return("CHLD")
  /\ UNCHANGED <<main, kernel, bounds>>

ChldDelete ==
  /\ AtHandler("CHLD", "delete")
  /\ LET deleted == deletejob(jobs, nextjid, hpid["CHLD"])
     IN  /\ jobs' = deleted.jobs
         /\ nextjid' = deleted.nextjid
  /\ HandlerAt("CHLD", "reap", NoPid)
  /\ UNCHANGED <<main, kernel, bounds>>

\* Faulty: only a foreground job is listed as stopped.
ChldStoppedForeground ==
  /\ AtHandler("CHLD", "stopped")
  /\ LET found == getjobpid(jobs, hpid["CHLD"])
     IN  IF found = NULL
         THEN pc' = "crashed" /\ jobs' = jobs
         ELSE /\ pc' = pc
              /\ jobs' = IF jobs[found].state = "FG"
                         THEN [jobs EXCEPT ![found].state = "ST"] ELSE jobs
  /\ HandlerAt("CHLD", "reap", NoPid)
  /\ UNCHANGED <<nextjid, bg, pid, job, mask, kernel, bounds>>

\* The job is not looked for before it is used: a stopped child that is not
\* on the list makes the handler follow a null pointer.
ChldStopped ==
  /\ AtHandler("CHLD", "stopped")
  /\ LET found == getjobpid(jobs, hpid["CHLD"])
     IN  IF found = NULL
         THEN pc' = "crashed" /\ jobs' = jobs
         ELSE pc' = pc /\ jobs' = [jobs EXCEPT ![found].state = "ST"]
  /\ HandlerAt("CHLD", "reap", NoPid)
  /\ UNCHANGED <<nextjid, bg, pid, job, mask, kernel, bounds>>

\* sigint_handler and sigtstp_handler
FwdRead(s) ==
  /\ AtHandler(s, "read")
  /\ IF fgpid(jobs) = NoPid THEN Return(s) ELSE HandlerAt(s, "kill", fgpid(jobs))
  /\ UNCHANGED <<table, main, kernel, bounds>>

FwdKill(s) ==
  /\ AtHandler(s, "kill")
  /\ Send(s, hpid[s])
  /\ Return(s)
  /\ UNCHANGED <<table, main, bounds>>
-----------------------------------------------------------------------------
(***************************************************************************)
(* The children and the user.  A child sets its process group and runs its  *)
(* program; a program ends (or is killed), or stops itself as mystop does.  *)
(***************************************************************************)
Exec(p) ==
  /\ proc[p] = "forked"
  /\ proc' = [proc EXCEPT ![p] = "running"]
  /\ UNCHANGED <<table, main, hands, unreported, pending, bounds>>

Die(p) ==
  /\ proc[p] \in {"running", "stopped", "doomed"}
  /\ Ends(p)
  /\ UNCHANGED <<table, main, hands, bounds>>

SelfStop(p) ==
  /\ proc[p] = "running"
  /\ Stops(p)
  /\ UNCHANGED <<table, main, hands, bounds>>

\* ctrl-c, ctrl-z, or the driver's SIGQUIT
Key(s) ==
  /\ keys < MaxKeys
  /\ Alive
  /\ keys' = keys + 1
  /\ pending' = pending \cup {s}
  /\ UNCHANGED <<table, main, hands, proc, unreported, cmds>>
-----------------------------------------------------------------------------
\* What main does on its own once it has read a command
MainStep ==
  \/ EvalFork \/ EvalBlock \/ EvalAdd \/ EvalUnblock
  \/ WaitCheck \/ WaitSleep \/ WaitTimeout
  \/ BgfgSetState \/ BgfgCont \/ FgWait

ReadCommand == \E b \in BOOLEAN : EvalStart(b) \/ BgfgFind(b)

HandlerStep ==
  \/ ChldWait \/ ChldDelete \/ ChldStopped
  \/ \E s \in {"INT", "TSTP"} : FwdRead(s) \/ FwdKill(s)

Delivery == DeliverQuit \/ \E s \in Handled : Deliver(s)

Environment ==
  \/ \E p \in Pid : Exec(p) \/ Die(p) \/ SelfStop(p)
  \/ \E s \in Sig \ {"CHLD"} : Key(s)

Next == MainStep \/ ReadCommand \/ Quit \/ HandlerStep \/ Delivery \/ Environment

Spec == Init /\ [][Next]_vars

(***************************************************************************)
(* Main and the handlers run when they can, sleep(100) ends, and the kernel *)
(* delivers a signal that is not blocked.  Nothing makes the user type, and *)
(* nothing makes a program end or stop.                                     *)
(***************************************************************************)
Fairness ==
  /\ WF_vars(MainStep)
  /\ WF_vars(HandlerStep)
  /\ \A s \in Handled : WF_vars(Deliver(s))

FairSpec == Spec /\ Fairness
=============================================================================
