--------------------------- MODULE TshProperties ---------------------------
(***************************************************************************)
(* What the tiny shell must do, stated over module Tsh.                     *)
(***************************************************************************)
EXTENDS Tsh

(***************************************************************************)
(* The shell never has two jobs in the foreground, and none while it        *)
(* prompts or between reading a command and starting it: the prompt comes   *)
(* back only when the foreground job has ended or stopped (waitfg), and     *)
(* "at most 1 job can be in the FG state" (tsh.c, comment on job states).   *)
(* A job that ends or stops while do_bgfg is at work is what endangers it.  *)
(***************************************************************************)
ForegroundDiscipline ==
  /\ \A i, k \in InState(jobs, "FG") : i = k
  /\ pc \in {"prompt", "fork", "block", "add", "setstate"} =>
       InState(jobs, "FG") = {}

(***************************************************************************)
(* An entry of the job list stands for a child of the shell that has not    *)
(* been reaped, or that sigchld_handler has just reaped and is about to     *)
(* delete; and a child has one entry.  The race of eval's addjob with the   *)
(* handler's deletejob would leave an entry for a process that is gone.     *)
(***************************************************************************)
EntryHasChild ==
  /\ \A i \in Slot : jobs[i].pid # NoPid =>
       \/ proc[jobs[i].pid] # "none"
       \/ hpc["CHLD"] = "delete" /\ hpid["CHLD"] = jobs[i].pid
  /\ \A i, k \in Slot : jobs[i].pid = jobs[k].pid /\ jobs[i].pid # NoPid => i = k

(***************************************************************************)
(* ctrl-c and ctrl-z reach the foreground job only: the process that        *)
(* sigint_handler or sigtstp_handler is about to signal is not a background *)
(* job, even if sigchld_handler ran between its fgpid and its kill.         *)
(***************************************************************************)
KeysSpareBackground ==
  \A s \in {"INT", "TSTP"}, i \in Slot :
    hpc[s] = "kill" /\ jobs[i].pid = hpid[s] => jobs[i].state # "BG"

(***************************************************************************)
(* A child that is stopped, and whose stop waitpid has reported, is listed  *)
(* as stopped, but for the moments when sigchld_handler is about to list it *)
(* and when do_bgfg is about to continue it.  A stop the list misses leaves *)
(* waitfg waiting for a process that does not run.                          *)
(***************************************************************************)
StopIsListed ==
  \A i \in Slot :
    /\ Alive
    /\ jobs[i].pid # NoPid
    /\ proc[jobs[i].pid] \in {"stopped", "doomed"}
    /\ jobs[i].pid \notin unreported
    => \/ jobs[i].state = "ST"
       \/ hpc["CHLD"] = "stopped" /\ hpid["CHLD"] = jobs[i].pid
       \/ pc = "cont" /\ job = i

\* eval has forked p and not yet called addjob.
Newborn(p) == pc \in {"block", "add"} /\ pid = p

\* Children of the running shell that eval is through with and that no entry
\* of the job list stands for
Unlisted ==
  {p \in Pid : Alive /\ proc[p] # "none" /\ OfPid(jobs, p) = {} /\ ~Newborn(p)}

(***************************************************************************)
(* A child is off the list only because addjob found every entry in use;    *)
(* no race of eval with the handlers loses one.  And only for such a child  *)
(* does sigchld_handler follow the null pointer that getjobpid returns.     *)
(***************************************************************************)
UnlistedOnlyWhenFull ==
  [][/\ \A p \in Unlisted' \ Unlisted : pc = "add" /\ pid = p /\ Free(jobs) = {}
     /\ pc # "crashed" /\ pc' = "crashed" => hpid["CHLD"] \in Unlisted]_vars

\* The state of the job of each process, as listed
Listed(J) ==
  [p \in Pid |-> IF getjobpid(J, p) = NULL THEN "none" ELSE J[getjobpid(J, p)].state]

ListedState == Listed(jobs)

(***************************************************************************)
(* The shell implements JobControl: whatever interrupts eval, do_bgfg and   *)
(* waitfg, the listed state of each process moves as job control promises,  *)
(* a job enters the foreground only when nothing is there, and the list     *)
(* never holds more than MAXJOBS jobs.                                      *)
(***************************************************************************)
JC == INSTANCE JobControl WITH Process <- Pid, MaxJobs <- MAXJOBS, state <- ListedState
ImplementsJobControl == JC!Spec

(***************************************************************************)
(* Every child that ends is reaped (unless the shell exits or crashes       *)
(* first), although one pending SIGCHLD may stand for several children and  *)
(* may be blocked by eval when it is raised.                                *)
(***************************************************************************)
ZombiesReaped ==
  \A p \in Pid : proc[p] = "zombie" ~> (proc[p] = "none" \/ ~Alive)

(***************************************************************************)
(* When the child that waitfg waits for no longer runs, waitfg returns,     *)
(* even if the child ended or stopped between waitfg's test and its sleep;  *)
(* and it returns when there is no child because fork failed.               *)
(***************************************************************************)
Waiting(p) == pid = p /\ pc \in {"check", "nap", "sleep"}

NotRunning(p) == p \in Pid => proc[p] \in {"stopped", "doomed", "zombie", "none"}

WaitReturns ==
  \A p \in Pid \cup {ForkFailed} :
    (Waiting(p) /\ NotRunning(p)) ~> (~Waiting(p) \/ ~Alive)

(***************************************************************************)
(* "waitfg - Block until process pid is no longer the foreground process"   *)
(* (tsh.c): whatever pid it is called with, it returns once no job with     *)
(* that pid is in the foreground.                                           *)
(***************************************************************************)
WaitfgReturns ==
  (pc \in {"check", "nap", "sleep"} /\ OfPid(jobs, pid) \cap InState(jobs, "FG") = {})
    ~> (pc \in {"prompt", "exit", "crashed"})

(***************************************************************************)
(* A job ID names one job: "getjobjid - Find a job (by JID) on the job      *)
(* list" (tsh.c).                                                           *)
(***************************************************************************)
JidNamesOneJob ==
  \A i, k \in Slot : jobs[i].jid = jobs[k].jid /\ jobs[i].jid # 0 => i = k

(***************************************************************************)
(* "The handler reaps all available zombie children" (tsh.c, comment of     *)
(* sigchld_handler): a step that ends the handler, by its return or by the  *)
(* null pointer, leaves no zombie.                                          *)
(***************************************************************************)
ReapsAllAvailable ==
  [][hpc["CHLD"] # "idle" /\ Alive /\ (hpc'["CHLD"] = "idle" \/ pc' = "crashed")
       => \A p \in Pid : proc'[p] # "zombie"]_vars
-----------------------------------------------------------------------------
(***************************************************************************)
(* The inductive invariants behind the first four properties, for the       *)
(* proofs of TshProofs.                                                     *)
(***************************************************************************)

\* do_bgfg has found its job.
JobNamed == pc \in {"setstate", "cont", "fgwait"} => job \in Slot

\* The handlers on the stack are the ones that are not idle, each once, and
\* each is at a place of its own code, with a child for local pid where it
\* uses one.  No SIGCHLD handler runs while eval has the signal blocked.
HandlersNest ==
  /\ \A i, k \in DOMAIN stack : stack[i] = stack[k] => i = k
  /\ \A s \in Handled : hpc[s] # "idle" => \E i \in DOMAIN stack : stack[i] = s
  /\ hpc["CHLD"] \in {"idle", "reap", "delete", "stopped"}
  /\ \A s \in {"INT", "TSTP"} : hpc[s] \in {"idle", "read", "kill"}
  /\ \A s \in Handled : hpc[s] \in {"delete", "stopped", "kill"} => hpid[s] \in Pid
  /\ pc \in {"fork", "block", "add"} => hpc["CHLD"] = "idle" /\ "CHLD" \in mask

\* Where the one job in the foreground may be, at each place of main
ForegroundInv ==
  LET fg == InState(jobs, "FG")
  IN  /\ \A i, k \in fg : i = k
      /\ pc \in {"prompt", "fork", "block", "add", "setstate"} => fg = {}
      /\ pc \in {"unblock", "cont"} /\ bg => fg = {}
      /\ pc \in {"cont", "fgwait"} => fg \subseteq {job}
      /\ pc \in {"unblock", "check", "nap", "sleep"} => \A i \in fg : jobs[i].pid = pid

\* eval's child is not on the list until addjob puts it there, and is not
\* reaped before.
ChildInv ==
  /\ EntryHasChild
  /\ pc \in {"block", "add"} /\ pid \in Pid =>
       proc[pid] # "none" /\ OfPid(jobs, pid) = {}

\* A job on the list has one of the three states.
JobsHaveState == \A i \in Slot : jobs[i].pid # NoPid => jobs[i].state # "UNDEF"

TshInv == JobNamed /\ HandlersNest /\ ForegroundInv /\ ChildInv /\ JobsHaveState
=============================================================================
