------------------------------ MODULE JobList ------------------------------
(***************************************************************************)
(* The job list of the tiny shell (icslabs/lab9/tsh.c): the array jobs[]    *)
(* and the helper routines that search and change it.  The routines are     *)
(* functions of the array (and of nextjid, the next job ID to allocate);    *)
(* the shell's state machine is module Tsh.                                 *)
(*                                                                         *)
(* Slots are numbered from 1 and 0 stands for the NULL job pointer.  A pid  *)
(* below 1 is one of the two sentinels NoPid (the 0 of a cleared entry and  *)
(* of "no such job") and ForkFailed (the -1 that fork returns).             *)
(***************************************************************************)
EXTENDS Integers, FiniteSetsExt

CONSTANTS MAXJOBS,      \* entries of the job list
          Pid,          \* process IDs a child can have
          NoPid,        \* the pid of a cleared entry
          ForkFailed    \* what fork returns when it fails

ASSUME MAXJOBSAssumption == MAXJOBS \in Nat \ {0}

ASSUME PidAssumption ==
  /\ NoPid \notin Pid
  /\ ForkFailed \notin Pid
  /\ NoPid # ForkFailed

Slot == 1 .. MAXJOBS
NULL == 0
JobState == {"UNDEF", "FG", "BG", "ST"}
Job == [pid : Pid \cup {NoPid}, jid : Nat, state : JobState]

clearjob == [pid |-> NoPid, jid |-> 0, state |-> "UNDEF"]

initjobs == [i \in Slot |-> clearjob]

\* Slots in a given state, free slots, and the slots of a process or a job ID.
InState(jobs, st) == {i \in Slot : jobs[i].state = st}
Free(jobs)        == {i \in Slot : jobs[i].pid = NoPid}
OfPid(jobs, p)    == {i \in Slot : jobs[i].pid = p}
OfJid(jobs, j)    == {i \in Slot : jobs[i].jid = j}

\* The searches scan the array upwards and stop at the first match.
FirstIn(S) == IF S = {} THEN NULL ELSE Min(S)

getjobpid(jobs, p) == IF p \in Pid THEN FirstIn(OfPid(jobs, p)) ELSE NULL
getjobjid(jobs, j) == IF j < 1 THEN NULL ELSE FirstIn(OfJid(jobs, j))

maxjid(jobs) == Max({0} \cup {jobs[i].jid : i \in Slot})

\* Faulty: takes any job that is not stopped for the foreground job.
fgpidNotStopped(jobs) ==
  LET fg == InState(jobs, "FG") \cup InState(jobs, "BG")
  IN  IF fg = {} THEN NoPid ELSE jobs[Min(fg)].pid

fgpid(jobs) ==
  LET fg == InState(jobs, "FG")
  IN  IF fg = {} THEN NoPid ELSE jobs[Min(fg)].pid

\* Faulty: wraps to 0, the job ID of a free entry.
BumpJidToZero(nextjid) == (nextjid + 1) % (MAXJOBS + 1)

\* nextjid++, back to 1 past MAXJOBS
BumpJid(nextjid) == IF nextjid + 1 > MAXJOBS THEN 1 ELSE nextjid + 1

\* Faulty: never tries the last entry.
addjobOffByOne(jobs, nextjid, p, st) ==
  IF p \in Pid /\ Free(jobs) \ {MAXJOBS} # {}
  THEN [jobs    |-> [jobs EXCEPT ![Min(Free(jobs))] =
                       [pid |-> p, jid |-> nextjid, state |-> st]],
        nextjid |-> BumpJid(nextjid)]
  ELSE [jobs |-> jobs, nextjid |-> nextjid]

\* Faulty: takes the last entry when none is free.
addjobOverwrite(jobs, nextjid, p, st) ==
  IF p \in Pid
  THEN [jobs    |-> [jobs EXCEPT ![Min(Free(jobs) \cup {MAXJOBS})] =
                       [pid |-> p, jid |-> nextjid, state |-> st]],
        nextjid |-> BumpJid(nextjid)]
  ELSE [jobs |-> jobs, nextjid |-> nextjid]

\* The updates return the array and nextjid together.  addjob leaves both
\* alone when the fork failed and when no entry is free ("Tried to create
\* too many jobs"); deletejob when the process is not on the list.
addjob(jobs, nextjid, p, st) ==
  IF p \in Pid /\ Free(jobs) # {}
  THEN [jobs    |-> [jobs EXCEPT ![Min(Free(jobs))] =
                       [pid |-> p, jid |-> nextjid, state |-> st]],
        nextjid |-> BumpJid(nextjid)]
  ELSE [jobs |-> jobs, nextjid |-> nextjid]

deletejob(jobs, nextjid, p) ==
  IF getjobpid(jobs, p) # NULL
  THEN LET left == [jobs EXCEPT ![getjobpid(jobs, p)] = clearjob]
       IN  [jobs |-> left, nextjid |-> maxjid(left) + 1]
  ELSE [jobs |-> jobs, nextjid |-> nextjid]
=============================================================================
