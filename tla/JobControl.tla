----------------------------- MODULE JobControl -----------------------------
(***************************************************************************)
(* What job control promises, after the comment that heads tsh.c ("Jobs     *)
(* states", "Job state transitions and enabling actions", "At most 1 job    *)
(* can be in the FG state"): a process is no job, or a job in one of three  *)
(* states, and moves between them as below.  One transition is added to     *)
(* that comment's list, a background job that stops, without which the      *)
(* shell does not implement it.                                             *)
(***************************************************************************)
EXTENDS Naturals, FiniteSets

CONSTANTS Process, MaxJobs

VARIABLE state      \* of each process: "none", "FG", "BG" or "ST"

Jobs == {p \in Process : state[p] # "none"}
Foreground == {p \in Process : state[p] = "FG"}

Move(p, from, to) ==
  /\ state[p] \in from
  /\ state' = [state EXCEPT ![p] = to]

Init == state = [p \in Process |-> "none"]

\* A command line starts a job, in the foreground only if nothing is there.
Start(p) ==
  /\ Cardinality(Jobs) < MaxJobs
  /\ \/ Move(p, {"none"}, "BG")
     \/ Foreground = {} /\ Move(p, {"none"}, "FG")

Stop(p) == Move(p, {"FG", "BG"}, "ST")

Background(p) == Move(p, {"ST"}, "BG")

ToForeground(p) == Foreground = {} /\ Move(p, {"ST", "BG"}, "FG")

Finish(p) == Move(p, {"FG", "BG", "ST"}, "none")

Next ==
  \E p \in Process :
    Start(p) \/ Stop(p) \/ Background(p) \/ ToForeground(p) \/ Finish(p)

Spec == Init /\ [][Next]_state
=============================================================================
