----------------------------- MODULE Forwarding -----------------------------
(***************************************************************************)
(* What the proxy promises to its clients and to the reader of its log.  Of    *)
(* every connection it passes on what the client sends, in order, and then     *)
(* what the server answers, in order; a log entry tells how much of the        *)
(* answer was passed on, and is made when there is no more to pass on.         *)
(***************************************************************************)
EXTENDS Integers, SequencesExt

CONSTANT Client

VARIABLES ask,      \* what each client sends
          answer,   \* what each server sends
          up,       \* what was passed on to the server
          down,     \* what was passed on to the client
          gone,     \* who has gone away: <<"client" or "server", connection>>
          entries,  \* the log
          running

vars == <<ask, answer, up, down, gone, entries, running>>

\* A message is a head, whose last line is the first blank one, and a body. The
\* length of the body is the last one that the head declares with a space.
Blanks(s) == {j \in DOMAIN s : s[j].kind = "blank"}
HeadComplete(s) == Blanks(s) # {}
HeadLength(s) == Min(Blanks(s))
Lengths(s) ==
  {j \in DOMAIN s : s[j].kind = "length" /\ s[j].what # "tight" /\ \A b \in Blanks(s) : j < b}
BodyLength(s) == IF Lengths(s) = {} THEN 0 ELSE s[Max(Lengths(s))].n

\* Of the message at the start of s: how long it is, and whether all is there.
MessageLength(s) == HeadLength(s) + BodyLength(s)
Complete(s) == HeadComplete(s) /\ Len(s) >= MessageLength(s)

Init ==
  /\ up = [c \in Client |-> <<>>]
  /\ down = [c \in Client |-> <<>>]
  /\ gone = {} /\ entries = {} /\ running = TRUE

Logged(c) == \E e \in entries : e.client = c

PassUp(c) ==
  /\ down[c] = <<>> /\ ~Logged(c)
  /\ \E n \in Len(up[c]) + 1 .. Len(ask[c]) :
       up' = [up EXCEPT ![c] = SubSeq(ask[c], 1, n)]
  /\ UNCHANGED <<down, entries, running>>

\* Unless the client has sent all it ever will, the answer comes after a
\* complete request.
MayAnswer(c) ==
  \/ Complete(ask[c]) /\ Len(up[c]) >= MessageLength(ask[c])
  \/ up[c] # <<>> /\ (~Complete(ask[c]) \/ <<"client", c>> \in gone)

PassDown(c) ==
  /\ MayAnswer(c) /\ ~Logged(c)
  /\ Len(down[c]) < Len(answer[c])
  /\ ~HeadComplete(down[c]) \/ Len(down[c]) < MessageLength(answer[c])
  /\ down' = [down EXCEPT ![c] = Append(@, answer[c][Len(@) + 1])]
  /\ UNCHANGED <<up, entries, running>>

Enter(c) ==
  /\ MayAnswer(c) /\ ~Logged(c)
  /\ \/ Complete(answer[c]) /\ Len(down[c]) = MessageLength(answer[c])
     \/ <<"server", c>> \in gone
  /\ entries' = entries \cup {[client |-> c, size |-> Len(down[c])]}
  /\ UNCHANGED <<up, down, running>>

GoesAway(k) == gone' = gone \cup {k} /\ UNCHANGED <<up, down, entries, running>>
Stop == running' = FALSE /\ UNCHANGED <<up, down, entries>>

Next ==
  /\ running
  /\ \/ \E c \in Client : (PassUp(c) \/ PassDown(c) \/ Enter(c)) /\ UNCHANGED gone
     \/ \E k \in {"client", "server"} \X Client : GoesAway(k)
     \/ Stop /\ UNCHANGED gone
  /\ UNCHANGED <<ask, answer>>
Spec == Init /\ [][Next]_vars
=============================================================================
