-------------------------- MODULE ProxyProperties --------------------------
(***************************************************************************)
(* What makes the proxy correct.                                            *)
(***************************************************************************)
EXTENDS Proxy

\* A type invariant.  A body that is read to its end in chunks of MAXLINE
\* leaves c_len at zero or below.
TypeOK ==
  /\ \A c \in Client :
       /\ t[c].fd \in 0 .. NFD /\ t[c].prx \in 0 .. NFD
       /\ t[c].c_len > -MAXLINE /\ t[c].s_len >= 0 /\ t[c].size >= 0
  /\ \A fd \in Fd : file[fd] \in {NoFile, Inherited} \cup Conn
  /\ \A k \in Conn : pos[k] \in 0 .. Len(stream[k])
  /\ \A p \in Client : heap[p] \in 0 .. NFD

\* The descriptors that thread c has to close, and the connections they are.
Held(c) ==
  CASE t[c].pc \in {"queued", "done"} -> {}
    [] t[c].pc = "start" -> {<<heap[t[c].arg], <<"client", c>>>>}
    [] t[c].pc \in {"line", "connect", "leave"} -> {<<t[c].fd, <<"client", c>>>>}
    [] OTHER -> {<<t[c].fd, <<"client", c>>>>, <<t[c].prx, <<"server", c>>>>}

\* Descriptors are numbers that the kernel hands out again: each thread's
\* descriptors stay its own connections on every path through doit, no other
\* thread closes them, and none stays open when its thread is done.  The
\* argument of a new thread is not overwritten by the next accept.
FdsAccounted ==
  {<<fd, file[fd]>> : fd \in {fd \in Fd : file[fd] \in Conn}} = UNION {Held(c) : c \in Client}

Side(side, f) == [c \in Client |-> f[<<side, c>>]]
Relay == INSTANCE Forwarding WITH
  ask <- Side("client", stream), answer <- Side("server", stream),
  up <- Side("server", sent), down <- Side("client", sent),
  gone <- {k \in Conn : peer[k] = "closed"},
  entries <- log, running <- process = "running"

\* Whatever the threads do to each other's descriptors, and whoever goes away
\* when: a server gets its own client's bytes in order, a client its own
\* server's, and the log the right sizes.
ImplementsForwarding == Relay!Spec

----------------------------------------------------------------------------
(* Scheduling: the kernel runs every thread that can go on.  A peer that ends  *)
(* its message too early does not stay for ever; one that has sent all may.    *)

Fairness ==
  /\ WF_vars(Main)
  /\ \A c \in Client : WF_vars(Thread(c))
  /\ \A k \in Conn : WF_vars(~Relay!Complete(stream[k]) /\ PeerCloses(k))
FairSpec == Spec /\ Fairness

\* The proxy waits for nobody for ever: every thread comes to its end, on
\* every path, unless the process ends (Open_clientfd and SIGPIPE may end it).
\* This is so for clients that end their sending side behind a body (Ending in
\* MCProxy); for those that keep it open RequestArrives has the counterexample.
TransfersEnd == \A c \in Client : <>(t[c].pc = "done" \/ process # "running")

\* grade.py, "Part I.3: POST": a client that has sent its request and waits
\* for the answer; the server expects all of the request.
WholeRequest(c) ==
  Len(sent[<<"server", c>>]) >= Relay!MessageLength(stream[<<"client", c>>])
Stays(c) == process = "running" /\ \A side \in {"client", "server"} : peer[<<side, c>>] # "closed"
RequestArrives ==
  \A c \in Client :
    (Relay!Complete(stream[<<"client", c>>]) /\ t[c].pc = "body") ~> (WholeRequest(c) \/ ~Stays(c))
=============================================================================
