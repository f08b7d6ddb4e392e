------------------------------- MODULE Proxy -------------------------------
(***************************************************************************)
(* The concurrent web proxy, icslabs/lab10/proxy.c with the rio functions of *)
(* csapp.c.  main accepts connections and starts a thread for each, which      *)
(* relays one request to a server and the answer back, reading and writing     *)
(* through file descriptors that all threads share.                          *)
(*                                                                         *)
(* What travels is a sequence of items: the lines of a head and the bytes of   *)
(* a body.  What a peer will send is fixed from the start: that it sends late   *)
(* cannot be told from a thread that runs late.  When a peer closes is not     *)
(* fixed.  Kernel buffers are large enough for every write.                   *)
(***************************************************************************)
EXTENDS Integers, SequencesExt

CONSTANTS Client,     \* connections; thread c serves connection c
          MAXLINE,    \* bytes read at once from a request body
          NFD,        \* file descriptors of the process
          Fickle      \* connections whose peers may go away at any time

ASSUME ProxyAssumption ==
  MAXLINE \in Nat \ {0} /\ NFD \in Nat /\ IsFiniteSet(Client) /\ Fickle \subseteq Client

Conn == {"client", "server"} \X Client
Fd == 1 .. NFD
NoFd == 0
NoFile == <<>>
Inherited == <<"inherited">>

\* An item has a kind, what is odd about it, and a number: a length, or which
\* byte it is.  The first line of a client is a request line whatever it says.
Item == [kind : {"request", "length", "header", "blank", "byte", "part"},
         what : {"none", "good", "malformed", "baduri", "nohost", "tight"}, n : Nat]
IsLine(i) == i.kind \in {"request", "length", "header", "blank"}

VARIABLES
  stream,   \* stream[k]: what the peer of connection k sends
  pos,      \* pos[k]: how much of it has been read
  peer,     \* the peer's end: not connected, open, no longer sending, closed
  sent,     \* what was written to connection k
  file,     \* the descriptor table
  heap,     \* the struct args that main allocates: a descriptor, or NoFd when free
  t,        \* the threads
  log,      \* the log on standard output
  process   \* running, or how it ended

vars == <<stream, pos, peer, sent, file, heap, t, log, process>>
socks == <<stream, pos, peer, sent>>

NewThread == [pc |-> "queued", arg |-> "none", fd |-> NoFd, prx |-> NoFd, request |-> <<>>,
              c_len |-> 0, s_len |-> 0, size |-> 0]

Init ==
  /\ stream \in [Conn -> Seq(Item)]
  /\ \A c \in Client : stream[<<"client", c>>] # <<>> =>
       stream[<<"client", c>>][1].kind \in {"request", "part"}
  /\ peer \in [Conn -> {"none", "open", "eof"}]
  /\ \A k \in Conn : peer[k] = "none" <=> k[1] = "server"
  /\ pos = [k \in Conn |-> 0]
  /\ sent = [k \in Conn |-> <<>>]
  /\ file \in [Fd -> {NoFile, Inherited}]
  /\ heap = [p \in Client |-> NoFd]
  /\ t = [c \in Client |-> NewThread]
  /\ log = {}
  /\ process = "running"

----------------------------------------------------------------------------
(* Descriptors, reading and writing.                                       *)

FreeFds == {fd \in Fd : file[fd] = NoFile}
LowestFree == CHOOSE fd \in FreeFds : \A other \in FreeFds : fd <= other

Ended(k) == peer[k] \in {"eof", "closed"}
Unread(k) == SubSeq(stream[k], pos[k] + 1, Len(stream[k]))

Read(k, n) == pos' = [pos EXCEPT ![k] = @ + n]

\* Rio_readlineb_w returns a line, or 0 at the end, in a line that is cut
\* off, and when the connection was reset and what was on the way is lost.
NextItem(k) == Head(Unread(k))
GetsLine(k) == Unread(k) # <<>> /\ IsLine(NextItem(k)) /\ Read(k, 1)
\* Faulty: a line that is cut off never ends.
GetsNoLineWaits(k) == Ended(k) /\ Unread(k) = <<>> /\ UNCHANGED pos
GetsNoLine(k) ==
  /\ \/ Ended(k) /\ \A i \in DOMAIN Unread(k) : Unread(k)[i].kind = "part"
     \/ peer[k] = "closed"
  /\ Read(k, Len(Unread(k)))

\* Rio_readnb_w waits for n bytes or the end.
GetsBytes(k, n, got) ==
  /\ \/ got = n /\ Len(Unread(k)) >= n
     \/ got = Len(Unread(k)) /\ got < n /\ Ended(k)
     \/ got = 0 /\ peer[k] = "closed"
  /\ Read(k, got)

\* A write to a closed connection may still be taken, fail, or raise SIGPIPE.
Writes(k, items) == sent' = [sent EXCEPT ![k] = @ \o items]
CannotWrite(k) == peer[k] = "closed"

Die(how) == process' = how /\ UNCHANGED <<socks, file, heap, t, log>>

----------------------------------------------------------------------------
(* main and the start of a thread.                                         *)

\* Faulty: one struct args for all threads.
MallocShared == CHOOSE p \in Client : TRUE
Malloc == CHOOSE p \in Client : heap[p] = NoFd

Accept(c, p) ==
  /\ t[c].pc = "queued"
  /\ FreeFds # {}
  /\ file' = [file EXCEPT ![LowestFree] = <<"client", c>>]
  /\ heap' = [heap EXCEPT ![p] = LowestFree]
  /\ t' = [t EXCEPT ![c].pc = "start", ![c].arg = p]
  /\ UNCHANGED <<socks, log, process>>

\* Faulty: the failure of accept is not noticed.
AcceptGoesOn ==
  /\ FreeFds = {}
  /\ \E c \in Client : t[c].pc = "queued" /\ t' = [t EXCEPT ![c].pc = "start", ![c].arg = c]
  /\ heap' = [p \in Client |-> -1]
  /\ UNCHANGED <<socks, file, log, process>>

\* Accept ends the process when there is no descriptor left.
AcceptFails == FreeFds = {} /\ (\E c \in Client : t[c].pc = "queued") /\ Die("exit")

Start(c) ==
  /\ t[c].pc = "start"
  /\ t' = [t EXCEPT ![c].pc = "line", ![c].fd = heap[t[c].arg]]
  /\ heap' = [heap EXCEPT ![t[c].arg] = NoFd]
  /\ UNCHANGED <<socks, file, log, process>>

----------------------------------------------------------------------------
(* doit.  From and To are the connections behind the descriptors.           *)

From(c) == file[t[c].fd]
To(c) == file[t[c].prx]

Goto(c, pc) == t' = [t EXCEPT ![c].pc = pc]
CloseServer(c) == file' = [file EXCEPT ![t[c].prx] = NoFile]
GiveUp(c) == CloseServer(c) /\ Goto(c, "leave")

\* The request line is rewritten: method, path, version.
ReadLine(c) ==
  /\ t[c].pc = "line"
  /\ \/ /\ GetsLine(From(c))
        /\ t' = [t EXCEPT ![c].pc = IF NextItem(From(c)).what \in {"malformed", "baduri"}
                                    THEN "leave" ELSE "connect",
                          ![c].request = <<NextItem(From(c))>>]
     \/ GetsNoLine(From(c)) /\ Goto(c, "leave")
  /\ UNCHANGED <<stream, peer, sent, file, heap, log, process>>

Reachable(c) == t[c].request[1].what # "nohost"

Connect(c) ==
  /\ t[c].pc = "connect"
  /\ FreeFds # {} /\ Reachable(c)
  /\ file' = [file EXCEPT ![LowestFree] = <<"server", c>>]
  /\ peer' = [peer EXCEPT ![<<"server", c>>] = "open"]
  /\ t' = [t EXCEPT ![c].pc = "head", ![c].prx = LowestFree]
  /\ UNCHANGED <<stream, pos, sent, heap, log, process>>

\* Open_clientfd does not return when open_clientfd fails.
ConnectFails(c) ==
  /\ t[c].pc = "connect"
  /\ FreeFds = {} \/ ~Reachable(c)
  /\ Die("exit")

\* sscanf(buf + 16) misses a number that stands right behind the colon.
Declared(i, len) == IF i.kind = "length" /\ i.what # "tight" THEN i.n ELSE len

ReadHead(c) ==
  /\ t[c].pc = "head"
  /\ \/ /\ GetsLine(From(c))
        /\ t' = [t EXCEPT ![c].request = Append(@, NextItem(From(c))),
                          ![c].c_len = Declared(NextItem(From(c)), @),
                          ![c].pc = IF NextItem(From(c)).kind = "blank" THEN "send" ELSE @]
     \/ GetsNoLine(From(c)) /\ Goto(c, "send")
  /\ UNCHANGED <<stream, peer, sent, file, heap, log, process>>

\* The items go out and then follows, or the write fails, or it ends the
\* process.
Write(c, k, items, then) ==
  \/ Writes(k, items) /\ then /\ UNCHANGED <<file, process>>
  \/ CannotWrite(k) /\ GiveUp(c) /\ UNCHANGED <<sent, process>>
  \/ CannotWrite(k) /\ process' = "SIGPIPE" /\ UNCHANGED <<sent, file, t>>

\* Faulty: the request body stays behind.
SendHeadOnly(c) ==
  /\ t[c].pc = "send"
  /\ Write(c, To(c), t[c].request, Goto(c, "answer"))
  /\ UNCHANGED <<stream, pos, peer, heap, log>>
SendHead(c) ==
  /\ t[c].pc = "send"
  /\ Write(c, To(c), t[c].request,
           Goto(c, IF t[c].c_len > 0 THEN "body" ELSE "answer"))
  /\ UNCHANGED <<stream, pos, peer, heap, log>>

\* As many bytes as there are, up to MAXLINE, of the request body or behind it.
RelayBody(c) ==
  /\ t[c].pc = "body"
  /\ \E n \in 0 .. MAXLINE :
       /\ GetsBytes(From(c), MAXLINE, n)
       /\ \/ n = 0 /\ GiveUp(c) /\ UNCHANGED <<sent, process>>
          \/ n > 0 /\ Write(c, To(c), SubSeq(Unread(From(c)), 1, n),
               t' = [t EXCEPT ![c].c_len = @ - n,
                              ![c].pc = IF t[c].c_len > n THEN "body" ELSE "answer"])
  /\ UNCHANGED <<stream, peer, heap, log>>

AfterLine(c, i, len) ==
  IF i.kind # "blank" THEN "answer" ELSE IF len > 0 THEN "bytes" ELSE "log"
RelayHead(c) ==
  /\ t[c].pc = "answer"
  /\ \/ /\ GetsLine(To(c))
        /\ Write(c, From(c), <<NextItem(To(c))>>,
             t' = [t EXCEPT ![c].size = @ + 1,
                            ![c].s_len = Declared(NextItem(To(c)), @),
                            ![c].pc = AfterLine(c, NextItem(To(c)), t[c].s_len)])
     \/ /\ GetsNoLine(To(c))
        /\ Goto(c, IF t[c].s_len > 0 THEN "bytes" ELSE "log")
        /\ UNCHANGED <<sent, file, process>>
  /\ UNCHANGED <<stream, peer, heap, log>>

RelayByte(c) ==
  /\ t[c].pc = "bytes"
  /\ \/ /\ GetsBytes(To(c), 1, 1)
        /\ Write(c, From(c), <<NextItem(To(c))>>,
             t' = [t EXCEPT ![c].size = @ + 1, ![c].s_len = @ - 1,
                            ![c].pc = IF t[c].s_len > 1 THEN "bytes" ELSE "log"])
     \/ GetsBytes(To(c), 1, 0) /\ GiveUp(c) /\ UNCHANGED <<sent, process>>
  /\ UNCHANGED <<stream, peer, heap, log>>

Log(c) ==
  /\ t[c].pc = "log"
  /\ log' = log \cup {[client |-> c, size |-> t[c].size]}
  /\ GiveUp(c)
  /\ UNCHANGED <<socks, heap, process>>

\* thread closes the client's connection.
Leave(c) ==
  /\ t[c].pc = "leave"
  /\ file' = [file EXCEPT ![t[c].fd] = NoFile]
  /\ Goto(c, "done")
  /\ UNCHANGED <<socks, heap, log, process>>

----------------------------------------------------------------------------

Doit(c) ==
  \/ ReadLine(c) \/ Connect(c) \/ ConnectFails(c) \/ ReadHead(c) \/ SendHead(c)
  \/ RelayBody(c) \/ RelayHead(c) \/ RelayByte(c) \/ Log(c)
Thread(c) == process = "running" /\ (Start(c) \/ Doit(c) \/ Leave(c))
Main == process = "running" /\ (AcceptFails \/ \E c \in Client : Accept(c, Malloc))

\* The far end of connection k goes away; after the thread's end this
\* would be of no effect.
PeerCloses(k) ==
  /\ process = "running"
  /\ k[2] \in Fickle /\ t[k[2]].pc # "done"
  /\ peer[k] \in {"open", "eof"}
  /\ peer' = [peer EXCEPT ![k] = "closed"]
  /\ UNCHANGED <<stream, pos, sent, file, heap, t, log, process>>

Next == Main \/ (\E c \in Client : Thread(c)) \/ (\E k \in Conn : PeerCloses(k))
Spec == Init /\ [][Next]_vars
=============================================================================
