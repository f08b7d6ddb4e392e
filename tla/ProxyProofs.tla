---------------------------- MODULE ProxyProofs ----------------------------
(***************************************************************************)
(* Proofs about the proxy's descriptors and what it relays, for any number of *)
(* connections and descriptors and whatever is sent over them.              *)
(***************************************************************************)
EXTENDS ProxyProperties, FiniteSetTheorems, NatSets

\* Where in doit a thread has the client's descriptor only, and where both.
OneFd == {"line", "connect", "leave"}
TwoFds == {"head", "send", "body", "answer", "bytes", "log"}
Pc == {"queued", "start", "done"} \cup OneFd \cup TwoFds

ThreadRecord ==
  [pc : Pc, arg : Client \cup {"none"}, fd : 0 .. NFD, prx : 0 .. NFD,
   request : Seq(Item), c_len : Int, s_len : Nat, size : Nat]

PosType ==
  /\ stream \in [Conn -> Seq(Item)]
  /\ pos \in [Conn -> Nat]
  /\ \A k \in Conn : pos[k] <= Len(stream[k])
FdType ==
  /\ t \in [Client -> ThreadRecord]
  /\ file \in [Fd -> {NoFile, Inherited} \cup Conn]
  /\ heap \in [Client -> 0 .. NFD]

\* What is left of a body is above zero while it is being read.
Lengths ==
  \A c \in Client :
    /\ t[c].c_len > -MAXLINE
    /\ t[c].pc = "body" => t[c].c_len > 0
    /\ t[c].pc = "bytes" => t[c].s_len > 0

\* The client's connection, which a new thread still finds in its argument.
HasClient(c) == t[c].pc \in {"start"} \cup OneFd \cup TwoFds
ClientFd(c) == IF t[c].pc = "start" THEN heap[t[c].arg] ELSE t[c].fd

\* What a thread holds is open and its own connection.
HeldOpen ==
  \A c \in Client :
    /\ t[c].pc = "start" => t[c].arg \in Client
    /\ HasClient(c) => ClientFd(c) \in Fd /\ file[ClientFd(c)] = <<"client", c>>
    /\ t[c].pc \in TwoFds => t[c].prx \in Fd /\ file[t[c].prx] = <<"server", c>>

\* A connection that is open is held by its own thread.
OpenHeld ==
  \A fd \in Fd, c \in Client :
    /\ file[fd] = <<"client", c>> => HasClient(c) /\ ClientFd(c) = fd
    /\ file[fd] = <<"server", c>> => t[c].pc \in TwoFds /\ t[c].prx = fd

\* An argument in use belongs to a thread that has not read it yet.
ArgsHeld ==
  \A p \in Client : heap[p] # NoFd => \E c \in Client : t[c].pc = "start" /\ t[c].arg = p

FdInv == FdType /\ HeldOpen /\ OpenHeld /\ ArgsHeld
ProxyInv == PosType /\ FdInv /\ Lengths

-----------------------------------------------------------------------------
(* The choices of the kernel and of malloc.                                *)

LEMMA LowestFreeIsFree ==
  ASSUME FreeFds # {}
  PROVE  LowestFree \in Fd /\ file[LowestFree] = NoFile
<1>1. FreeFds \subseteq Nat
  BY DEF FreeFds, Fd
<1>2. Min(FreeFds) \in FreeFds /\ \A fd \in FreeFds : Min(FreeFds) <= fd
  BY <1>1, MinOfNats
<1>3. LowestFree \in FreeFds
  BY <1>2 DEF LowestFree
<1> QED
  BY <1>3 DEF FreeFds

\* While a connection waits to be accepted there are fewer threads that have
\* not read their argument than there are arguments.
LEMMA MallocIsFree ==
  ASSUME FdType, ArgsHeld, NEW c \in Client, t[c].pc = "queued"
  PROVE  Malloc \in Client /\ heap[Malloc] = NoFd
<1> SUFFICES ASSUME \A p \in Client : heap[p] # NoFd
             PROVE  FALSE
  BY DEF Malloc
<1> DEFINE Others == Client \ {c}
           f == [d \in Others |-> IF t[d].pc = "start" /\ t[d].arg \in Client THEN t[d].arg ELSE c]
<1>1. f \in Surjection(Others, Client)
  <2>1. f \in [Others -> Client]
    OBVIOUS
  <2>2. \A p \in Client : \E d \in Others : f[d] = p
    <3> TAKE p \in Client
    <3>1. PICK d \in Client : t[d].pc = "start" /\ t[d].arg = p
      BY DEF ArgsHeld
    <3>2. d \in Others /\ f[d] = p
      BY <3>1
    <3> QED
      BY <3>2
  <2> QED
    BY <2>1, <2>2 DEF Surjection
<1>2. IsFiniteSet(Client) /\ Cardinality(Client) \in Nat
  BY ProxyAssumption, FS_CardinalityType
<1>3. IsFiniteSet(Others) /\ Cardinality(Others) = Cardinality(Client) - 1
  BY <1>2, FS_RemoveElement
<1>4. Cardinality(Client) <= Cardinality(Others)
  BY <1>1, <1>3, FS_Surjection
<1> QED
  BY <1>2, <1>3, <1>4

-----------------------------------------------------------------------------
(* Reading.                                                                *)

LEMMA UnreadType ==
  ASSUME PosType, NEW k \in Conn
  PROVE  Unread(k) \in Seq(Item) /\ Len(Unread(k)) = Len(stream[k]) - pos[k]
BY DEF PosType, Unread

LEMMA ReadType ==
  ASSUME PosType, NEW k \in Conn, NEW n \in 0 .. Len(Unread(k)), Read(k, n), stream' = stream
  PROVE  PosType'
BY UnreadType DEF PosType, Read

LEMMA GetsLineType ==
  ASSUME PosType, NEW k \in Conn, GetsLine(k), stream' = stream
  PROVE  PosType' /\ NextItem(k) \in Item
<1>1. Unread(k) \in Seq(Item) /\ Unread(k) # <<>>
  BY UnreadType DEF GetsLine
<1>2. 1 \in 0 .. Len(Unread(k)) /\ Head(Unread(k)) \in Item
  BY <1>1
<1> QED
  BY <1>2, ReadType DEF GetsLine, NextItem

LEMMA GetsNoLineType ==
  ASSUME PosType, NEW k \in Conn, GetsNoLine(k), stream' = stream
  PROVE  PosType'
<1>1. Len(Unread(k)) \in Nat
  BY UnreadType
<1>2. Len(Unread(k)) \in 0 .. Len(Unread(k))
  BY <1>1
<1> QED
  BY <1>2, ReadType DEF GetsNoLine

LEMMA GetsBytesType ==
  ASSUME PosType, NEW k \in Conn, NEW n \in Nat, NEW got \in 0 .. n, GetsBytes(k, n, got), stream' = stream
  PROVE  PosType' /\ got <= Len(Unread(k))
<1>1. Len(Unread(k)) \in Nat
  BY UnreadType
<1>2. got \in 0 .. Len(Unread(k))
  BY <1>1 DEF GetsBytes
<1> QED
  BY <1>1, <1>2, ReadType DEF GetsBytes
-----------------------------------------------------------------------------
(* What a step of a thread does to the descriptors.                        *)

\* A thread goes on with the descriptors it has.
LEMMA LocalMove ==
  ASSUME FdInv, NEW c \in Client, t' \in [Client -> ThreadRecord],
         \A d \in Client \ {c} : t'[d] = t[d], file' = file, heap' = heap,
         t'[c].fd = t[c].fd, t'[c].prx = t[c].prx,
         \/ t[c].pc \in OneFd /\ t'[c].pc \in OneFd
         \/ t[c].pc \in TwoFds /\ t'[c].pc \in TwoFds
  PROVE  FdInv'
<1>1. FdType'
  BY DEF FdInv, FdType
<1>2. \A d \in Client : /\ HasClient(d)' = HasClient(d) /\ ClientFd(d)' = ClientFd(d)
                        /\ t'[d].prx = t[d].prx
                        /\ (t'[d].pc \in TwoFds) = (t[d].pc \in TwoFds)
                        /\ (t'[d].pc = "start") = (t[d].pc = "start")
                        /\ t'[d].pc = "start" => t'[d].arg = t[d].arg
  <2> TAKE d \in Client
  <2>1. CASE d = c
    BY <2>1 DEF HasClient, ClientFd, OneFd, TwoFds
  <2>2. CASE d # c
    BY <2>2 DEF HasClient, ClientFd, OneFd, TwoFds
  <2> QED
    BY <2>1, <2>2
<1>3. HeldOpen'
  BY <1>2 DEF FdInv, HeldOpen
<1>4. OpenHeld'
  BY <1>2 DEF FdInv, OpenHeld
<1>5. ArgsHeld'
  BY <1>2 DEF FdInv, ArgsHeld
<1> QED
  BY <1>1, <1>3, <1>4, <1>5 DEF FdInv

\* The far ends of a thread's descriptors.
LEMMA Ends ==
  ASSUME FdInv, NEW c \in Client
  PROVE  /\ t[c].pc \in OneFd \cup TwoFds => From(c) = <<"client", c>> /\ From(c) \in Conn
         /\ t[c].pc \in TwoFds => To(c) = <<"server", c>> /\ To(c) \in Conn
<1>1. <<"client", c>> \in Conn /\ <<"server", c>> \in Conn
  BY DEF Conn
<1>2. t[c].pc \in OneFd \cup TwoFds => HasClient(c) /\ ClientFd(c) = t[c].fd
  BY DEF HasClient, ClientFd, OneFd, TwoFds
<1> QED
  BY <1>1, <1>2 DEF FdInv, HeldOpen, From, To

LEMMA ConnNoFile == NoFile \notin Conn
BY DEF NoFile, Conn

\* A thread that gives up closes the server's descriptor and no other.
LEMMA GiveUpMove ==
  ASSUME FdInv, NEW c \in Client, t[c].pc \in TwoFds, GiveUp(c), heap' = heap
  PROVE  FdInv' /\ t'[c].c_len = t[c].c_len /\ t'[c].pc = "leave"
         /\ \A d \in Client \ {c} : t'[d] = t[d]
<1>1. /\ t' \in [Client -> ThreadRecord]
      /\ t'[c].pc = "leave" /\ t'[c].fd = t[c].fd /\ t'[c].c_len = t[c].c_len
      /\ \A d \in Client \ {c} : t'[d] = t[d]
  BY DEF FdInv, FdType, ThreadRecord, GiveUp, Goto, Pc, OneFd
<1>2. t[c].prx \in Fd /\ file[t[c].prx] = <<"server", c>>
  BY DEF FdInv, HeldOpen
<1>3. /\ file'[t[c].prx] = NoFile
      /\ \A fd \in Fd \ {t[c].prx} : file'[fd] = file[fd]
      /\ file' \in [Fd -> {NoFile, Inherited} \cup Conn]
  BY <1>2 DEF FdInv, FdType, GiveUp, CloseServer
<1>4. FdType'
  BY <1>1, <1>3 DEF FdInv, FdType
<1>5. \A d \in Client : /\ HasClient(d)' = HasClient(d) /\ ClientFd(d)' = ClientFd(d)
                        /\ (t'[d].pc = "start") = (t[d].pc = "start")
                        /\ t'[d].pc = "start" => t'[d].arg = t[d].arg
                        /\ (t'[d].pc \in TwoFds) = (t[d].pc \in TwoFds /\ d # c)
                        /\ d # c => t'[d].prx = t[d].prx
  <2> TAKE d \in Client
  <2>1. CASE d = c
    BY <1>1, <2>1 DEF HasClient, ClientFd, OneFd, TwoFds
  <2>2. CASE d # c
    BY <1>1, <2>2 DEF HasClient, ClientFd, OneFd, TwoFds
  <2> QED
    BY <2>1, <2>2
<1>6. HeldOpen'
  <2> SUFFICES ASSUME NEW d \in Client PROVE HeldOpen!(d)'
    BY DEF HeldOpen
  <2>1. HeldOpen!(d)
    BY DEF FdInv, HeldOpen
  <2>2. HasClient(d) => ClientFd(d) # t[c].prx
    BY <1>2, <2>1
  <2>3. t[d].pc \in TwoFds /\ d # c => t[d].prx # t[c].prx
    BY <1>2, <2>1
  <2> QED
    BY <1>3, <1>5, <2>1, <2>2, <2>3
<1>7. OpenHeld'
  <2> SUFFICES ASSUME NEW fd \in Fd, NEW d \in Client PROVE OpenHeld!(fd, d)'
    BY DEF OpenHeld
  <2>1. OpenHeld!(fd, d) /\ OpenHeld!(fd, c)
    BY DEF FdInv, OpenHeld
  <2>2. CASE fd = t[c].prx
    BY <1>3, <2>2, ConnNoFile DEF Conn
  <2>3. CASE fd # t[c].prx
    BY <1>2, <1>3, <1>5, <2>1, <2>3
  <2> QED
    BY <2>2, <2>3
<1>8. ArgsHeld'
  BY <1>5 DEF FdInv, ArgsHeld
<1> QED
  BY <1>1, <1>4, <1>6, <1>7, <1>8 DEF FdInv

LEMMA AcceptMove ==
  ASSUME FdInv, NEW c \in Client, Accept(c, Malloc)
  PROVE  FdInv' /\ t'[c].c_len = t[c].c_len /\ t'[c].pc = "start"
         /\ \A d \in Client \ {c} : t'[d] = t[d]
<1> DEFINE p == Malloc
           l == LowestFree
<1>1. p \in Client /\ heap[p] = NoFd
  BY MallocIsFree DEF FdInv, Accept
<1>2. l \in Fd /\ file[l] = NoFile
  BY LowestFreeIsFree DEF Accept
<1>3. l \in 0 .. NFD /\ l # NoFd /\ <<"client", c>> \in Conn
  BY <1>2, ProxyAssumption DEF Fd, NoFd, Conn
<1> HIDE DEF p, l
<1>4. /\ t[c].pc = "queued"
      /\ file' = [file EXCEPT ![l] = <<"client", c>>]
      /\ heap' = [heap EXCEPT ![p] = l]
      /\ t' = [t EXCEPT ![c].pc = "start", ![c].arg = p]
  BY DEF Accept, p, l
<1>5. /\ t' \in [Client -> ThreadRecord]
      /\ t'[c].pc = "start" /\ t'[c].arg = p /\ t'[c].c_len = t[c].c_len
      /\ \A d \in Client \ {c} : t'[d] = t[d]
  <2>1. t \in [Client -> ThreadRecord] /\ "start" \in Pc
    BY DEF FdInv, FdType, Pc
  <2> QED
    BY <1>1, <1>4, <2>1 DEF ThreadRecord
<1>6. /\ file'[l] = <<"client", c>>
      /\ \A fd \in Fd \ {l} : file'[fd] = file[fd]
      /\ heap'[p] = l
      /\ \A q \in Client \ {p} : heap'[q] = heap[q]
  BY <1>1, <1>2, <1>4 DEF FdInv, FdType
<1>7. FdType'
  BY <1>1, <1>2, <1>3, <1>4, <1>5 DEF FdInv, FdType
<1>8. \A d \in Client \ {c} :
        /\ t[d].pc = "start" => t[d].arg \in Client /\ heap[t[d].arg] \in Fd
        /\ t[d].pc = "start" => t[d].arg # p
        /\ HasClient(d)' = HasClient(d) /\ ClientFd(d)' = ClientFd(d)
  <2> TAKE d \in Client \ {c}
  <2>1. t[d].pc = "start" => t[d].arg \in Client /\ heap[t[d].arg] \in Fd
    BY DEF FdInv, HeldOpen, HasClient, ClientFd
  <2>2. t[d].pc = "start" => t[d].arg # p
    BY <1>1, <2>1 DEF Fd, NoFd
  <2> QED
    BY <1>5, <1>6, <2>1, <2>2 DEF HasClient, ClientFd
<1>9. /\ ~HasClient(c) /\ t[c].pc \notin TwoFds /\ t'[c].pc \notin TwoFds
      /\ HasClient(c)' /\ ClientFd(c)' = l
  BY <1>1, <1>4, <1>5, <1>6 DEF HasClient, ClientFd, OneFd, TwoFds
<1>10. HeldOpen'
  <2> SUFFICES ASSUME NEW d \in Client PROVE HeldOpen!(d)'
    BY DEF HeldOpen
  <2>1. HeldOpen!(d)
    BY DEF FdInv, HeldOpen
  <2>2. CASE d = c
    BY <1>1, <1>2, <1>5, <1>6, <1>9, <2>2
  <2>3. CASE d # c
    <3>1. HasClient(d) => ClientFd(d) # l
      BY <1>2, <2>1, ConnNoFile DEF Conn
    <3>2. t[d].pc \in TwoFds => t[d].prx # l
      BY <1>2, <2>1, ConnNoFile DEF Conn
    <3> QED
      BY <1>5, <1>6, <1>8, <2>1, <2>3, <3>1, <3>2
  <2> QED
    BY <2>2, <2>3
<1>11. OpenHeld'
  <2> SUFFICES ASSUME NEW fd \in Fd, NEW d \in Client PROVE OpenHeld!(fd, d)'
    BY DEF OpenHeld
  <2>1. OpenHeld!(fd, d)
    BY DEF FdInv, OpenHeld
  <2>2. CASE fd = l
    BY <1>6, <1>9, <2>2
  <2>3. CASE fd # l
    BY <1>5, <1>6, <1>8, <1>9, <2>1, <2>3
  <2> QED
    BY <2>2, <2>3
<1>12. ArgsHeld'
  BY <1>4, <1>5, <1>6 DEF FdInv, ArgsHeld
<1> QED
  BY <1>5, <1>7, <1>10, <1>11, <1>12 DEF FdInv

LEMMA StartMove ==
  ASSUME FdInv, NEW c \in Client, Start(c)
  PROVE  FdInv' /\ t'[c].c_len = t[c].c_len /\ t'[c].pc = "line"
         /\ \A d \in Client \ {c} : t'[d] = t[d]
<1> DEFINE p == t[c].arg
           l == heap[p]
<1>1. /\ t[c].pc = "start" /\ p \in Client /\ l \in Fd /\ file[l] = <<"client", c>>
  BY DEF Start, FdInv, HeldOpen, HasClient, ClientFd
<1>2. l \in 0 .. NFD /\ l # NoFd /\ NoFd \in 0 .. NFD
  BY <1>1, ProxyAssumption DEF Fd, NoFd
<1>3. /\ t' = [t EXCEPT ![c].pc = "line", ![c].fd = l]
      /\ heap' = [heap EXCEPT ![p] = NoFd]
      /\ file' = file
  BY DEF Start
<1> HIDE DEF l
<1>4. /\ t' \in [Client -> ThreadRecord]
      /\ t'[c].pc = "line" /\ t'[c].fd = l /\ t'[c].c_len = t[c].c_len
      /\ \A d \in Client \ {c} : t'[d] = t[d]
  <2>1. t \in [Client -> ThreadRecord] /\ "line" \in Pc
    BY DEF FdInv, FdType, Pc, OneFd
  <2> QED
    BY <1>2, <1>3, <2>1 DEF ThreadRecord
<1>5. heap'[p] = NoFd /\ \A q \in Client \ {p} : heap'[q] = heap[q]
  BY <1>1, <1>3 DEF FdInv, FdType
<1>6. FdType'
  BY <1>1, <1>2, <1>3, <1>4 DEF FdInv, FdType
<1>7. \A d \in Client \ {c} : t[d].pc = "start" => t[d].arg \in Client /\ t[d].arg # p
  <2> SUFFICES ASSUME NEW d \in Client \ {c}, t[d].pc = "start"
               PROVE  t[d].arg \in Client /\ t[d].arg # p
    OBVIOUS
  <2>1. t[d].arg \in Client /\ file[heap[t[d].arg]] = <<"client", d>>
    BY DEF FdInv, HeldOpen, HasClient, ClientFd
  <2> QED
    BY <1>1, <2>1 DEF l
<1>8. \A d \in Client : /\ HasClient(d)' = HasClient(d) /\ ClientFd(d)' = ClientFd(d)
                        /\ (t'[d].pc \in TwoFds) = (t[d].pc \in TwoFds)
                        /\ t[d].pc \in TwoFds => t'[d].prx = t[d].prx
                        /\ t'[d].pc = "start" => t[d].pc = "start" /\ t'[d].arg = t[d].arg
  <2> TAKE d \in Client
  <2>1. CASE d = c
    BY <1>1, <1>4, <2>1 DEF HasClient, ClientFd, OneFd, TwoFds, l
  <2>2. CASE d # c
    BY <1>4, <1>5, <1>7, <2>2 DEF HasClient, ClientFd, OneFd, TwoFds
  <2> QED
    BY <2>1, <2>2
<1>9. HeldOpen'
  BY <1>3, <1>8 DEF FdInv, HeldOpen
<1>10. OpenHeld'
  BY <1>3, <1>8 DEF FdInv, OpenHeld, HeldOpen
<1>11. ArgsHeld'
  BY <1>4, <1>5 DEF FdInv, ArgsHeld
<1> QED
  BY <1>4, <1>6, <1>9, <1>10, <1>11 DEF FdInv

LEMMA ConnectMove ==
  ASSUME FdInv, NEW c \in Client, Connect(c)
  PROVE  FdInv' /\ t'[c].c_len = t[c].c_len /\ t'[c].pc = "head"
         /\ \A d \in Client \ {c} : t'[d] = t[d]
<1> DEFINE l == LowestFree
<1>1. l \in Fd /\ file[l] = NoFile
  BY LowestFreeIsFree DEF Connect
<1>2. l \in 0 .. NFD /\ <<"server", c>> \in Conn
  BY <1>1, ProxyAssumption DEF Fd, Conn
<1> HIDE DEF l
<1>3. /\ t[c].pc = "connect"
      /\ file' = [file EXCEPT ![l] = <<"server", c>>]
      /\ heap' = heap
      /\ t' = [t EXCEPT ![c].pc = "head", ![c].prx = l]
  BY DEF Connect, l
<1>4. /\ t' \in [Client -> ThreadRecord]
      /\ t'[c].pc = "head" /\ t'[c].prx = l /\ t'[c].fd = t[c].fd /\ t'[c].c_len = t[c].c_len
      /\ \A d \in Client \ {c} : t'[d] = t[d]
  <2>1. t \in [Client -> ThreadRecord] /\ "head" \in Pc
    BY DEF FdInv, FdType, Pc, TwoFds
  <2> QED
    BY <1>2, <1>3, <2>1 DEF ThreadRecord
<1>5. file'[l] = <<"server", c>> /\ \A fd \in Fd \ {l} : file'[fd] = file[fd]
  BY <1>1, <1>3 DEF FdInv, FdType
<1>6. FdType'
  BY <1>1, <1>2, <1>3, <1>4 DEF FdInv, FdType
<1>7. \A d \in Client : /\ HasClient(d)' = HasClient(d) /\ ClientFd(d)' = ClientFd(d)
                        /\ t'[d].pc = "start" => t'[d].arg = t[d].arg
                        /\ (t'[d].pc = "start") = (t[d].pc = "start")
  <2> TAKE d \in Client
  <2>1. CASE d = c
    BY <1>3, <1>4, <2>1 DEF HasClient, ClientFd, OneFd, TwoFds
  <2>2. CASE d # c
    BY <1>3, <1>4, <2>2 DEF HasClient, ClientFd
  <2> QED
    BY <2>1, <2>2
<1>8. t[c].pc \notin TwoFds /\ t'[c].pc \in TwoFds
  BY <1>3, <1>4 DEF TwoFds
<1>9. HeldOpen'
  <2> SUFFICES ASSUME NEW d \in Client PROVE HeldOpen!(d)'
    BY DEF HeldOpen
  <2>1. HeldOpen!(d)
    BY DEF FdInv, HeldOpen
  <2>2. HasClient(d) => ClientFd(d) # l
    BY <1>1, <2>1, ConnNoFile DEF Conn
  <2>3. t[d].pc \in TwoFds => t[d].prx # l
    BY <1>1, <2>1, ConnNoFile DEF Conn
  <2>4. CASE d = c
    BY <1>1, <1>4, <1>5, <1>7, <2>1, <2>2, <2>4
  <2>5. CASE d # c
    BY <1>4, <1>5, <1>7, <2>1, <2>2, <2>3, <2>5
  <2> QED
    BY <2>4, <2>5
<1>10. OpenHeld'
  <2> SUFFICES ASSUME NEW fd \in Fd, NEW d \in Client PROVE OpenHeld!(fd, d)'
    BY DEF OpenHeld
  <2>1. OpenHeld!(fd, d)
    BY DEF FdInv, OpenHeld
  <2>2. CASE fd = l
    BY <1>4, <1>5, <1>8, <2>2
  <2>3. CASE fd # l
    BY <1>4, <1>5, <1>7, <1>8, <2>1, <2>3
  <2> QED
    BY <2>2, <2>3
<1>11. ArgsHeld'
  BY <1>3, <1>4 DEF FdInv, ArgsHeld
<1> QED
  BY <1>4, <1>6, <1>9, <1>10, <1>11 DEF FdInv

LEMMA LeaveMove ==
  ASSUME FdInv, NEW c \in Client, Leave(c)
  PROVE  FdInv' /\ t'[c].c_len = t[c].c_len /\ t'[c].pc = "done"
         /\ \A d \in Client \ {c} : t'[d] = t[d]
<1> DEFINE l == t[c].fd
<1>1. t[c].pc = "leave" /\ heap' = heap /\ file' = [file EXCEPT ![l] = NoFile]
  BY DEF Leave
<1>2. l \in Fd /\ file[l] = <<"client", c>>
  BY <1>1 DEF FdInv, HeldOpen, HasClient, ClientFd, OneFd
<1>3. /\ t' \in [Client -> ThreadRecord]
      /\ t'[c].pc = "done" /\ t'[c].c_len = t[c].c_len
      /\ \A d \in Client \ {c} : t'[d] = t[d]
  BY DEF Leave, Goto, FdInv, FdType, ThreadRecord, Pc
<1> HIDE DEF l
<1>4. /\ file'[l] = NoFile
      /\ \A fd \in Fd \ {l} : file'[fd] = file[fd]
      /\ file' \in [Fd -> {NoFile, Inherited} \cup Conn]
  BY <1>1, <1>2 DEF FdInv, FdType
<1>5. FdType'
  BY <1>1, <1>3, <1>4 DEF FdInv, FdType
<1>6. \A d \in Client : /\ HasClient(d)' = (HasClient(d) /\ d # c)
                        /\ d # c => ClientFd(d)' = ClientFd(d)
                        /\ (t'[d].pc \in TwoFds) = (t[d].pc \in TwoFds)
                        /\ t[d].pc \in TwoFds => t'[d].prx = t[d].prx
                        /\ (t'[d].pc = "start") = (t[d].pc = "start")
                        /\ t'[d].pc = "start" => t'[d].arg = t[d].arg
  <2> TAKE d \in Client
  <2>1. CASE d = c
    BY <1>1, <1>3, <2>1 DEF HasClient, OneFd, TwoFds
  <2>2. CASE d # c
    BY <1>1, <1>3, <2>2 DEF HasClient, ClientFd
  <2> QED
    BY <2>1, <2>2
<1>7. HeldOpen'
  <2> SUFFICES ASSUME NEW d \in Client PROVE HeldOpen!(d)'
    BY DEF HeldOpen
  <2>1. HeldOpen!(d)
    BY DEF FdInv, HeldOpen
  <2>2. HasClient(d) /\ d # c => ClientFd(d) # l
    BY <1>2, <2>1
  <2>3. t[d].pc \in TwoFds => t[d].prx # l
    BY <1>2, <2>1
  <2> QED
    BY <1>4, <1>6, <2>1, <2>2, <2>3
<1>8. OpenHeld'
  <2> SUFFICES ASSUME NEW fd \in Fd, NEW d \in Client PROVE OpenHeld!(fd, d)'
    BY DEF OpenHeld
  <2>1. OpenHeld!(fd, d)
    BY DEF FdInv, OpenHeld
  <2>2. CASE fd = l
    BY <1>4, <2>2, ConnNoFile DEF Conn
  <2>3. CASE fd # l
    <3>1. ~(d = c /\ file[fd] = <<"client", c>>)
      <4>1. t[c].pc # "start"
        BY <1>1
      <4> QED
        BY <2>1, <2>3, <4>1 DEF ClientFd, l
    <3> QED
      BY <1>4, <1>6, <2>1, <2>3, <3>1
  <2> QED
    BY <2>2, <2>3
<1>9. ArgsHeld'
  BY <1>1, <1>6 DEF FdInv, ArgsHeld
<1> QED
  BY <1>3, <1>5, <1>7, <1>8, <1>9 DEF FdInv
-----------------------------------------------------------------------------
(* What a step does to the lengths, and to all of the invariant.            *)

LEMMA LengthsMove ==
  ASSUME Lengths, NEW c \in Client, \A d \in Client \ {c} : t'[d] = t[d],
         t'[c].c_len > -MAXLINE,
         t'[c].pc = "body" => t'[c].c_len > 0, t'[c].pc = "bytes" => t'[c].s_len > 0
  PROVE  Lengths'
BY DEF Lengths

LEMMA DeclaredType ==
  ASSUME NEW i \in Item, NEW len \in Int
  PROVE  Declared(i, len) \in Nat \/ Declared(i, len) = len
BY DEF Declared, Item

LEMMA GiveUpKeeps ==
  ASSUME ProxyInv, PosType', NEW c \in Client, t[c].pc \in TwoFds, GiveUp(c), heap' = heap
  PROVE  ProxyInv'
<1>1. /\ FdInv' /\ t'[c].c_len = t[c].c_len /\ t'[c].pc = "leave"
      /\ \A d \in Client \ {c} : t'[d] = t[d]
  BY GiveUpMove DEF ProxyInv
<1>2. Lengths'
  BY <1>1, LengthsMove DEF ProxyInv, Lengths
<1> QED
  BY <1>1, <1>2 DEF ProxyInv

LEMMA RestKeeps ==
  ASSUME ProxyInv, PosType', UNCHANGED <<t, file, heap>>
  PROVE  ProxyInv'
<1>1. FdInv'
  BY DEF ProxyInv, FdInv, FdType, HeldOpen, OpenHeld, ArgsHeld, HasClient, ClientFd
<1> QED
  BY <1>1 DEF ProxyInv, Lengths

LEMMA MainKeeps == ProxyInv /\ Main => ProxyInv'
<1> SUFFICES ASSUME ProxyInv, Main PROVE ProxyInv'
  OBVIOUS
<1>1. PosType'
  BY DEF Main, AcceptFails, Accept, Die, socks, ProxyInv, PosType
<1>2. CASE AcceptFails
  BY <1>1, <1>2, RestKeeps DEF AcceptFails, Die
<1>3. ASSUME NEW c \in Client, Accept(c, Malloc)
      PROVE  ProxyInv'
  <2>1. /\ FdInv' /\ t'[c].c_len = t[c].c_len /\ t'[c].pc = "start"
        /\ \A d \in Client \ {c} : t'[d] = t[d]
    BY <1>3, AcceptMove DEF ProxyInv
  <2>2. Lengths'
    BY <2>1, LengthsMove DEF ProxyInv, Lengths
  <2> QED
    BY <1>1, <2>1, <2>2 DEF ProxyInv
<1> QED
  BY <1>2, <1>3 DEF Main

LEMMA StartKeeps ==
  ASSUME ProxyInv, NEW c \in Client, Start(c)
  PROVE  ProxyInv'
<1>1. /\ FdInv' /\ t'[c].c_len = t[c].c_len /\ t'[c].pc = "line"
      /\ \A d \in Client \ {c} : t'[d] = t[d]
  BY StartMove DEF ProxyInv
<1>2. PosType' /\ Lengths'
  BY <1>1, LengthsMove DEF Start, socks, ProxyInv, PosType, Lengths
<1> QED
  BY <1>1, <1>2 DEF ProxyInv

LEMMA LeaveKeeps ==
  ASSUME ProxyInv, NEW c \in Client, Leave(c)
  PROVE  ProxyInv'
<1>1. /\ FdInv' /\ t'[c].c_len = t[c].c_len /\ t'[c].pc = "done"
      /\ \A d \in Client \ {c} : t'[d] = t[d]
  BY LeaveMove DEF ProxyInv
<1>2. PosType' /\ Lengths'
  BY <1>1, LengthsMove DEF Leave, socks, ProxyInv, PosType, Lengths
<1> QED
  BY <1>1, <1>2 DEF ProxyInv

LEMMA ConnectKeeps ==
  ASSUME ProxyInv, NEW c \in Client, Connect(c)
  PROVE  ProxyInv'
<1>1. /\ FdInv' /\ t'[c].c_len = t[c].c_len /\ t'[c].pc = "head"
      /\ \A d \in Client \ {c} : t'[d] = t[d]
  BY ConnectMove DEF ProxyInv
<1>2. PosType' /\ Lengths'
  BY <1>1, LengthsMove DEF Connect, ProxyInv, PosType, Lengths
<1> QED
  BY <1>1, <1>2 DEF ProxyInv

\* A thread goes on at next.
LEMMA GotoMove ==
  ASSUME ProxyInv, NEW c \in Client, NEW next \in Pc, Goto(c, next)
  PROVE  /\ t' \in [Client -> ThreadRecord]
         /\ t'[c].pc = next /\ t'[c].fd = t[c].fd /\ t'[c].prx = t[c].prx
         /\ t'[c].c_len = t[c].c_len /\ t'[c].s_len = t[c].s_len
         /\ \A d \in Client \ {c} : t'[d] = t[d]
<1>1. t \in [Client -> ThreadRecord] /\ t' = [t EXCEPT ![c].pc = next]
  BY DEF Goto, ProxyInv, FdInv, FdType
<1> QED
  BY <1>1 DEF ThreadRecord

LEMMA ReadLineKeeps ==
  ASSUME ProxyInv, NEW c \in Client, ReadLine(c)
  PROVE  ProxyInv'
<1>1. t[c].pc = "line" /\ t[c].pc \in OneFd /\ UNCHANGED <<stream, file, heap>>
  BY DEF ReadLine, OneFd
<1>2. From(c) \in Conn
  BY <1>1, Ends DEF ProxyInv
<1>3. PosType' /\ (GetsLine(From(c)) => NextItem(From(c)) \in Item)
  BY <1>1, <1>2, GetsLineType, GetsNoLineType DEF ReadLine, ProxyInv
<1>4. /\ t' \in [Client -> ThreadRecord]
      /\ t'[c].pc \in OneFd /\ t'[c].fd = t[c].fd /\ t'[c].prx = t[c].prx
      /\ t'[c].c_len = t[c].c_len
      /\ \A d \in Client \ {c} : t'[d] = t[d]
  <2>1. CASE GetsNoLine(From(c)) /\ Goto(c, "leave")
    BY <2>1, GotoMove DEF Pc, OneFd
  <2>2. CASE /\ GetsLine(From(c))
             /\ t' = [t EXCEPT ![c].pc = IF NextItem(From(c)).what \in {"malformed", "baduri"}
                                         THEN "leave" ELSE "connect",
                               ![c].request = <<NextItem(From(c))>>]
    <3> DEFINE request == <<NextItem(From(c))>>
               next == IF NextItem(From(c)).what \in {"malformed", "baduri"}
                       THEN "leave" ELSE "connect"
    <3>1. request \in Seq(Item) /\ next \in Pc /\ next \in OneFd
      BY <1>3, <2>2 DEF Pc, OneFd
    <3>2. t' = [t EXCEPT ![c].pc = next, ![c].request = request]
      BY <2>2
    <3>3. t \in [Client -> ThreadRecord]
      BY DEF ProxyInv, FdInv, FdType
    <3> HIDE DEF request, next
    <3> QED
      BY <3>1, <3>2, <3>3 DEF ThreadRecord
  <2> QED
    BY <2>1, <2>2 DEF ReadLine
<1>5. FdInv'
  BY <1>1, <1>4, LocalMove DEF ProxyInv
<1>6. Lengths'
  BY <1>4, LengthsMove DEF ProxyInv, Lengths, OneFd
<1> QED
  BY <1>3, <1>5, <1>6 DEF ProxyInv

LEMMA ReadHeadKeeps ==
  ASSUME ProxyInv, NEW c \in Client, ReadHead(c)
  PROVE  ProxyInv'
<1>1. t[c].pc = "head" /\ t[c].pc \in TwoFds /\ UNCHANGED <<stream, file, heap>>
  BY DEF ReadHead, TwoFds
<1>2. From(c) \in Conn
  BY <1>1, Ends DEF ProxyInv
<1>3. PosType' /\ (GetsLine(From(c)) => NextItem(From(c)) \in Item)
  BY <1>1, <1>2, GetsLineType, GetsNoLineType DEF ReadHead, ProxyInv
<1>4. /\ t[c] \in ThreadRecord /\ t[c].c_len \in Int
      /\ GetsLine(From(c)) => Declared(NextItem(From(c)), t[c].c_len) \in Int
  BY <1>3, DeclaredType DEF ProxyInv, FdInv, FdType, ThreadRecord
<1>5. /\ t' \in [Client -> ThreadRecord]
      /\ t'[c].pc \in {"head", "send"} /\ t'[c].fd = t[c].fd /\ t'[c].prx = t[c].prx
      /\ t'[c].c_len = t[c].c_len \/ t'[c].c_len \in Nat
      /\ \A d \in Client \ {c} : t'[d] = t[d]
  <2>1. CASE GetsNoLine(From(c)) /\ Goto(c, "send")
    BY <2>1, GotoMove DEF Pc, TwoFds
  <2>2. CASE GetsLine(From(c)) /\ t' = [t EXCEPT ![c].request = Append(@, NextItem(From(c))),
                          ![c].c_len = Declared(NextItem(From(c)), @),
                          ![c].pc = IF NextItem(From(c)).kind = "blank" THEN "send" ELSE @]
    <3> DEFINE request == Append(t[c].request, NextItem(From(c)))
               len == Declared(NextItem(From(c)), t[c].c_len)
               next == IF NextItem(From(c)).kind = "blank" THEN "send" ELSE t[c].pc
    <3>1. request \in Seq(Item) /\ len \in Int
      <4>1. t[c].request \in Seq(Item) /\ NextItem(From(c)) \in Item
        BY <1>3, <1>4, <2>2 DEF ThreadRecord
      <4>2. Append(t[c].request, NextItem(From(c))) \in Seq(Item)
        BY <4>1
      <4> QED
        BY <1>4, <2>2, <4>2
    <3>2. len = t[c].c_len \/ len \in Nat
      <4>1. NextItem(From(c)) \in Item
        BY <1>3, <2>2
      <4> QED
        BY <1>4, <4>1, DeclaredType
    <3>3. next \in {"head", "send"} /\ next \in Pc
      BY <1>1 DEF Pc, TwoFds
    <3>4. t' = [t EXCEPT ![c].request = request, ![c].c_len = len, ![c].pc = next]
      BY <2>2
    <3>5. t \in [Client -> ThreadRecord]
      BY DEF ProxyInv, FdInv, FdType
    <3> HIDE DEF request, len, next
    <3>6. /\ t' \in [Client -> ThreadRecord]
          /\ t'[c].pc = next /\ t'[c].c_len = len
          /\ t'[c].fd = t[c].fd /\ t'[c].prx = t[c].prx
          /\ \A d \in Client \ {c} : t'[d] = t[d]
      <4> DEFINE r == [t[c] EXCEPT !.request = request, !.c_len = len, !.pc = next]
      <4>1. t' = [t EXCEPT ![c] = r]
        BY <3>4, <3>5
      <4>2. /\ r \in ThreadRecord
            /\ r.pc = next /\ r.c_len = len /\ r.fd = t[c].fd /\ r.prx = t[c].prx
        BY <1>4, <3>1, <3>3 DEF ThreadRecord
      <4> HIDE DEF r
      <4> QED
        BY <3>5, <4>1, <4>2
    <3> QED
      BY <3>2, <3>3, <3>6
  <2> QED
    BY <2>1, <2>2 DEF ReadHead
<1>6. FdInv'
  BY <1>1, <1>5, LocalMove DEF ProxyInv, TwoFds
<1>7. t'[c].c_len > -MAXLINE
  <2>1. t[c].c_len > -MAXLINE
    BY DEF ProxyInv, Lengths
  <2>2. MAXLINE \in Nat \ {0}
    BY ProxyAssumption
  <2> QED
    BY <1>5, <2>1, <2>2
<1>8. Lengths'
  BY <1>5, <1>7, LengthsMove DEF ProxyInv
<1> QED
  BY <1>3, <1>6, <1>8 DEF ProxyInv

LEMMA SendHeadKeeps ==
  ASSUME ProxyInv, NEW c \in Client, SendHead(c)
  PROVE  ProxyInv'
<1>1. t[c].pc = "send" /\ t[c].pc \in TwoFds /\ UNCHANGED <<stream, pos, heap>>
  BY DEF SendHead, TwoFds
<1>2. PosType'
  BY <1>1 DEF ProxyInv, PosType
<1>3. \/ Goto(c, IF t[c].c_len > 0 THEN "body" ELSE "answer") /\ file' = file
      \/ GiveUp(c)
      \/ UNCHANGED <<t, file>>
  BY DEF SendHead, Write
<1>4. CASE Goto(c, IF t[c].c_len > 0 THEN "body" ELSE "answer") /\ file' = file
  <2>1. /\ t' \in [Client -> ThreadRecord]
        /\ t'[c].pc = IF t[c].c_len > 0 THEN "body" ELSE "answer"
        /\ t'[c].fd = t[c].fd /\ t'[c].prx = t[c].prx /\ t'[c].c_len = t[c].c_len
        /\ \A d \in Client \ {c} : t'[d] = t[d]
    BY <1>4, GotoMove DEF Pc, TwoFds
  <2>2. t'[c].pc \in TwoFds
    BY <2>1 DEF TwoFds
  <2>3. FdInv'
    BY <1>1, <1>4, <2>1, <2>2, LocalMove DEF ProxyInv
  <2>4. Lengths'
    BY <2>1, LengthsMove DEF ProxyInv, Lengths
  <2> QED
    BY <1>2, <2>3, <2>4 DEF ProxyInv
<1> QED
  BY <1>1, <1>2, <1>3, <1>4, GiveUpKeeps, RestKeeps

LEMMA RelayBodyKeeps ==
  ASSUME ProxyInv, NEW c \in Client, RelayBody(c)
  PROVE  ProxyInv'
<1>1. t[c].pc = "body" /\ t[c].pc \in TwoFds /\ UNCHANGED <<stream, heap>>
  BY DEF RelayBody, TwoFds
<1>2. From(c) \in Conn /\ MAXLINE \in Nat \ {0}
  BY <1>1, Ends, ProxyAssumption DEF ProxyInv
<1>3. PICK n \in 0 .. MAXLINE :
        /\ GetsBytes(From(c), MAXLINE, n)
        /\ \/ GiveUp(c)
           \/ UNCHANGED <<t, file>>
           \/ /\ n > 0 /\ file' = file
              /\ t' = [t EXCEPT ![c].c_len = @ - n,
                                ![c].pc = IF t[c].c_len > n THEN "body" ELSE "answer"]
  BY DEF RelayBody, Write
<1>4. PosType'
  BY <1>1, <1>2, <1>3, GetsBytesType DEF ProxyInv
<1>5. CASE /\ n > 0 /\ file' = file
           /\ t' = [t EXCEPT ![c].c_len = @ - n,
                             ![c].pc = IF t[c].c_len > n THEN "body" ELSE "answer"]
  <2>1. t[c].c_len \in Int /\ t[c].c_len > 0 /\ t[c].c_len - n \in Int
    BY <1>1, <1>2 DEF ProxyInv, Lengths, FdInv, FdType, ThreadRecord
  <2>2. /\ t' \in [Client -> ThreadRecord]
        /\ t'[c].pc = IF t[c].c_len > n THEN "body" ELSE "answer"
        /\ t'[c].fd = t[c].fd /\ t'[c].prx = t[c].prx /\ t'[c].c_len = t[c].c_len - n
        /\ \A d \in Client \ {c} : t'[d] = t[d]
    <3> DEFINE next == IF t[c].c_len > n THEN "body" ELSE "answer"
               left == t[c].c_len - n
    <3>1. next \in Pc /\ left \in Int
      BY <2>1 DEF Pc, TwoFds
    <3>2. t' = [t EXCEPT ![c].c_len = left, ![c].pc = next]
      BY <1>5
    <3>3. t \in [Client -> ThreadRecord]
      BY DEF ProxyInv, FdInv, FdType
    <3> HIDE DEF next, left
    <3>4. /\ t' \in [Client -> ThreadRecord]
          /\ t'[c].pc = next /\ t'[c].c_len = left
          /\ t'[c].fd = t[c].fd /\ t'[c].prx = t[c].prx
          /\ \A d \in Client \ {c} : t'[d] = t[d]
      BY <3>1, <3>2, <3>3 DEF ThreadRecord
    <3> QED
      BY <3>4 DEF next, left
  <2>3. t'[c].pc \in TwoFds
    BY <2>2 DEF TwoFds
  <2>4. FdInv'
    BY <1>1, <1>5, <2>2, <2>3, LocalMove DEF ProxyInv
  <2>5. t'[c].c_len > -MAXLINE /\ (t'[c].pc = "body" => t'[c].c_len > 0) /\ t'[c].pc # "bytes"
    BY <1>2, <2>1, <2>2
  <2>6. Lengths'
    BY <2>2, <2>5, LengthsMove DEF ProxyInv
  <2> QED
    BY <1>4, <2>4, <2>6 DEF ProxyInv
<1> QED
  BY <1>1, <1>3, <1>4, <1>5, GiveUpKeeps, RestKeeps

LEMMA RelayHeadKeeps ==
  ASSUME ProxyInv, NEW c \in Client, RelayHead(c)
  PROVE  ProxyInv'
<1>1. t[c].pc = "answer" /\ t[c].pc \in TwoFds /\ UNCHANGED <<stream, heap>>
  BY DEF RelayHead, TwoFds
<1>2. To(c) \in Conn
  BY <1>1, Ends DEF ProxyInv
<1>3. PosType' /\ (GetsLine(To(c)) => NextItem(To(c)) \in Item)
  BY <1>1, <1>2, GetsLineType, GetsNoLineType DEF RelayHead, ProxyInv
<1>4. t[c] \in ThreadRecord /\ t[c].s_len \in Nat /\ t[c].size \in Nat
  BY DEF ProxyInv, FdInv, FdType, ThreadRecord
<1> DEFINE i == NextItem(To(c))
<1>5. CASE /\ GetsLine(To(c)) /\ file' = file
           /\ t' = [t EXCEPT ![c].size = @ + 1,
                             ![c].s_len = Declared(i, @),
                             ![c].pc = AfterLine(c, i, t[c].s_len)]
  <2>1. Declared(i, t[c].s_len) \in Nat /\ (i.kind = "blank" => Declared(i, t[c].s_len) = t[c].s_len)
    BY <1>3, <1>4, <1>5 DEF Declared, Item
  <2>2. AfterLine(c, i, t[c].s_len) \in {"answer", "bytes", "log"}
    BY DEF AfterLine
  <2>3. AfterLine(c, i, t[c].s_len) = "bytes" => i.kind = "blank" /\ t[c].s_len > 0
    BY DEF AfterLine
  <2> DEFINE next == AfterLine(c, i, t[c].s_len)
             len == Declared(i, t[c].s_len)
  <2>4. t' = [t EXCEPT ![c].size = @ + 1, ![c].s_len = len, ![c].pc = next]
    BY <1>5
  <2>5. next \in Pc /\ len \in Nat /\ t[c].size + 1 \in Nat
    BY <1>4, <2>1, <2>2 DEF Pc, TwoFds
  <2> HIDE DEF i, next, len
  <2>6. /\ t' \in [Client -> ThreadRecord]
        /\ t'[c].pc = next
        /\ t'[c].fd = t[c].fd /\ t'[c].prx = t[c].prx /\ t'[c].c_len = t[c].c_len
        /\ t'[c].s_len = len
        /\ \A d \in Client \ {c} : t'[d] = t[d]
    BY <1>4, <2>4, <2>5 DEF ProxyInv, FdInv, FdType, ThreadRecord
  <2>7. t'[c].pc \in TwoFds /\ t'[c].pc # "body"
    BY <2>2, <2>6 DEF TwoFds, next
  <2>8. FdInv'
    BY <1>1, <1>5, <2>6, <2>7, LocalMove DEF ProxyInv
  <2>9. t'[c].pc = "bytes" => t'[c].s_len > 0
    BY <2>1, <2>3, <2>6 DEF next, len
  <2>10. Lengths'
    BY <2>6, <2>7, <2>9, LengthsMove DEF ProxyInv, Lengths
  <2> QED
    BY <1>3, <2>8, <2>10 DEF ProxyInv
<1>6. CASE Goto(c, IF t[c].s_len > 0 THEN "bytes" ELSE "log") /\ file' = file
  <2>1. /\ t' \in [Client -> ThreadRecord]
        /\ t'[c].pc = IF t[c].s_len > 0 THEN "bytes" ELSE "log"
        /\ t'[c].fd = t[c].fd /\ t'[c].prx = t[c].prx /\ t'[c].c_len = t[c].c_len
        /\ t'[c].s_len = t[c].s_len
        /\ \A d \in Client \ {c} : t'[d] = t[d]
    BY <1>6, GotoMove DEF Pc, TwoFds
  <2>2. t'[c].pc \in TwoFds
    BY <2>1 DEF TwoFds
  <2>3. FdInv'
    BY <1>1, <1>6, <2>1, <2>2, LocalMove DEF ProxyInv
  <2>4. Lengths'
    BY <2>1, LengthsMove DEF ProxyInv, Lengths
  <2> QED
    BY <1>3, <2>3, <2>4 DEF ProxyInv
<1>7. \/ /\ GetsLine(To(c)) /\ file' = file
         /\ t' = [t EXCEPT ![c].size = @ + 1,
                           ![c].s_len = Declared(i, @),
                           ![c].pc = AfterLine(c, i, t[c].s_len)]
      \/ Goto(c, IF t[c].s_len > 0 THEN "bytes" ELSE "log") /\ file' = file
      \/ GiveUp(c)
      \/ UNCHANGED <<t, file>>
  BY DEF RelayHead, Write
<1> QED
  BY <1>1, <1>3, <1>5, <1>6, <1>7, GiveUpKeeps, RestKeeps

LEMMA RelayByteKeeps ==
  ASSUME ProxyInv, NEW c \in Client, RelayByte(c)
  PROVE  ProxyInv'
<1>1. t[c].pc = "bytes" /\ t[c].pc \in TwoFds /\ UNCHANGED <<stream, heap>>
  BY DEF RelayByte, TwoFds
<1>2. To(c) \in Conn
  BY <1>1, Ends DEF ProxyInv
<1>3. PosType'
  <2>1. PICK got \in {0, 1} : GetsBytes(To(c), 1, got)
    BY DEF RelayByte
  <2> QED
    BY <1>1, <1>2, <2>1, GetsBytesType DEF ProxyInv
<1>4. /\ t[c] \in ThreadRecord /\ t[c].size \in Nat
      /\ t[c].s_len \in Nat /\ t[c].s_len > 0 /\ t[c].s_len - 1 \in Nat
  BY <1>1 DEF ProxyInv, FdInv, FdType, ThreadRecord, Lengths
<1>5. CASE /\ file' = file
           /\ t' = [t EXCEPT ![c].size = @ + 1, ![c].s_len = @ - 1,
                             ![c].pc = IF t[c].s_len > 1 THEN "bytes" ELSE "log"]
  <2>1. /\ t' \in [Client -> ThreadRecord]
        /\ t'[c].pc = IF t[c].s_len > 1 THEN "bytes" ELSE "log"
        /\ t'[c].fd = t[c].fd /\ t'[c].prx = t[c].prx /\ t'[c].c_len = t[c].c_len
        /\ t'[c].s_len = t[c].s_len - 1
        /\ \A d \in Client \ {c} : t'[d] = t[d]
    <3> DEFINE next == IF t[c].s_len > 1 THEN "bytes" ELSE "log"
               left == t[c].s_len - 1
               size == t[c].size + 1
    <3>1. next \in Pc /\ left \in Nat /\ size \in Nat
      BY <1>4 DEF Pc, TwoFds
    <3>2. t' = [t EXCEPT ![c].size = size, ![c].s_len = left, ![c].pc = next]
      BY <1>5
    <3>3. t \in [Client -> ThreadRecord]
      BY DEF ProxyInv, FdInv, FdType
    <3> HIDE DEF next, left, size
    <3>4. /\ t' \in [Client -> ThreadRecord]
          /\ t'[c].pc = next /\ t'[c].s_len = left /\ t'[c].c_len = t[c].c_len
          /\ t'[c].fd = t[c].fd /\ t'[c].prx = t[c].prx
          /\ \A d \in Client \ {c} : t'[d] = t[d]
      <4> DEFINE r == [t[c] EXCEPT !.size = size, !.s_len = left, !.pc = next]
      <4>1. t' = [t EXCEPT ![c] = r]
        BY <3>2, <3>3
      <4>2. /\ r \in ThreadRecord
            /\ r.pc = next /\ r.s_len = left /\ r.c_len = t[c].c_len
            /\ r.fd = t[c].fd /\ r.prx = t[c].prx
        BY <1>4, <3>1 DEF ThreadRecord
      <4> HIDE DEF r
      <4> QED
        BY <3>3, <4>1, <4>2
    <3> QED
      BY <3>4 DEF next, left
  <2>2. t'[c].pc \in TwoFds /\ t'[c].pc # "body" /\ (t'[c].pc = "bytes" => t'[c].s_len > 0)
    BY <1>4, <2>1 DEF TwoFds
  <2>3. FdInv'
    BY <1>1, <1>5, <2>1, <2>2, LocalMove DEF ProxyInv
  <2>4. Lengths'
    BY <2>1, <2>2, LengthsMove DEF ProxyInv, Lengths
  <2> QED
    BY <1>3, <2>3, <2>4 DEF ProxyInv
<1>6. \/ /\ file' = file
         /\ t' = [t EXCEPT ![c].size = @ + 1, ![c].s_len = @ - 1,
                           ![c].pc = IF t[c].s_len > 1 THEN "bytes" ELSE "log"]
      \/ GiveUp(c)
      \/ UNCHANGED <<t, file>>
  BY DEF RelayByte, Write
<1> QED
  BY <1>1, <1>3, <1>5, <1>6, GiveUpKeeps, RestKeeps

-----------------------------------------------------------------------------

LEMMA ProxyInit == Init => ProxyInv
<1> SUFFICES ASSUME Init PROVE ProxyInv
  OBVIOUS
<1>1. 0 \in 0 .. NFD
  BY ProxyAssumption
<1>2. \A c \in Client : t[c] = NewThread
  BY DEF Init
<1>3. NewThread \in ThreadRecord
  BY <1>1 DEF NewThread, ThreadRecord, Pc, NoFd
<1>4. FdType
  BY <1>1, <1>3 DEF Init, FdType, NoFd
<1>5. HeldOpen
  BY <1>2 DEF HeldOpen, NewThread, HasClient, OneFd, TwoFds
<1>6. OpenHeld
  <2>1. Inherited \notin Conn
    BY DEF Inherited, Conn
  <2>2. \A fd \in Fd : file[fd] \notin Conn
    BY <2>1, ConnNoFile DEF Init
  <2> QED
    BY <2>2 DEF OpenHeld, Conn
<1>7. ArgsHeld
  BY DEF Init, ArgsHeld
<1>8. Lengths
  BY <1>2, ProxyAssumption DEF Lengths, NewThread
<1>9. PosType
  BY DEF Init, PosType
<1> QED
  BY <1>4, <1>5, <1>6, <1>7, <1>8, <1>9 DEF ProxyInv, FdInv

LEMMA ThreadKeeps ==
  ASSUME ProxyInv, NEW c \in Client, Thread(c)
  PROVE  ProxyInv'
<1>1. CASE Doit(c)
  <2>1. CASE ConnectFails(c)
    BY <2>1, RestKeeps DEF ConnectFails, Die, socks, ProxyInv, PosType
  <2>2. CASE Log(c)
    BY <2>2, GiveUpKeeps DEF Log, socks, ProxyInv, PosType, TwoFds
  <2> QED
    BY <1>1, <2>1, <2>2, ReadLineKeeps, ConnectKeeps, ReadHeadKeeps, SendHeadKeeps,
       RelayBodyKeeps, RelayHeadKeeps, RelayByteKeeps DEF Doit
<1> QED
  BY <1>1, StartKeeps, LeaveKeeps DEF Thread

LEMMA ProxyNext == ProxyInv /\ [Next]_vars => ProxyInv'
<1> SUFFICES ASSUME ProxyInv, [Next]_vars PROVE ProxyInv'
  OBVIOUS
<1>1. CASE UNCHANGED vars
  BY <1>1, RestKeeps DEF vars, ProxyInv, PosType
<1>2. ASSUME NEW k \in Conn, PeerCloses(k) PROVE ProxyInv'
  BY <1>2, RestKeeps DEF PeerCloses, ProxyInv, PosType
<1> QED
  BY <1>1, <1>2, MainKeeps, ThreadKeeps DEF Next

LEMMA ProxyInvHolds == Spec => []ProxyInv
BY ProxyInit, ProxyNext, PTL DEF Spec

\* The types, and that a body is never read further behind its end than one
\* chunk: for chunks of any length and anything that clients send.
THEOREM TypeCorrect == Spec => []TypeOK
<1>1. ProxyInv => TypeOK
  BY DEF ProxyInv, FdInv, FdType, PosType, Lengths, ThreadRecord, TypeOK
<1> QED
  BY <1>1, ProxyInvHolds, PTL

\* However many threads open and close, on whichever path each leaves doit:
\* nobody closes another's descriptor and none is lost.
THEOREM FdsCorrect == Spec => []FdsAccounted
<1>1. ProxyInv => FdsAccounted
  <2> SUFFICES ASSUME ProxyInv PROVE FdsAccounted
    OBVIOUS
  <2> DEFINE Open == {<<fd, file[fd]>> : fd \in {fd \in Fd : file[fd] \in Conn}}
  <2>1. \A c \in Client :
          Held(c) = {<<ClientFd(c), <<"client", c>>>> : x \in {x \in {1} : HasClient(c)}}
                    \cup {<<t[c].prx, <<"server", c>>>> : x \in {x \in {1} : t[c].pc \in TwoFds}}
    BY DEF ProxyInv, FdInv, FdType, ThreadRecord, Held, HasClient, ClientFd, Pc, OneFd, TwoFds
  <2>2. \A c \in Client : Held(c) \subseteq Open
    BY <2>1 DEF ProxyInv, FdInv, HeldOpen, Conn
  <2>3. \A h \in Open : \E c \in Client : h \in Held(c)
    BY <2>1 DEF ProxyInv, FdInv, OpenHeld, Conn
  <2> QED
    BY <2>2, <2>3 DEF FdsAccounted
<1> QED
  BY <1>1, ProxyInvHolds, PTL

-----------------------------------------------------------------------------
(***************************************************************************)
(* Proof that the proxy never mixes up what it relays.                       *)
(***************************************************************************)
\* s is what x starts with.
Starts(s, x) == s \in Seq(Item) /\ Len(s) <= Len(x) /\ \A i \in 1 .. Len(s) : s[i] = x[i]

\* What a server got is what its own client sent, as far as it went, and what
\* a client got is what its own server sent.
OwnBytesInOrder ==
  \A c \in Client :
    /\ Starts(sent[<<"server", c>>], stream[<<"client", c>>])
    /\ Starts(sent[<<"client", c>>], stream[<<"server", c>>])

BeforeHead == {"queued", "start", "line"}
BeforeSend == BeforeHead \cup {"connect", "head", "send"}
BeforeAnswer == BeforeSend \cup {"body"}

ReadToEnd(k) == pos[k] = Len(stream[k])

\* Each part of the request is read once and written once; what was read
\* and not written is the end of a message that was cut off.
UpInv(c) ==
  LET k == <<"client", c>>
  IN  /\ t[c].pc \in BeforeSend => sent[<<"server", c>>] = <<>>
      /\ t[c].pc \in BeforeHead => pos[k] = 0
      /\ t[c].pc \in {"connect", "head", "send"} => Starts(t[c].request, stream[k])
      /\ t[c].pc \in {"connect", "head"} => pos[k] = Len(t[c].request)
      /\ t[c].pc = "send" => pos[k] = Len(t[c].request) \/ ReadToEnd(k)
      /\ t[c].pc = "body" => pos[k] = Len(sent[<<"server", c>>]) \/ ReadToEnd(k)

\* The same for the answer.
DownInv(c) ==
  LET k == <<"server", c>>
  IN  /\ t[c].pc \in BeforeAnswer => sent[<<"client", c>>] = <<>> /\ pos[k] = 0
      /\ t[c].pc = "answer" => pos[k] = Len(sent[<<"client", c>>])
      /\ t[c].pc = "bytes" => pos[k] = Len(sent[<<"client", c>>]) \/ ReadToEnd(k)

SentType == sent \in [Conn -> Seq(Item)]

\* SIGPIPE may end the process between a read and its write.
RelayInv ==
  /\ SentType
  /\ OwnBytesInOrder
  /\ process = "running" => \A c \in Client : UpInv(c) /\ DownInv(c)

-----------------------------------------------------------------------------
(* Prefixes of what a peer sends.                                          *)

LEMMA StartsAppend ==
  ASSUME NEW x \in Seq(Item), NEW s, Starts(s, x), NEW i \in Item,
         Len(s) < Len(x), i = x[Len(s) + 1]
  PROVE  Starts(Append(s, i), x) /\ Len(Append(s, i)) = Len(s) + 1
BY DEF Starts

LEMMA StartsConcat ==
  ASSUME NEW x \in Seq(Item), NEW s, Starts(s, x), NEW u \in Seq(Item),
         Len(s) + Len(u) <= Len(x), \A i \in 1 .. Len(u) : u[i] = x[Len(s) + i]
  PROVE  Starts(s \o u, x) /\ Len(s \o u) = Len(s) + Len(u)
<1>1. /\ s \o u \in Seq(Item) /\ Len(s \o u) = Len(s) + Len(u)
      /\ \A i \in 1 .. Len(s) + Len(u) : (s \o u)[i] = IF i <= Len(s) THEN s[i] ELSE u[i - Len(s)]
  BY DEF Starts
<1>2. Len(s) \in Nat /\ Len(u) \in Nat
  BY DEF Starts
<1>3. ASSUME NEW i \in 1 .. Len(s) + Len(u) PROVE (s \o u)[i] = x[i]
  <2>1. CASE i <= Len(s)
    <3>1. i \in 1 .. Len(s)
      BY <1>2, <2>1
    <3> QED
      BY <1>1, <2>1, <3>1 DEF Starts
  <2>2. CASE ~(i <= Len(s))
    <3>1. i - Len(s) \in 1 .. Len(u) /\ Len(s) + (i - Len(s)) = i
      BY <1>2, <2>2
    <3> QED
      BY <1>1, <2>2, <3>1
  <2> QED
    BY <2>1, <2>2
<1> QED
  BY <1>1, <1>3 DEF Starts

LEMMA UnreadIs ==
  ASSUME PosType, NEW k \in Conn
  PROVE  /\ Unread(k) \in Seq(Item) /\ Len(Unread(k)) = Len(stream[k]) - pos[k]
         /\ \A i \in 1 .. Len(Unread(k)) : Unread(k)[i] = stream[k][pos[k] + i]
BY DEF PosType, Unread

\* A line or byte that is read is the next of the stream.
LEMMA NextItemIs ==
  ASSUME PosType, NEW k \in Conn, Unread(k) # <<>>
  PROVE  NextItem(k) \in Item /\ pos[k] < Len(stream[k]) /\ NextItem(k) = stream[k][pos[k] + 1]
<1>1. Unread(k) \in Seq(Item) /\ Len(Unread(k)) = Len(stream[k]) - pos[k] /\ 1 \in 1 .. Len(Unread(k))
  BY UnreadIs
<1>2. Unread(k)[1] = stream[k][pos[k] + 1]
  BY <1>1, UnreadIs
<1>3. pos[k] \in Nat /\ Len(stream[k]) \in Nat
  BY DEF PosType
<1> QED
  BY <1>1, <1>2, <1>3 DEF NextItem
-----------------------------------------------------------------------------
(* What keeps the invariant.                                               *)

LEMMA ConnOf ==
  ASSUME NEW c \in Client
  PROVE  /\ <<"client", c>> \in Conn /\ <<"server", c>> \in Conn
         /\ \A d \in Client \ {c} : /\ <<"client", d>> # <<"client", c>> /\ <<"client", d>> # <<"server", c>>
                                    /\ <<"server", d>> # <<"client", c>> /\ <<"server", d>> # <<"server", c>>
         /\ <<"client", c>> # <<"server", c>>
BY DEF Conn

\* A step of thread c touches its own connections only.
OwnStep(c) ==
  /\ stream' = stream
  /\ \A d \in Client \ {c} :
       /\ t'[d] = t[d]
       /\ pos'[<<"client", d>>] = pos[<<"client", d>>] /\ pos'[<<"server", d>>] = pos[<<"server", d>>]
       /\ sent'[<<"client", d>>] = sent[<<"client", d>>] /\ sent'[<<"server", d>>] = sent[<<"server", d>>]

LEMMA OwnStepKeeps ==
  ASSUME RelayInv, process = "running", NEW c \in Client, OwnStep(c), SentType',
         Starts(sent'[<<"server", c>>], stream[<<"client", c>>]),
         Starts(sent'[<<"client", c>>], stream[<<"server", c>>]),
         process' = "running" => UpInv(c)' /\ DownInv(c)'
  PROVE  RelayInv'
<1>1. OwnBytesInOrder'
  BY DEF RelayInv, OwnBytesInOrder, OwnStep
<1>2. ASSUME NEW d \in Client \ {c} PROVE UpInv(d)' /\ DownInv(d)'
  BY <1>2 DEF RelayInv, UpInv, DownInv, OwnStep, ReadToEnd
<1> QED
  BY <1>1, <1>2 DEF RelayInv

\* Nothing is written any more.
LEMMA QuitKeeps ==
  ASSUME RelayInv, stream' = stream, sent' = sent, process' # "running"
  PROVE  RelayInv'
BY DEF RelayInv, SentType, OwnBytesInOrder

LEMMA DoneKeeps ==
  ASSUME RelayInv, process = "running", NEW c \in Client, OwnStep(c), sent' = sent,
         t'[c].pc \in {"leave", "log", "done"}
  PROVE  RelayInv'
<1>1. UpInv(c)' /\ DownInv(c)'
  BY DEF UpInv, DownInv, BeforeHead, BeforeSend, BeforeAnswer
<1>2. SentType' /\ Starts(sent'[<<"server", c>>], stream[<<"client", c>>])
      /\ Starts(sent'[<<"client", c>>], stream[<<"server", c>>])
  BY DEF RelayInv, SentType, OwnBytesInOrder
<1> QED
  BY <1>1, <1>2, OwnStepKeeps

LEMMA PcKeeps ==
  ASSUME RelayInv, process = "running", NEW c \in Client, OwnStep(c), UNCHANGED <<pos, sent>>,
         t'[c].request = t[c].request,
         \/ t[c].pc = "queued" /\ t'[c].pc = "start"
         \/ t[c].pc = "start" /\ t'[c].pc = "line"
         \/ t[c].pc = "connect" /\ t'[c].pc = "head"
  PROVE  RelayInv'
<1>1. UpInv(c) /\ DownInv(c)
  BY DEF RelayInv
<1>2. UpInv(c)'
  BY <1>1 DEF UpInv, BeforeHead, BeforeSend, OwnStep
<1>3. DownInv(c)'
  BY <1>1 DEF DownInv, BeforeHead, BeforeSend, BeforeAnswer, OwnStep
<1>4. SentType' /\ Starts(sent'[<<"server", c>>], stream[<<"client", c>>])
      /\ Starts(sent'[<<"client", c>>], stream[<<"server", c>>])
  BY DEF RelayInv, SentType, OwnBytesInOrder
<1> QED
  BY <1>2, <1>3, <1>4, OwnStepKeeps

LEMMA ReadOwn ==
  ASSUME PosType, NEW c \in Client, NEW k \in {<<"client", c>>, <<"server", c>>}, NEW n, Read(k, n)
  PROVE  /\ pos'[k] = pos[k] + n
         /\ \A j \in Conn : j # k => pos'[j] = pos[j]
         /\ \A d \in Client \ {c} : pos'[<<"client", d>>] = pos[<<"client", d>>]
                                 /\ pos'[<<"server", d>>] = pos[<<"server", d>>]
<1>1. k \in Conn /\ \A d \in Client : <<"client", d>> \in Conn /\ <<"server", d>> \in Conn
  BY ConnOf
<1>2. pos'[k] = pos[k] + n /\ \A j \in Conn : j # k => pos'[j] = pos[j]
  BY <1>1 DEF PosType, Read
<1> QED
  BY <1>1, <1>2, ConnOf

LEMMA WriteOwn ==
  ASSUME SentType, NEW c \in Client, NEW k \in {<<"client", c>>, <<"server", c>>},
         NEW items \in Seq(Item), Writes(k, items)
  PROVE  /\ SentType'
         /\ sent'[k] = sent[k] \o items
         /\ \A j \in Conn : j # k => sent'[j] = sent[j]
         /\ \A d \in Client \ {c} : sent'[<<"client", d>>] = sent[<<"client", d>>]
                                 /\ sent'[<<"server", d>>] = sent[<<"server", d>>]
<1>1. k \in Conn /\ \A d \in Client : <<"client", d>> \in Conn /\ <<"server", d>> \in Conn
  BY ConnOf
<1>2. sent[k] \o items \in Seq(Item)
  BY <1>1 DEF SentType
<1>3. SentType' /\ sent'[k] = sent[k] \o items /\ \A j \in Conn : j # k => sent'[j] = sent[j]
  BY <1>1, <1>2 DEF SentType, Writes
<1> QED
  BY <1>1, <1>3, ConnOf

LEMMA ThreadType ==
  ASSUME ProxyInv, NEW c \in Client
  PROVE  /\ t \in [Client -> ThreadRecord] /\ t[c] \in ThreadRecord
         /\ t[c].request \in Seq(Item) /\ t[c].c_len \in Int /\ t[c].s_len \in Nat /\ t[c].size \in Nat
BY DEF ProxyInv, FdInv, FdType, ThreadRecord
-----------------------------------------------------------------------------
(* The steps of a thread.                                                  *)

\* A write has its effect, or is the thread's last step, or the process's.
LEMMA WriteFails ==
  ASSUME ProxyInv, RelayInv, process = "running", NEW c \in Client, stream' = stream, sent' = sent,
         \A d \in Client \ {c} : pos'[<<"client", d>>] = pos[<<"client", d>>]
                              /\ pos'[<<"server", d>>] = pos[<<"server", d>>],
         GiveUp(c) \/ process' = "SIGPIPE"
  PROVE  RelayInv'
<1>1. CASE GiveUp(c)
  <2>1. t'[c].pc = "leave" /\ \A d \in Client \ {c} : t'[d] = t[d]
    BY <1>1, ThreadType DEF GiveUp, Goto, ThreadRecord
  <2>2. OwnStep(c)
    BY <2>1 DEF OwnStep
  <2> QED
    BY <2>1, <2>2, DoneKeeps
<1> QED
  BY <1>1, QuitKeeps

LEMMA ReadLineRelays ==
  ASSUME ProxyInv, RelayInv, process = "running", NEW c \in Client, ReadLine(c)
  PROVE  RelayInv'
<1> DEFINE k == <<"client", c>>
           v == <<"server", c>>
<1>1. /\ t[c].pc = "line" /\ From(c) = k /\ k \in Conn /\ v \in Conn /\ k # v
      /\ UNCHANGED <<stream, sent, process>> /\ PosType
  BY Ends, ConnOf DEF ReadLine, OneFd, ProxyInv
<1>2. UpInv(c) /\ DownInv(c)
  BY DEF RelayInv
<1>3. pos[k] = 0
  BY <1>1, <1>2 DEF UpInv, BeforeHead
<1>4. CASE GetsNoLine(k) /\ Goto(c, "leave")
  <2>1. t'[c].pc = "leave" /\ \A d \in Client \ {c} : t'[d] = t[d]
    BY <1>4, ThreadType DEF Goto, ThreadRecord
  <2>2. OwnStep(c)
    BY <1>1, <1>4, <2>1, ReadOwn DEF OwnStep, GetsNoLine
  <2> QED
    BY <1>1, <2>1, <2>2, DoneKeeps
<1>5. CASE /\ GetsLine(k)
           /\ t' = [t EXCEPT ![c].pc = IF NextItem(k).what \in {"malformed", "baduri"}
                                       THEN "leave" ELSE "connect",
                             ![c].request = <<NextItem(k)>>]
  <2>1. /\ t'[c].pc \in {"leave", "connect"} /\ t'[c].request = <<NextItem(k)>>
        /\ \A d \in Client \ {c} : t'[d] = t[d]
    BY <1>5, ThreadType DEF ThreadRecord
  <2>2. OwnStep(c) /\ pos'[k] = 1 /\ pos'[v] = pos[v]
    <3>1. /\ pos'[k] = pos[k] + 1 /\ pos'[v] = pos[v]
          /\ \A d \in Client \ {c} : pos'[<<"client", d>>] = pos[<<"client", d>>]
                                  /\ pos'[<<"server", d>>] = pos[<<"server", d>>]
      BY <1>1, <1>5, ReadOwn DEF GetsLine
    <3>2. pos'[k] = 1
      BY <1>3, <3>1
    <3> QED
      BY <1>1, <2>1, <3>1, <3>2 DEF OwnStep
  <2>3. NextItem(k) \in Item /\ 0 < Len(stream[k]) /\ NextItem(k) = stream[k][1]
    BY <1>1, <1>3, <1>5, NextItemIs DEF GetsLine
  <2>4. Starts(<<NextItem(k)>>, stream[k])
    <3>1. stream[k] \in Seq(Item) /\ Len(stream[k]) \in Nat
      BY <1>1 DEF PosType
    <3> QED
      BY <2>3, <3>1 DEF Starts
  <2>5. UpInv(c)'
    BY <1>1, <1>2, <2>1, <2>2, <2>4 DEF UpInv, BeforeHead, BeforeSend
  <2>6. DownInv(c)'
    BY <1>1, <1>2, <2>1, <2>2 DEF DownInv, BeforeHead, BeforeSend, BeforeAnswer
  <2> QED
    BY <1>1, <2>2, <2>5, <2>6, OwnStepKeeps DEF RelayInv, SentType, OwnBytesInOrder
<1> QED
  BY <1>1, <1>4, <1>5 DEF ReadLine

LEMMA ReadHeadRelays ==
  ASSUME ProxyInv, RelayInv, process = "running", NEW c \in Client, ReadHead(c)
  PROVE  RelayInv'
<1> DEFINE k == <<"client", c>>
           v == <<"server", c>>
<1>1. /\ t[c].pc = "head" /\ From(c) = k /\ k \in Conn /\ v \in Conn /\ k # v
      /\ UNCHANGED <<stream, sent, process>> /\ PosType
  BY Ends, ConnOf DEF ReadHead, TwoFds, ProxyInv
<1>2. UpInv(c) /\ DownInv(c)
  BY DEF RelayInv
<1>3. pos[k] = Len(t[c].request) /\ Starts(t[c].request, stream[k])
  BY <1>1, <1>2 DEF UpInv
<1>4. stream[k] \in Seq(Item) /\ Len(stream[k]) \in Nat /\ pos[k] \in Nat
  BY <1>1 DEF PosType
<1>5. CASE GetsNoLine(k) /\ Goto(c, "send")
  <2>1. t'[c].pc = "send" /\ t'[c].request = t[c].request /\ \A d \in Client \ {c} : t'[d] = t[d]
    BY <1>5, ThreadType DEF Goto, ThreadRecord
  <2>2. OwnStep(c) /\ pos'[k] = Len(stream[k]) /\ pos'[v] = pos[v]
    <3>1. pos[k] + Len(Unread(k)) = Len(stream[k])
      BY <1>1, <1>4, UnreadIs
    <3> QED
      BY <1>1, <1>5, <2>1, <3>1, ReadOwn DEF OwnStep, GetsNoLine
  <2>3. UpInv(c)'
    BY <1>1, <1>2, <1>3, <2>1, <2>2 DEF UpInv, BeforeHead, BeforeSend, ReadToEnd
  <2>4. DownInv(c)'
    BY <1>1, <1>2, <2>1, <2>2 DEF DownInv, BeforeHead, BeforeSend, BeforeAnswer
  <2> QED
    BY <1>1, <2>2, <2>3, <2>4, OwnStepKeeps DEF RelayInv, SentType, OwnBytesInOrder
<1>6. CASE /\ GetsLine(k)
           /\ t' = [t EXCEPT ![c].request = Append(@, NextItem(k)),
                             ![c].c_len = Declared(NextItem(k), @),
                             ![c].pc = IF NextItem(k).kind = "blank" THEN "send" ELSE @]
  <2>1. /\ t'[c].pc \in {"head", "send"} /\ t'[c].request = Append(t[c].request, NextItem(k))
        /\ \A d \in Client \ {c} : t'[d] = t[d]
    BY <1>1, <1>6, ThreadType DEF ThreadRecord
  <2>2. OwnStep(c) /\ pos'[k] = pos[k] + 1 /\ pos'[v] = pos[v]
    BY <1>1, <1>6, <2>1, ReadOwn DEF OwnStep, GetsLine
  <2>3. NextItem(k) \in Item /\ pos[k] < Len(stream[k]) /\ NextItem(k) = stream[k][pos[k] + 1]
    BY <1>1, <1>6, NextItemIs DEF GetsLine
  <2>4. Starts(t'[c].request, stream[k]) /\ Len(t'[c].request) = pos'[k]
    BY <1>3, <1>4, <2>1, <2>2, <2>3, StartsAppend
  <2>5. UpInv(c)'
    BY <1>1, <1>2, <2>1, <2>2, <2>4 DEF UpInv, BeforeHead, BeforeSend
  <2>6. DownInv(c)'
    BY <1>1, <1>2, <2>1, <2>2 DEF DownInv, BeforeHead, BeforeSend, BeforeAnswer
  <2> QED
    BY <1>1, <2>2, <2>5, <2>6, OwnStepKeeps DEF RelayInv, SentType, OwnBytesInOrder
<1> QED
  BY <1>1, <1>5, <1>6 DEF ReadHead

LEMMA SendHeadRelays ==
  ASSUME ProxyInv, RelayInv, process = "running", NEW c \in Client, SendHead(c)
  PROVE  RelayInv'
<1> DEFINE k == <<"client", c>>
           v == <<"server", c>>
           q == t[c].request
<1>1. /\ t[c].pc = "send" /\ To(c) = v /\ k \in Conn /\ v \in Conn /\ k # v
      /\ UNCHANGED <<stream, pos>> /\ PosType
  BY Ends, ConnOf DEF SendHead, TwoFds, ProxyInv
<1>2. UpInv(c) /\ DownInv(c)
  BY DEF RelayInv
<1>3. /\ sent[v] = <<>> /\ q \in Seq(Item) /\ Starts(q, stream[k])
      /\ pos[k] = Len(q) \/ ReadToEnd(k)
      /\ sent[k] = <<>> /\ pos[v] = 0
  BY <1>1, <1>2, ThreadType DEF UpInv, DownInv, BeforeSend, BeforeAnswer
<1>4. CASE /\ Writes(v, q) /\ UNCHANGED <<file, process>>
           /\ Goto(c, IF t[c].c_len > 0 THEN "body" ELSE "answer")
  <2>1. t'[c].pc \in {"body", "answer"} /\ \A d \in Client \ {c} : t'[d] = t[d]
    BY <1>4, ThreadType DEF Goto, ThreadRecord
  <2>2. SentType' /\ sent'[v] = sent[v] \o q /\ sent'[k] = sent[k] /\ OwnStep(c)
    BY <1>1, <1>3, <1>4, <2>1, WriteOwn DEF OwnStep, RelayInv
  <2>3. sent'[v] = q
    BY <1>3, <2>2
  <2>4. UpInv(c)'
    BY <1>1, <1>3, <2>1, <2>3 DEF UpInv, BeforeHead, BeforeSend, ReadToEnd
  <2>5. DownInv(c)'
    BY <1>1, <1>3, <2>1, <2>2 DEF DownInv, BeforeHead, BeforeSend, BeforeAnswer
  <2>6. Starts(sent'[k], stream[v])
    BY <2>2 DEF RelayInv, OwnBytesInOrder
  <2> QED
    BY <1>3, <2>2, <2>3, <2>4, <2>5, <2>6, OwnStepKeeps
<1>5. CASE sent' = sent /\ (GiveUp(c) \/ process' = "SIGPIPE")
  BY <1>1, <1>5, WriteFails
<1> QED
  BY <1>1, <1>4, <1>5 DEF SendHead, Write

LEMMA RelayBodyRelays ==
  ASSUME ProxyInv, RelayInv, process = "running", NEW c \in Client, RelayBody(c)
  PROVE  RelayInv'
<1> DEFINE k == <<"client", c>>
           v == <<"server", c>>
<1>1. /\ t[c].pc = "body" /\ From(c) = k /\ To(c) = v /\ k \in Conn /\ v \in Conn /\ k # v
      /\ stream' = stream /\ PosType /\ SentType
  BY Ends, ConnOf DEF RelayBody, TwoFds, ProxyInv, RelayInv
<1>2. UpInv(c) /\ DownInv(c)
  BY DEF RelayInv
<1>3. /\ pos[k] = Len(sent[v]) \/ ReadToEnd(k)
      /\ Starts(sent[v], stream[k]) /\ Starts(sent[k], stream[v])
      /\ sent[k] = <<>> /\ pos[v] = 0
  BY <1>1, <1>2 DEF UpInv, DownInv, BeforeAnswer, RelayInv, OwnBytesInOrder
<1>4. /\ stream[k] \in Seq(Item) /\ Len(stream[k]) \in Nat /\ pos[k] \in Nat
      /\ MAXLINE \in Nat
  BY <1>1, ProxyAssumption DEF PosType
<1> DEFINE Taken(n) == SubSeq(Unread(k), 1, n)
           After(n) == t' = [t EXCEPT ![c].c_len = @ - n,
                                      ![c].pc = IF t[c].c_len > n THEN "body" ELSE "answer"]
<1>5. PICK n \in 0 .. MAXLINE :
        /\ GetsBytes(k, MAXLINE, n)
        /\ \/ sent' = sent /\ (GiveUp(c) \/ process' = "SIGPIPE")
           \/ n > 0 /\ Writes(v, Taken(n)) /\ After(n) /\ process' = process
  BY <1>1 DEF RelayBody, Write
<1>6. n <= Len(Unread(k)) /\ Read(k, n) /\ n \in Nat
  BY <1>1, <1>4, <1>5, GetsBytesType DEF GetsBytes
<1>7. /\ pos'[k] = pos[k] + n /\ pos'[v] = pos[v]
      /\ \A d \in Client \ {c} : pos'[<<"client", d>>] = pos[<<"client", d>>]
                              /\ pos'[<<"server", d>>] = pos[<<"server", d>>]
  BY <1>1, <1>6, ReadOwn
<1>8. CASE sent' = sent /\ (GiveUp(c) \/ process' = "SIGPIPE")
  BY <1>1, <1>7, <1>8, WriteFails
<1>9. CASE n > 0 /\ Writes(v, Taken(n)) /\ After(n) /\ process' = process
  <2>1. /\ Unread(k) \in Seq(Item) /\ Len(Unread(k)) = Len(stream[k]) - pos[k]
        /\ \A i \in 1 .. Len(Unread(k)) : Unread(k)[i] = stream[k][pos[k] + i]
    BY <1>1, UnreadIs
  <2>2. pos[k] = Len(sent[v])
    BY <1>3, <1>4, <1>6, <1>9, <2>1 DEF ReadToEnd
  <2>3. /\ Taken(n) \in Seq(Item) /\ Len(Taken(n)) = n
        /\ \A i \in 1 .. n : Taken(n)[i] = stream[k][pos[k] + i]
    <3> DEFINE u == Unread(k)
    <3>1. u \in Seq(Item) /\ n \in 1 .. Len(u)
      BY <1>6, <1>9, <2>1
    <3> HIDE DEF u
    <3>2. SubSeq(u, 1, n) \in Seq(Item) /\ Len(SubSeq(u, 1, n)) = n
          /\ \A i \in 1 .. n : SubSeq(u, 1, n)[i] = u[i]
      BY <3>1
    <3>3. \A i \in 1 .. n : u[i] = stream[k][pos[k] + i]
      BY <1>6, <2>1, <3>1 DEF u
    <3> QED
      BY <3>2, <3>3 DEF u
  <2> HIDE DEF Taken
  <2>4. Starts(sent[v] \o Taken(n), stream[k]) /\ Len(sent[v] \o Taken(n)) = pos[k] + n
    <3>1. Len(sent[v]) + Len(Taken(n)) <= Len(stream[k])
      BY <1>4, <1>6, <2>1, <2>2, <2>3
    <3>2. \A i \in 1 .. Len(Taken(n)) : Taken(n)[i] = stream[k][Len(sent[v]) + i]
      BY <2>2, <2>3
    <3>3. /\ Starts(sent[v] \o Taken(n), stream[k])
          /\ Len(sent[v] \o Taken(n)) = Len(sent[v]) + Len(Taken(n))
      <4>1. stream[k] \in Seq(Item) /\ Starts(sent[v], stream[k]) /\ Taken(n) \in Seq(Item)
        BY <1>3, <1>4, <2>3
      <4> HIDE DEF k, v
      <4> QED
        BY <3>1, <3>2, <4>1, StartsConcat, Zenon
    <3> QED
      BY <2>2, <2>3, <3>3
  <2>5. t'[c].pc \in {"body", "answer"} /\ \A d \in Client \ {c} : t'[d] = t[d]
    BY <1>9, ThreadType DEF ThreadRecord
  <2>6. SentType' /\ sent'[v] = sent[v] \o Taken(n) /\ sent'[k] = sent[k] /\ OwnStep(c)
    BY <1>1, <1>7, <1>9, <2>3, <2>5, WriteOwn DEF OwnStep
  <2>7. UpInv(c)'
    BY <1>7, <2>4, <2>5, <2>6 DEF UpInv, BeforeHead, BeforeSend
  <2>8. DownInv(c)'
    BY <1>3, <1>7, <2>5, <2>6 DEF DownInv, BeforeHead, BeforeSend, BeforeAnswer
  <2> QED
    BY <1>3, <2>4, <2>6, <2>7, <2>8, OwnStepKeeps
<1> QED
  BY <1>5, <1>8, <1>9

\* One item of the answer is read and written.
LEMMA ItemRelays ==
  ASSUME ProxyInv, RelayInv, process = "running", NEW c \in Client,
         t[c].pc \in {"answer", "bytes"}, Unread(<<"server", c>>) # <<>>,
         stream' = stream, Read(<<"server", c>>, 1),
         Writes(<<"client", c>>, <<NextItem(<<"server", c>>)>>),
         t'[c].pc \in {"answer", "bytes", "log"}, \A d \in Client \ {c} : t'[d] = t[d]
  PROVE  RelayInv'
<1> DEFINE k == <<"client", c>>
           v == <<"server", c>>
<1>1. k \in Conn /\ v \in Conn /\ k # v /\ PosType /\ SentType
  BY ConnOf DEF ProxyInv, RelayInv
<1>2. UpInv(c) /\ DownInv(c)
  BY DEF RelayInv
<1>3. /\ pos[v] = Len(sent[k]) \/ ReadToEnd(v)
      /\ Starts(sent[v], stream[k]) /\ Starts(sent[k], stream[v])
  BY <1>2 DEF DownInv, RelayInv, OwnBytesInOrder
<1>4. NextItem(v) \in Item /\ pos[v] < Len(stream[v]) /\ NextItem(v) = stream[v][pos[v] + 1]
  BY <1>1, NextItemIs
<1>5. stream[v] \in Seq(Item) /\ Len(stream[v]) \in Nat /\ pos[v] \in Nat
  BY <1>1 DEF PosType
<1>6. pos[v] = Len(sent[k])
  BY <1>3, <1>4, <1>5 DEF ReadToEnd
<1>7. Starts(Append(sent[k], NextItem(v)), stream[v]) /\ Len(Append(sent[k], NextItem(v))) = pos[v] + 1
  BY <1>3, <1>4, <1>5, <1>6, StartsAppend
<1>8. <<NextItem(v)>> \in Seq(Item)
  BY <1>4
<1>9. /\ pos'[v] = pos[v] + 1
      /\ \A d \in Client \ {c} : pos'[<<"client", d>>] = pos[<<"client", d>>]
                              /\ pos'[<<"server", d>>] = pos[<<"server", d>>]
  BY <1>1, ReadOwn
<1>10. SentType' /\ sent'[k] = sent[k] \o <<NextItem(v)>> /\ sent'[v] = sent[v] /\ OwnStep(c)
  BY <1>1, <1>8, <1>9, WriteOwn DEF OwnStep
<1>11. sent'[k] = Append(sent[k], NextItem(v))
  <2>1. sent[k] \in Seq(Item)
    BY <1>1 DEF SentType
  <2> QED
    BY <1>4, <1>10, <2>1
<1>12. UpInv(c)'
  BY DEF UpInv, BeforeHead, BeforeSend
<1>13. DownInv(c)'
  BY <1>7, <1>9, <1>11 DEF DownInv, BeforeHead, BeforeSend, BeforeAnswer
<1> QED
  BY <1>3, <1>7, <1>10, <1>11, <1>12, <1>13, OwnStepKeeps

LEMMA RelayHeadRelays ==
  ASSUME ProxyInv, RelayInv, process = "running", NEW c \in Client, RelayHead(c)
  PROVE  RelayInv'
<1> DEFINE k == <<"client", c>>
           v == <<"server", c>>
<1>1. /\ t[c].pc = "answer" /\ From(c) = k /\ To(c) = v /\ k \in Conn /\ v \in Conn
      /\ stream' = stream /\ PosType
  BY Ends, ConnOf DEF RelayHead, TwoFds, ProxyInv
<1>2. CASE GetsLine(v) /\ sent' = sent /\ (GiveUp(c) \/ process' = "SIGPIPE")
  BY <1>1, <1>2, ReadOwn, WriteFails DEF GetsLine
<1>3. CASE /\ GetsLine(v) /\ Writes(k, <<NextItem(v)>>)
           /\ t' = [t EXCEPT ![c].size = @ + 1, ![c].s_len = Declared(NextItem(v), @),
                             ![c].pc = AfterLine(c, NextItem(v), t[c].s_len)]
  <2>1. AfterLine(c, NextItem(v), t[c].s_len) \in {"answer", "bytes", "log"}
    BY DEF AfterLine
  <2>2. t'[c].pc \in {"answer", "bytes", "log"} /\ \A d \in Client \ {c} : t'[d] = t[d]
    BY <1>3, <2>1, ThreadType DEF ThreadRecord
  <2> QED
    BY <1>1, <1>3, <2>2, ItemRelays DEF GetsLine
<1>4. CASE /\ GetsNoLine(v) /\ UNCHANGED <<sent, process>>
           /\ Goto(c, IF t[c].s_len > 0 THEN "bytes" ELSE "log")
  <2>1. t'[c].pc \in {"bytes", "log"} /\ \A d \in Client \ {c} : t'[d] = t[d]
    BY <1>4, ThreadType DEF Goto, ThreadRecord
  <2>2. OwnStep(c) /\ pos'[v] = Len(stream[v])
    <3>1. pos[v] + Len(Unread(v)) = Len(stream[v])
      <4>1. pos[v] \in Nat /\ Len(stream[v]) \in Nat
        BY <1>1 DEF PosType
      <4> QED
        BY <1>1, <4>1, UnreadIs
    <3> QED
      BY <1>1, <1>4, <2>1, <3>1, ReadOwn DEF OwnStep, GetsNoLine
  <2>3. UpInv(c)'
    BY <2>1 DEF UpInv, BeforeHead, BeforeSend
  <2>4. DownInv(c)'
    BY <1>1, <2>1, <2>2 DEF DownInv, BeforeHead, BeforeSend, BeforeAnswer, ReadToEnd
  <2> QED
    BY <1>1, <1>4, <2>2, <2>3, <2>4, OwnStepKeeps DEF RelayInv, SentType, OwnBytesInOrder
<1> QED
  BY <1>1, <1>2, <1>3, <1>4 DEF RelayHead, Write

LEMMA RelayByteRelays ==
  ASSUME ProxyInv, RelayInv, process = "running", NEW c \in Client, RelayByte(c)
  PROVE  RelayInv'
<1> DEFINE k == <<"client", c>>
           v == <<"server", c>>
<1>1. /\ t[c].pc = "bytes" /\ From(c) = k /\ To(c) = v /\ k \in Conn /\ v \in Conn
      /\ stream' = stream /\ PosType
  BY Ends, ConnOf DEF RelayByte, TwoFds, ProxyInv
<1>2. CASE (GetsBytes(v, 1, 1) \/ GetsBytes(v, 1, 0)) /\ sent' = sent /\ (GiveUp(c) \/ process' = "SIGPIPE")
  BY <1>1, <1>2, ReadOwn, WriteFails DEF GetsBytes
<1>3. CASE /\ GetsBytes(v, 1, 1) /\ Writes(k, <<NextItem(v)>>)
           /\ t' = [t EXCEPT ![c].size = @ + 1, ![c].s_len = @ - 1,
                             ![c].pc = IF t[c].s_len > 1 THEN "bytes" ELSE "log"]
  <2>1. t'[c].pc \in {"bytes", "log"} /\ \A d \in Client \ {c} : t'[d] = t[d]
    BY <1>3, ThreadType DEF ThreadRecord
  <2>2. Unread(v) # <<>> /\ Read(v, 1)
    <3>1. 1 \in Nat /\ 1 \in 0 .. 1
      OBVIOUS
    <3>2. 1 <= Len(Unread(v))
      BY <1>1, <1>3, <3>1, GetsBytesType
    <3>3. Unread(v) # <<>>
      BY <3>2
    <3> QED
      BY <1>3, <3>3 DEF GetsBytes
  <2> QED
    BY <1>1, <1>3, <2>1, <2>2, ItemRelays
<1> QED
  BY <1>1, <1>2, <1>3 DEF RelayByte, Write

-----------------------------------------------------------------------------

LEMMA ThreadRelays ==
  ASSUME ProxyInv, RelayInv, NEW c \in Client, Thread(c)
  PROVE  RelayInv'
<1>1. process = "running"
  BY DEF Thread
<1>2. CASE Start(c)
  <2>1. /\ t[c].pc = "start" /\ t'[c].pc = "line" /\ t'[c].request = t[c].request
        /\ \A d \in Client \ {c} : t'[d] = t[d]
    BY <1>2, ThreadType DEF Start, ThreadRecord
  <2> QED
    BY <1>1, <1>2, <2>1, PcKeeps DEF Start, OwnStep, socks
<1>3. CASE Connect(c)
  <2>1. /\ t[c].pc = "connect" /\ t'[c].pc = "head" /\ t'[c].request = t[c].request
        /\ \A d \in Client \ {c} : t'[d] = t[d]
    BY <1>3, ThreadType DEF Connect, ThreadRecord
  <2> QED
    BY <1>1, <1>3, <2>1, PcKeeps DEF Connect, OwnStep
<1>4. CASE ConnectFails(c)
  BY <1>4, QuitKeeps DEF ConnectFails, Die, socks
<1>5. CASE Log(c) \/ Leave(c)
  <2>1. t'[c].pc \in {"leave", "done"} /\ \A d \in Client \ {c} : t'[d] = t[d]
    BY <1>5, ThreadType DEF Log, Leave, GiveUp, Goto, ThreadRecord
  <2> QED
    BY <1>1, <1>5, <2>1, DoneKeeps DEF Log, Leave, OwnStep, socks
<1> QED
  BY <1>1, <1>2, <1>3, <1>4, <1>5, ReadLineRelays, ReadHeadRelays, SendHeadRelays,
     RelayBodyRelays, RelayHeadRelays, RelayByteRelays DEF Thread, Doit

LEMMA RelayInit == Init => RelayInv
<1> SUFFICES ASSUME Init PROVE RelayInv
  OBVIOUS
<1>1. \A c \in Client : /\ t[c].pc = "queued"
                        /\ sent[<<"client", c>>] = <<>> /\ sent[<<"server", c>>] = <<>>
                        /\ pos[<<"client", c>>] = 0 /\ pos[<<"server", c>>] = 0
  BY ConnOf DEF Init, NewThread
<1>2. SentType
  BY DEF Init, SentType
<1>3. \A k \in Conn : stream[k] \in Seq(Item)
  BY DEF Init
<1>4. \A k \in Conn : Starts(<<>>, stream[k])
  BY <1>3 DEF Starts
<1>5. OwnBytesInOrder
  BY <1>1, <1>4, ConnOf DEF OwnBytesInOrder
<1>6. \A c \in Client : UpInv(c) /\ DownInv(c)
  BY <1>1 DEF UpInv, DownInv, BeforeHead, BeforeSend, BeforeAnswer
<1> QED
  BY <1>2, <1>5, <1>6 DEF RelayInv

LEMMA RelayNext == ProxyInv /\ RelayInv /\ [Next]_vars => RelayInv'
<1> SUFFICES ASSUME ProxyInv, RelayInv, [Next]_vars PROVE RelayInv'
  OBVIOUS
<1>1. CASE UNCHANGED vars
  BY <1>1 DEF vars, RelayInv, SentType, OwnBytesInOrder, UpInv, DownInv, ReadToEnd
<1>2. ASSUME NEW k \in Conn, PeerCloses(k) PROVE RelayInv'
  BY <1>2 DEF PeerCloses, RelayInv, SentType, OwnBytesInOrder, UpInv, DownInv, ReadToEnd
<1>3. CASE Main
  <2>1. CASE AcceptFails
    BY <2>1, QuitKeeps DEF AcceptFails, Die, socks
  <2>2. ASSUME NEW c \in Client, Accept(c, Malloc) PROVE RelayInv'
    <3>1. /\ t[c].pc = "queued" /\ t'[c].pc = "start" /\ t'[c].request = t[c].request
          /\ \A d \in Client \ {c} : t'[d] = t[d]
      BY <2>2, ThreadType DEF Accept, ThreadRecord
    <3> QED
      BY <1>3, <2>2, <3>1, PcKeeps DEF Main, Accept, OwnStep, socks
  <2> QED
    BY <1>3, <2>1, <2>2 DEF Main
<1> QED
  BY <1>1, <1>2, <1>3, ThreadRelays DEF Next

\* Threads share the descriptors, whose numbers are used again and again; yet
\* each server gets its own client's request and each client its own server's
\* answer, in order and from the start, whoever goes away when.
THEOREM RelayCorrect == Spec => []OwnBytesInOrder
<1>1. RelayInv => OwnBytesInOrder
  BY DEF RelayInv
<1> QED
  BY RelayInit, RelayNext, ProxyInvHolds, <1>1, PTL DEF Spec

-----------------------------------------------------------------------------
(***************************************************************************)
(* Proof that the proxy implements Forwarding.                              *)
(***************************************************************************)

Asked(c) == stream[<<"client", c>>]
Answer(c) == stream[<<"server", c>>]
PassedUp(c) == sent[<<"server", c>>]
PassedDown(c) == sent[<<"client", c>>]

AfterRequest == {"answer", "bytes", "log"}
\* What is read to the end without a blank line, or lost, makes no complete message.
CutOff(k) == ~Relay!HeadComplete(stream[k]) \/ peer[k] = "closed"

\* c_len is the length that the head of the request declares, less what was
\* passed on of the body.
RequestInv(c) ==
  LET k == <<"client", c>>
  IN  /\ t[c].pc \in BeforeHead => t[c].c_len = 0
      /\ t[c].pc \in {"connect", "head", "send"} =>
           t[c].request # <<>> /\ t[c].c_len = Relay!BodyLength(t[c].request)
      /\ t[c].pc \in {"connect", "head"} => ~Relay!HeadComplete(t[c].request)
      /\ t[c].pc = "send" => Relay!Blanks(t[c].request) = {Len(t[c].request)} \/ CutOff(k)
      /\ t[c].pc = "body" =>
           /\ PassedUp(c) # <<>>
           /\ CutOff(k) \/ Len(PassedUp(c)) + t[c].c_len = Relay!MessageLength(Asked(c))
      /\ t[c].pc \in AfterRequest =>
           /\ PassedUp(c) # <<>>
           /\ CutOff(k) \/ Len(PassedUp(c)) >= Relay!MessageLength(Asked(c))

\* s_len and size are the same for the answer; a log entry is due when all of
\* it was passed on, or the server is gone.
AnswerInv(c) ==
  LET v == <<"server", c>>
  IN  /\ peer[v] # "eof" /\ (t[c].pc \in BeforeHead \cup {"connect"} => peer[v] = "none")
      /\ t[c].pc \in BeforeAnswer => t[c].s_len = 0 /\ t[c].size = 0
      /\ t[c].pc \in AfterRequest => t[c].size = Len(PassedDown(c))
      /\ t[c].pc = "answer" =>
           ~Relay!HeadComplete(PassedDown(c)) /\ t[c].s_len = Relay!BodyLength(PassedDown(c))
      /\ t[c].pc = "bytes" =>
           \/ /\ Relay!HeadComplete(Answer(c))
              /\ Len(PassedDown(c)) + t[c].s_len = Relay!MessageLength(Answer(c))
           \/ ReadToEnd(v)
      /\ t[c].pc = "log" =>
           \/ Relay!Complete(Answer(c)) /\ Len(PassedDown(c)) = Relay!MessageLength(Answer(c))
           \/ peer[v] = "closed"

LoggedInv ==
  \A e \in log : e.client \in Client /\ t[e.client].pc \in {"leave", "done"}

PeerType == peer \in [Conn -> {"none", "open", "eof", "closed"}]
ForwardInv ==
  /\ PeerType
  /\ \A c \in Client : Asked(c) # <<>> => Asked(c)[1].kind \in {"request", "part"}
  /\ process = "running" => /\ LoggedInv
                            /\ \A c \in Client : RequestInv(c) /\ AnswerInv(c)

-----------------------------------------------------------------------------
(* Heads and the lengths they declare.                                     *)

LEMMA LengthsAre ==
  ASSUME NEW s \in Seq(Item)
  PROVE  /\ Relay!Lengths(s) \subseteq 1 .. Len(s) /\ Relay!Blanks(s) \subseteq 1 .. Len(s)
         /\ Relay!Lengths(s) # {} =>
              /\ Max(Relay!Lengths(s)) \in Relay!Lengths(s)
              /\ \A j \in Relay!Lengths(s) : j <= Max(Relay!Lengths(s))
         /\ Relay!BodyLength(s) =
              IF Relay!Lengths(s) = {} THEN 0 ELSE s[Max(Relay!Lengths(s))].n
         /\ Relay!BodyLength(s) \in Nat
<1>1. DOMAIN s = 1 .. Len(s) /\ Len(s) \in Nat /\ \A j \in 1 .. Len(s) : s[j].n \in Nat
  <2>1. DOMAIN s = 1 .. Len(s) /\ Len(s) \in Nat /\ \A j \in 1 .. Len(s) : s[j] \in Item
    OBVIOUS
  <2> QED
    BY <2>1 DEF Item
<1>2. Relay!Lengths(s) \subseteq 1 .. Len(s) /\ Relay!Blanks(s) \subseteq 1 .. Len(s)
  BY <1>1 DEF Relay!Lengths, Relay!Blanks
<1>3. ASSUME Relay!Lengths(s) # {}
      PROVE  /\ Max(Relay!Lengths(s)) \in Relay!Lengths(s)
             /\ \A j \in Relay!Lengths(s) : j <= Max(Relay!Lengths(s))
  <2>1. Relay!Lengths(s) \subseteq Nat /\ \A j \in Relay!Lengths(s) : j <= Len(s)
    BY <1>1, <1>2
  <2> QED
    BY <1>1, <1>3, <2>1, MaxOfNats
<1>4. Relay!BodyLength(s) =
              IF Relay!Lengths(s) = {} THEN 0 ELSE s[Max(Relay!Lengths(s))].n
  BY DEF Relay!BodyLength, Relay!Max, Max
<1> QED
  BY <1>1, <1>2, <1>3, <1>4

\* A line more of a head.
LEMMA HeadAppend ==
  ASSUME NEW s \in Seq(Item), NEW i \in Item, ~Relay!HeadComplete(s)
  PROVE  /\ Append(s, i) \in Seq(Item) /\ Append(s, i) # <<>> /\ Len(Append(s, i)) = Len(s) + 1
         /\ Relay!Blanks(Append(s, i)) = IF i.kind = "blank" THEN {Len(s) + 1} ELSE {}
         /\ Relay!BodyLength(Append(s, i)) = Declared(i, Relay!BodyLength(s))
<1> DEFINE x == Append(s, i)
<1>1. /\ x \in Seq(Item) /\ x # <<>> /\ Len(x) = Len(s) + 1 /\ Len(s) \in Nat
      /\ DOMAIN x = 1 .. Len(s) + 1 /\ DOMAIN s = 1 .. Len(s)
      /\ \A j \in 1 .. Len(s) : x[j] = s[j]
      /\ x[Len(s) + 1] = i
  OBVIOUS
<1>2. \A j \in 1 .. Len(s) : s[j].kind # "blank"
  BY <1>1 DEF Relay!HeadComplete, Relay!Blanks
<1> HIDE DEF x
<1>3. Relay!Blanks(x) = IF i.kind = "blank" THEN {Len(s) + 1} ELSE {}
  BY <1>1, <1>2 DEF Relay!Blanks
<1>4. Relay!Lengths(s) = {j \in 1 .. Len(s) : s[j].kind = "length" /\ s[j].what # "tight"}
  BY <1>1, <1>2 DEF Relay!Lengths, Relay!Blanks
<1>5. Relay!Lengths(x) = Relay!Lengths(s) \cup
        {j \in {Len(s) + 1} : i.kind = "length" /\ i.what # "tight"}
  <2>1. \A b \in Relay!Blanks(x) : i.kind = "blank" /\ b = Len(s) + 1
    BY <1>3
  <2>2. Relay!Lengths(x) = {j \in 1 .. Len(s) + 1 : x[j].kind = "length" /\ x[j].what # "tight"}
    BY <1>1, <2>1 DEF Relay!Lengths
  <2> QED
    BY <1>1, <1>4, <2>2
<1>6. CASE i.kind = "length" /\ i.what # "tight"
  <2>1. Len(s) + 1 \in Relay!Lengths(x)
    BY <1>5, <1>6
  <2>2. Max(Relay!Lengths(x)) \in 1 .. Len(s) + 1 /\ Max(Relay!Lengths(x)) >= Len(s) + 1
    BY <1>1, <2>1, LengthsAre
  <2>3. Max(Relay!Lengths(x)) = Len(s) + 1
    BY <1>1, <2>2
  <2> QED
    BY <1>1, <1>3, <1>6, <2>1, <2>3, LengthsAre DEF Declared, x
<1>7. CASE ~(i.kind = "length" /\ i.what # "tight")
  <2>1. Relay!Lengths(x) = Relay!Lengths(s)
    BY <1>5, <1>7
  <2>2. Relay!BodyLength(x) = Relay!BodyLength(s)
    <3>1. CASE Relay!Lengths(s) = {}
      BY <1>1, <2>1, <3>1, LengthsAre
    <3>2. CASE Relay!Lengths(s) # {}
      <4>1. Max(Relay!Lengths(s)) \in 1 .. Len(s)
        BY <3>2, LengthsAre
      <4> QED
        BY <1>1, <2>1, <3>2, <4>1, LengthsAre
    <3> QED
      BY <3>1, <3>2
  <2> QED
    BY <1>1, <1>3, <1>7, <2>2 DEF Declared, x
<1> QED
  BY <1>6, <1>7

\* What a head says of the message that it is the start of.
LEMMA HeadOf ==
  ASSUME NEW x \in Seq(Item), NEW s, Starts(s, x), Relay!Blanks(s) = {Len(s)}
  PROVE  /\ Relay!HeadComplete(x) /\ Relay!HeadComplete(s)
         /\ Relay!MessageLength(x) = Len(s) + Relay!BodyLength(s)
         /\ Relay!BodyLength(s) \in Nat
<1>1. /\ s \in Seq(Item) /\ Len(s) <= Len(x) /\ \A i \in 1 .. Len(s) : s[i] = x[i]
      /\ DOMAIN s = 1 .. Len(s) /\ DOMAIN x = 1 .. Len(x) /\ Len(s) \in Nat /\ Len(x) \in Nat
  BY DEF Starts
<1>2. /\ Len(s) \in 1 .. Len(s) /\ s[Len(s)].kind = "blank"
      /\ \A j \in 1 .. Len(s) : s[j].kind = "blank" => j = Len(s)
  BY <1>1 DEF Relay!Blanks
<1>3. Len(s) \in Relay!Blanks(x) /\ \A b \in Relay!Blanks(x) : b \in Nat /\ b >= Len(s)
  <2> PICK n \in Nat, m \in Nat : n = Len(s) /\ m = Len(x)
    BY <1>1
  <2>1. /\ n >= 1 /\ n <= m /\ DOMAIN x = 1 .. m /\ s[n].kind = "blank"
        /\ \A i \in 1 .. n : s[i] = x[i]
        /\ \A j \in 1 .. n : s[j].kind = "blank" => j = n
    BY <1>1, <1>2
  <2>2. n \in 1 .. m /\ x[n].kind = "blank"
    BY <2>1
  <2>3. \A b \in 1 .. m : x[b].kind = "blank" => b >= n
    BY <2>1
  <2>4. Relay!Blanks(x) = {b \in 1 .. m : x[b].kind = "blank"}
    BY <2>1 DEF Relay!Blanks
  <2>5. n \in Relay!Blanks(x) /\ \A b \in Relay!Blanks(x) : b \in Nat /\ b >= n
    BY <2>2, <2>3, <2>4
  <2> QED
    BY <2>5
<1>4. Relay!HeadLength(x) = Len(s)
  <2>1. Relay!Blanks(x) \subseteq Nat /\ Relay!Blanks(x) # {}
    BY <1>3
  <2>2. Min(Relay!Blanks(x)) \in Relay!Blanks(x) /\ Min(Relay!Blanks(x)) <= Len(s)
    BY <1>3, <2>1, MinOfNats
  <2>3. Min(Relay!Blanks(x)) = Len(s)
    BY <1>1, <1>3, <2>2
  <2> QED
    BY <2>3 DEF Relay!HeadLength, Relay!Min, Min
<1>5. Relay!Lengths(x) = Relay!Lengths(s)
  <2>1. ASSUME NEW j \in Relay!Lengths(x) PROVE j \in Relay!Lengths(s)
    <3>1. j \in 1 .. Len(x) /\ j < Len(s) /\ x[j].kind = "length" /\ x[j].what # "tight"
      BY <1>1, <1>3, <2>1 DEF Relay!Lengths
    <3>2. j \in 1 .. Len(s) /\ s[j] = x[j]
      BY <1>1, <3>1
    <3> QED
      BY <1>1, <3>1, <3>2 DEF Relay!Lengths
  <2>2. ASSUME NEW j \in Relay!Lengths(s) PROVE j \in Relay!Lengths(x)
    <3>1. j \in 1 .. Len(s) /\ s[j].kind = "length" /\ s[j].what # "tight" /\ j < Len(s)
      BY <1>1, <2>2 DEF Relay!Lengths
    <3>2. j \in 1 .. Len(x) /\ s[j] = x[j]
      BY <1>1, <3>1
    <3>3. \A b \in Relay!Blanks(x) : j < b
      BY <1>1, <1>3, <3>1
    <3> QED
      BY <1>1, <3>1, <3>2, <3>3 DEF Relay!Lengths
  <2> QED
    BY <2>1, <2>2
<1>6. Relay!BodyLength(x) = Relay!BodyLength(s) /\ Relay!BodyLength(s) \in Nat
  <2>1. CASE Relay!Lengths(s) = {}
    BY <1>1, <1>5, <2>1, LengthsAre
  <2>2. CASE Relay!Lengths(s) # {}
    <3>1. Max(Relay!Lengths(s)) \in 1 .. Len(s)
      BY <1>1, <2>2, LengthsAre
    <3> QED
      BY <1>1, <1>5, <2>2, <3>1, LengthsAre
  <2> QED
    BY <2>1, <2>2
<1> QED
  BY <1>3, <1>4, <1>6 DEF Relay!HeadComplete, Relay!MessageLength

-----------------------------------------------------------------------------
(* What a step means for the proxy as Forwarding sees it.                  *)

\* The invariant holds again, and Forwarding has made a step or none.
Forwards == ForwardInv' /\ [Relay!Next]_(Relay!vars)

PeersKeep(c) ==
  /\ PeerType'
  /\ \A d \in Client \ {c} : peer[<<"server", d>>] = "none" => peer'[<<"server", d>>] = "none"
  /\ \A k \in Conn : /\ peer[k] = "closed" => peer'[k] = "closed"
                     /\ peer'[k] = "eof" => peer[k] = "eof"

LEMMA OthersKeep ==
  ASSUME ForwardInv, process = "running", NEW c \in Client, OwnStep(c), PeersKeep(c),
         LoggedInv', RequestInv(c)', AnswerInv(c)'
  PROVE  ForwardInv'
<1>1. ASSUME NEW d \in Client \ {c} PROVE RequestInv(d)' /\ AnswerInv(d)'
  <2>1. /\ RequestInv(d) /\ AnswerInv(d) /\ <<"client", d>> \in Conn /\ <<"server", d>> \in Conn
        /\ stream' = stream /\ t'[d] = t[d] /\ PassedUp(d)' = PassedUp(d) /\ PassedDown(d)' = PassedDown(d)
        /\ Asked(d)' = Asked(d) /\ Answer(d)' = Answer(d)
        /\ pos'[<<"server", d>>] = pos[<<"server", d>>]
    BY ConnOf DEF ForwardInv, OwnStep, PassedUp, PassedDown, Asked, Answer
  <2>2. /\ CutOff(<<"client", d>>) => CutOff(<<"client", d>>)'
        /\ peer[<<"server", d>>] = "closed" => peer'[<<"server", d>>] = "closed"
        /\ peer[<<"server", d>>] # "eof" => peer'[<<"server", d>>] # "eof"
        /\ peer[<<"server", d>>] = "none" => peer'[<<"server", d>>] = "none"
    BY <2>1 DEF PeersKeep, CutOff
  <2>3. RequestInv(d)'
    BY <2>1, <2>2 DEF RequestInv
  <2>4. AnswerInv(d)'
    BY <2>1, <2>2 DEF AnswerInv, ReadToEnd
  <2> QED
    BY <2>3, <2>4
<1> QED
  BY <1>1 DEF ForwardInv, OwnStep, Asked, PeersKeep

LEMMA LogKeeps ==
  ASSUME LoggedInv, NEW c \in Client, OwnStep(c), log' = log,
         t[c].pc \notin {"leave", "done"} \/ t'[c].pc \in {"leave", "done"}
  PROVE  LoggedInv'
BY DEF LoggedInv, OwnStep

\* What Forwarding does not see.
LEMMA Unseen ==
  ASSUME UNCHANGED <<stream, sent, peer, log, process>>
  PROVE  [Relay!Next]_(Relay!vars)
BY DEF Relay!vars, Side

\* The end of the process.
LEMMA Stops ==
  ASSUME ForwardInv, process = "running", process' # "running", UNCHANGED <<stream, sent, peer, log>>
  PROVE  Forwards
<1>1. ForwardInv'
  BY DEF ForwardInv, PeerType, Asked
<1>2. Relay!Next
  BY DEF Relay!Next, Relay!Stop, Side
<1> QED
  BY <1>1, <1>2 DEF Forwards

\* A thread that is done with its connections, or gives up.
LEMMA DoneForwards ==
  ASSUME ForwardInv, process = "running", NEW c \in Client, OwnStep(c),
         UNCHANGED <<sent, peer, log, process>>, t'[c].pc \in {"leave", "done"}
  PROVE  Forwards
<1>1. RequestInv(c)' /\ AnswerInv(c)'
  BY DEF ForwardInv, RequestInv, AnswerInv, BeforeHead, BeforeSend, BeforeAnswer, AfterRequest
<1>2. PeersKeep(c) /\ LoggedInv'
  BY LogKeeps DEF PeersKeep, PeerType, ForwardInv
<1> QED
  BY <1>1, <1>2, OthersKeep, Unseen DEF Forwards, OwnStep

LEMMA WriteFailsForwards ==
  ASSUME ProxyInv, ForwardInv, process = "running", NEW c \in Client, UNCHANGED <<stream, sent, peer, log>>,
         \A d \in Client \ {c} : pos'[<<"client", d>>] = pos[<<"client", d>>]
                              /\ pos'[<<"server", d>>] = pos[<<"server", d>>],
         (GiveUp(c) /\ process' = process) \/ process' = "SIGPIPE"
  PROVE  Forwards
<1>1. CASE GiveUp(c) /\ process' = process
  <2>1. t'[c].pc = "leave" /\ \A d \in Client \ {c} : t'[d] = t[d]
    BY <1>1, ThreadType DEF GiveUp, Goto, ThreadRecord
  <2>2. OwnStep(c)
    BY <2>1 DEF OwnStep
  <2> QED
    BY <1>1, <2>1, <2>2, DoneForwards
<1> QED
  BY <1>1, Stops

\* A step before the request goes out.
LEMMA EarlyForwards ==
  ASSUME ForwardInv, process = "running", NEW c \in Client, OwnStep(c), PeersKeep(c),
         UNCHANGED <<sent, log, process>>, t[c].pc \in BeforeSend, t'[c].pc \in BeforeSend,
         t'[c].pc \in BeforeHead \cup {"connect"} =>
           t[c].pc \in BeforeHead /\ peer'[<<"server", c>>] = peer[<<"server", c>>],
         t'[c].s_len = t[c].s_len, t'[c].size = t[c].size, RequestInv(c)'
  PROVE  ForwardInv'
<1>1. AnswerInv(c)'
  <2>1. AnswerInv(c) /\ <<"server", c>> \in Conn
    BY ConnOf DEF ForwardInv
  <2> QED
    BY <2>1 DEF AnswerInv, BeforeAnswer, BeforeSend, BeforeHead, AfterRequest, PeersKeep
<1>2. LoggedInv'
  BY LogKeeps DEF ForwardInv, BeforeSend, BeforeHead
<1> QED
  BY <1>1, <1>2, OthersKeep

LEMMA ReadLineForwards ==
  ASSUME ProxyInv, RelayInv, ForwardInv, process = "running", NEW c \in Client, ReadLine(c)
  PROVE  Forwards
<1> DEFINE k == <<"client", c>>
<1>1. /\ t[c].pc = "line" /\ From(c) = k /\ k \in Conn /\ PosType
      /\ UNCHANGED <<stream, peer, sent, log, process>>
  BY Ends, ConnOf DEF ReadLine, OneFd, ProxyInv
<1>2. CASE /\ GetsLine(k)
           /\ t' = [t EXCEPT ![c].pc = IF NextItem(k).what \in {"malformed", "baduri"}
                                       THEN "leave" ELSE "connect",
                             ![c].request = <<NextItem(k)>>]
  <2>1. /\ NextItem(k) \in Item /\ NextItem(k) = stream[k][pos[k] + 1] /\ pos[k] < Len(stream[k])
        /\ IsLine(NextItem(k))
    BY <1>1, <1>2, NextItemIs DEF GetsLine
  <2>2. pos[k] = 0 /\ t[c].c_len = 0 /\ (stream[k] # <<>> => stream[k][1].kind \in {"request", "part"})
    BY <1>1 DEF RelayInv, UpInv, ForwardInv, RequestInv, BeforeHead, Asked
  <2>3. stream[k] # <<>> /\ stream[k][pos[k] + 1] = stream[k][1]
    BY <1>1, <2>1, <2>2 DEF PosType
  <2>4. NextItem(k).kind = "request"
    BY <2>1, <2>2, <2>3 DEF IsLine
  <2>5. /\ t'[c].request = <<NextItem(k)>> /\ t'[c].c_len = 0 /\ t'[c].s_len = t[c].s_len
        /\ t'[c].size = t[c].size /\ t'[c].pc \in {"leave", "connect"}
        /\ \A d \in Client \ {c} : t'[d] = t[d]
    BY <1>2, <2>2, ThreadType DEF ThreadRecord
  <2>6. OwnStep(c)
    BY <1>1, <1>2, <2>5, ReadOwn DEF OwnStep, GetsLine
  <2>7. <<>> \in Seq(Item) /\ Append(<<>>, NextItem(k)) = <<NextItem(k)>> /\ Relay!Blanks(<<>>) = {}
        /\ Relay!Lengths(<<>>) = {}
    BY <2>1 DEF Relay!Blanks, Relay!Lengths
  <2>8. /\ Relay!Blanks(<<NextItem(k)>>) = {} /\ <<NextItem(k)>> # <<>>
        /\ Relay!BodyLength(<<NextItem(k)>>) = 0
    BY <2>1, <2>4, <2>7, HeadAppend, LengthsAre DEF Declared, Relay!HeadComplete
  <2>9. CASE t'[c].pc = "connect"
    <3>1. RequestInv(c)'
      BY <2>5, <2>8, <2>9 DEF RequestInv, BeforeHead, AfterRequest, Relay!HeadComplete
    <3>2. PeersKeep(c)
      BY <1>1 DEF PeersKeep, ForwardInv, PeerType
    <3> QED
      BY <1>1, <2>5, <2>6, <2>9, <3>1, <3>2, EarlyForwards, Unseen DEF Forwards, BeforeSend, BeforeHead
  <2> QED
    BY <1>1, <2>5, <2>6, <2>9, DoneForwards
<1>3. CASE GetsNoLine(k) /\ Goto(c, "leave")
  <2>1. t'[c].pc = "leave" /\ \A d \in Client \ {c} : t'[d] = t[d]
    BY <1>3, ThreadType DEF Goto, ThreadRecord
  <2> QED
    BY <1>1, <1>3, <2>1, ReadOwn, DoneForwards DEF OwnStep, GetsNoLine
<1> QED
  BY <1>1, <1>2, <1>3 DEF ReadLine

LEMMA ReadHeadForwards ==
  ASSUME ProxyInv, RelayInv, ForwardInv, process = "running", NEW c \in Client, ReadHead(c)
  PROVE  Forwards
<1> DEFINE k == <<"client", c>>
           request == t[c].request
<1>1. /\ t[c].pc = "head" /\ From(c) = k /\ k \in Conn /\ PosType
      /\ UNCHANGED <<stream, peer, sent, log, process>>
  BY Ends, ConnOf DEF ReadHead, TwoFds, ProxyInv
<1>2. /\ request \in Seq(Item) /\ request # <<>> /\ ~Relay!HeadComplete(request)
      /\ t[c].c_len = Relay!BodyLength(request) /\ Starts(request, stream[k]) /\ pos[k] = Len(request)
  BY <1>1, ThreadType DEF RelayInv, UpInv, ForwardInv, RequestInv
<1>3. PeersKeep(c)
  BY <1>1 DEF PeersKeep, ForwardInv, PeerType
<1>4. CASE /\ GetsLine(k)
           /\ t' = [t EXCEPT ![c].request = Append(@, NextItem(k)),
                             ![c].c_len = Declared(NextItem(k), @),
                             ![c].pc = IF NextItem(k).kind = "blank" THEN "send" ELSE @]
  <2> DEFINE longer == Append(request, NextItem(k))
  <2>1. NextItem(k) \in Item
    BY <1>1, <1>4, NextItemIs DEF GetsLine
  <2>2. /\ t'[c].request = longer /\ t'[c].c_len = Declared(NextItem(k), t[c].c_len)
        /\ t'[c].pc = (IF NextItem(k).kind = "blank" THEN "send" ELSE "head")
        /\ t'[c].s_len = t[c].s_len /\ t'[c].size = t[c].size
        /\ \A d \in Client \ {c} : t'[d] = t[d]
    BY <1>1, <1>4, ThreadType DEF ThreadRecord
  <2>3. /\ longer # <<>> /\ Len(longer) = Len(request) + 1
        /\ Relay!Blanks(longer) = IF NextItem(k).kind = "blank" THEN {Len(request) + 1} ELSE {}
        /\ Relay!BodyLength(longer) = Declared(NextItem(k), Relay!BodyLength(request))
    BY <1>2, <2>1, HeadAppend
  <2> HIDE DEF longer
  <2>4. RequestInv(c)'
    BY <1>2, <2>2, <2>3 DEF RequestInv, BeforeHead, AfterRequest, Relay!HeadComplete
  <2>5. OwnStep(c)
    BY <1>1, <1>4, <2>2, ReadOwn DEF OwnStep, GetsLine
  <2> QED
    BY <1>1, <1>3, <2>2, <2>4, <2>5, EarlyForwards, Unseen DEF Forwards, BeforeSend, BeforeHead
<1>5. CASE GetsNoLine(k) /\ Goto(c, "send")
  <2>1. /\ t'[c].pc = "send" /\ t'[c].request = request /\ t'[c].c_len = t[c].c_len
        /\ t'[c].s_len = t[c].s_len /\ t'[c].size = t[c].size /\ \A d \in Client \ {c} : t'[d] = t[d]
    BY <1>5, ThreadType DEF Goto, ThreadRecord
  <2>2. OwnStep(c)
    BY <1>1, <1>5, <2>1, ReadOwn DEF OwnStep, GetsNoLine
  <2>3. CutOff(k)
    <3>1. CASE \A i \in DOMAIN Unread(k) : Unread(k)[i].kind = "part"
      <4>1. /\ Unread(k) \in Seq(Item) /\ Len(Unread(k)) = Len(stream[k]) - Len(request)
            /\ \A i \in 1 .. Len(Unread(k)) : Unread(k)[i] = stream[k][Len(request) + i]
        BY <1>1, <1>2, UnreadIs
      <4>2. /\ DOMAIN Unread(k) = 1 .. Len(Unread(k)) /\ Len(request) \in Nat /\ Len(stream[k]) \in Nat
            /\ DOMAIN stream[k] = 1 .. Len(stream[k]) /\ DOMAIN request = 1 .. Len(request)
        BY <1>1, <1>2, <4>1 DEF PosType
      <4>3. ASSUME NEW j \in 1 .. Len(stream[k]) PROVE stream[k][j].kind # "blank"
        <5>1. CASE j \in 1 .. Len(request)
          BY <1>2, <4>2, <5>1 DEF Starts, Relay!HeadComplete, Relay!Blanks
        <5>2. CASE j \notin 1 .. Len(request)
          <6>1. j - Len(request) \in 1 .. Len(Unread(k)) /\ Len(request) + (j - Len(request)) = j
            BY <4>1, <4>2, <5>2
          <6> QED
            BY <3>1, <4>1, <4>2, <6>1
        <5> QED
          BY <5>1, <5>2
      <4> QED
        BY <4>2, <4>3 DEF CutOff, Relay!HeadComplete, Relay!Blanks
    <3> QED
      BY <1>5, <3>1 DEF GetsNoLine, CutOff
  <2>4. RequestInv(c)'
    BY <1>1, <1>2, <2>1, <2>3 DEF RequestInv, BeforeHead, AfterRequest, CutOff
  <2> QED
    BY <1>1, <1>3, <2>1, <2>2, <2>4, EarlyForwards, Unseen DEF Forwards, BeforeSend, BeforeHead
<1> QED
  BY <1>1, <1>4, <1>5 DEF ReadHead

-----------------------------------------------------------------------------
(* What is passed on.                                                      *)

LEMMA StartIsSubSeq ==
  ASSUME NEW x \in Seq(Item), NEW s, Starts(s, x)
  PROVE  s = SubSeq(x, 1, Len(s))
BY DEF Starts

\* Nobody's entry is made before its time.
LEMMA NotLogged ==
  ASSUME ForwardInv, process = "running", NEW c \in Client, t[c].pc \notin {"leave", "done"}
  PROVE  ~Relay!Logged(c)
BY DEF ForwardInv, LoggedInv, Relay!Logged

\* An answer is passed on only behind the request.
LEMMA MayAnswerNow ==
  ASSUME ForwardInv, process = "running", NEW c \in Client, t[c].pc \in AfterRequest
  PROVE  Relay!MayAnswer(c)
<1> DEFINE k == <<"client", c>>
<1>1. /\ PassedUp(c) # <<>> /\ k \in Conn
      /\ CutOff(k) \/ Len(PassedUp(c)) >= Relay!MessageLength(Asked(c))
  BY ConnOf DEF ForwardInv, RequestInv
<1>2. Side("client", stream)[c] = Asked(c) /\ Side("server", sent)[c] = PassedUp(c)
  BY DEF Side, Asked, PassedUp
<1>3. ~Relay!HeadComplete(Asked(c)) => ~Relay!Complete(Asked(c))
  BY DEF Relay!Complete
<1>4. CutOff(k) => ~Relay!HeadComplete(Asked(c)) \/ k \in {j \in Conn : peer[j] = "closed"}
  BY <1>1 DEF CutOff, Asked
<1> HIDE DEF k
<1>5. \/ Relay!Complete(Asked(c)) /\ Len(PassedUp(c)) >= Relay!MessageLength(Asked(c))
      \/ PassedUp(c) # <<>> /\ (~Relay!Complete(Asked(c)) \/ k \in {j \in Conn : peer[j] = "closed"})
  BY <1>1, <1>3, <1>4
<1> QED
  BY <1>2, <1>5 DEF Relay!MayAnswer, k

LEMMA PassesUp ==
  ASSUME ProxyInv, RelayInv, ForwardInv, process = "running", NEW c \in Client,
         t[c].pc \in {"send", "body"}, UNCHANGED <<stream, peer, log, process>>,
         NEW items \in Seq(Item), items # <<>>, Writes(<<"server", c>>, items),
         Starts(sent'[<<"server", c>>], stream[<<"client", c>>])
  PROVE  Relay!Next
<1> DEFINE k == <<"client", c>>
           v == <<"server", c>>
           n == Len(sent'[v])
<1>1. k \in Conn /\ v \in Conn /\ k # v /\ SentType /\ PosType
  BY ConnOf DEF ProxyInv, RelayInv
<1>2. sent'[v] = sent[v] \o items /\ \A j \in Conn : j # v => sent'[j] = sent[j]
  BY <1>1, WriteOwn
<1>3. stream[k] \in Seq(Item) /\ sent[v] \in Seq(Item)
  BY <1>1 DEF PosType, SentType
<1>4. n \in Len(sent[v]) + 1 .. Len(stream[k]) /\ sent'[v] = SubSeq(stream[k], 1, n)
  <2>1. n = Len(sent[v]) + Len(items) /\ Len(items) >= 1 /\ Len(items) \in Nat /\ Len(sent[v]) \in Nat
        /\ Len(stream[k]) \in Nat
    BY <1>2, <1>3
  <2>2. n <= Len(stream[k])
    BY DEF Starts
  <2>3. sent'[v] = SubSeq(stream[k], 1, n)
    BY <1>3, StartIsSubSeq
  <2> HIDE DEF n
  <2> QED
    BY <2>1, <2>2, <2>3
<1>5. Side("server", sent') = [Side("server", sent) EXCEPT ![c] = SubSeq(Side("client", stream)[c], 1, n)]
  BY <1>2, <1>4, ConnOf DEF Side
<1>6. Side("client", sent') = Side("client", sent)
  <2>1. \A d \in Client : <<"client", d>> \in Conn /\ <<"client", d>> # v
    BY DEF Conn
  <2> QED
    BY <1>2, <2>1 DEF Side
<1>7. Side("client", sent)[c] = <<>>
  <2>1. sent[k] = <<>>
    BY DEF RelayInv, DownInv, BeforeAnswer, BeforeSend
  <2> QED
    BY <2>1 DEF Side
<1>8. ~Relay!Logged(c)
  BY NotLogged
<1>9. n \in Len(Side("server", sent)[c]) + 1 .. Len(Side("client", stream)[c])
  BY <1>4 DEF Side
<1>10. Relay!PassUp(c)
  BY <1>5, <1>6, <1>7, <1>8, <1>9 DEF Relay!PassUp
<1> QED
  BY <1>10 DEF Relay!Next, Side

LEMMA PassesDown ==
  ASSUME ProxyInv, RelayInv, ForwardInv, process = "running", NEW c \in Client,
         t[c].pc \in {"answer", "bytes"}, UNCHANGED <<stream, peer, log, process>>,
         Len(PassedDown(c)) < Len(Answer(c)),
         Writes(<<"client", c>>, <<Answer(c)[Len(PassedDown(c)) + 1]>>),
         ~Relay!HeadComplete(PassedDown(c)) \/ Len(PassedDown(c)) < Relay!MessageLength(Answer(c))
  PROVE  Relay!Next
<1> DEFINE k == <<"client", c>>
           item == Answer(c)[Len(PassedDown(c)) + 1]
<1>1. k \in Conn /\ <<"server", c>> \in Conn /\ SentType /\ PosType
  BY ConnOf DEF ProxyInv, RelayInv
<1>2. PassedDown(c) \in Seq(Item) /\ Answer(c) \in Seq(Item)
  BY <1>1 DEF SentType, PosType, PassedDown, Answer
<1>3. item \in Item
  <2>1. Len(PassedDown(c)) + 1 \in 1 .. Len(Answer(c))
    BY <1>2
  <2> QED
    BY <1>2, <2>1
<1>4. <<item>> \in Seq(Item)
  BY <1>3
<1>5. sent'[k] = sent[k] \o <<item>> /\ \A j \in Conn : j # k => sent'[j] = sent[j]
  BY <1>1, <1>4, WriteOwn
<1>6. sent'[k] = Append(PassedDown(c), item)
  BY <1>2, <1>3, <1>5 DEF PassedDown
<1>7. /\ Side("client", sent)[c] = PassedDown(c) /\ Side("server", stream)[c] = Answer(c)
  BY DEF Side, PassedDown, Answer
<1> HIDE DEF item
<1>8. Side("client", sent') = [Side("client", sent) EXCEPT ![c] = Append(@, item)]
  <2>1. \A d \in Client \ {c} : <<"client", d>> \in Conn /\ <<"client", d>> # k
    BY ConnOf
  <2> QED
    BY <1>5, <1>6, <1>7, <2>1 DEF Side
<1>9. Side("server", sent') = Side("server", sent)
  <2>1. \A d \in Client : <<"server", d>> \in Conn /\ <<"server", d>> # k
    BY DEF Conn
  <2> QED
    BY <1>5, <2>1 DEF Side
<1>10. Relay!MayAnswer(c) /\ ~Relay!Logged(c)
  BY NotLogged, MayAnswerNow DEF AfterRequest
<1>11. Relay!PassDown(c)
  BY <1>7, <1>8, <1>9, <1>10 DEF Relay!PassDown, item
<1> QED
  BY <1>11 DEF Relay!Next, Side

\* A head with nothing in it.
LEMMA NothingYet ==
  ~Relay!HeadComplete(<<>>) /\ Relay!BodyLength(<<>>) = 0
BY DEF Relay!HeadComplete, Relay!Blanks, Relay!BodyLength, Relay!Lengths

\* The request goes on to the server, and a thread that has sent all that the
\* head declares turns to the answer.
LEMMA UpKeeps ==
  ASSUME ProxyInv, RelayInv, ForwardInv, process = "running", NEW c \in Client, OwnStep(c),
         t[c].pc \in {"send", "body"}, UNCHANGED <<peer, log, process>>,
         sent'[<<"client", c>>] = sent[<<"client", c>>], sent'[<<"server", c>>] # <<>>,
         t'[c].pc = IF t'[c].c_len > 0 THEN "body" ELSE "answer",
         t'[c].c_len \in Int, t'[c].s_len = t[c].s_len, t'[c].size = t[c].size,
         CutOff(<<"client", c>>) \/
           /\ Len(sent'[<<"server", c>>]) + t'[c].c_len = Relay!MessageLength(Asked(c))
           /\ Len(sent'[<<"server", c>>]) \in Nat
  PROVE  ForwardInv'
<1> DEFINE k == <<"client", c>>
           v == <<"server", c>>
<1>1. /\ sent[k] = <<>> /\ sent'[k] = <<>> /\ t'[c].s_len = 0 /\ t'[c].size = 0 /\ peer'[v] # "eof"
  BY DEF RelayInv, DownInv, ForwardInv, AnswerInv, BeforeAnswer, BeforeSend
<1>2. RequestInv(c)'
  <2>1. CutOff(k)' = CutOff(k) /\ Asked(c)' = Asked(c) /\ PassedUp(c)' = sent'[v]
    BY DEF CutOff, Asked, PassedUp, OwnStep
  <2>2. CASE t'[c].c_len > 0
    BY <2>1, <2>2 DEF RequestInv, BeforeHead, AfterRequest
  <2>3. CASE ~(t'[c].c_len > 0)
    <3>1. CutOff(k) \/ Len(sent'[v]) >= Relay!MessageLength(Asked(c))
      BY <2>3
    <3> QED
      BY <2>1, <2>3, <3>1 DEF RequestInv, BeforeHead, AfterRequest
  <2> QED
    BY <2>2, <2>3
<1>3. AnswerInv(c)'
  BY <1>1, NothingYet DEF AnswerInv, AfterRequest, BeforeAnswer, BeforeSend, BeforeHead, PassedDown
<1>4. PeersKeep(c) /\ LoggedInv'
  BY LogKeeps DEF PeersKeep, PeerType, ForwardInv
<1> QED
  BY <1>2, <1>3, <1>4, OthersKeep

LEMMA SendHeadForwards ==
  ASSUME ProxyInv, RelayInv, RelayInv', ForwardInv, process = "running", NEW c \in Client, SendHead(c)
  PROVE  Forwards
<1> DEFINE k == <<"client", c>>
           v == <<"server", c>>
           q == t[c].request
<1>1. /\ t[c].pc = "send" /\ To(c) = v /\ k \in Conn /\ v \in Conn /\ k # v
      /\ UNCHANGED <<stream, pos, peer, log>> /\ PosType
  BY Ends, ConnOf DEF SendHead, TwoFds, ProxyInv
<1>2. /\ sent[v] = <<>> /\ q \in Seq(Item) /\ q # <<>> /\ Starts(q, stream[k])
      /\ t[c].c_len = Relay!BodyLength(q) /\ (Relay!Blanks(q) = {Len(q)} \/ CutOff(k))
  BY <1>1, ThreadType DEF RelayInv, UpInv, BeforeSend, ForwardInv, RequestInv
<1>3. CASE /\ Writes(v, q) /\ UNCHANGED <<file, process>>
           /\ Goto(c, IF t[c].c_len > 0 THEN "body" ELSE "answer")
  <2>1. /\ t'[c].pc = (IF t'[c].c_len > 0 THEN "body" ELSE "answer") /\ t'[c].c_len = t[c].c_len
        /\ t'[c].s_len = t[c].s_len /\ t'[c].size = t[c].size
        /\ \A d \in Client \ {c} : t'[d] = t[d]
    BY <1>3, ThreadType DEF Goto, ThreadRecord
  <2>2. sent'[v] = sent[v] \o q /\ sent'[k] = sent[k] /\ OwnStep(c)
    BY <1>1, <1>2, <1>3, <2>1, WriteOwn DEF OwnStep, RelayInv
  <2>3. sent'[v] = q
    BY <1>2, <2>2
  <2>4. (CutOff(k) \/ Len(q) + t[c].c_len = Relay!MessageLength(Asked(c))) /\ Len(q) \in Nat
    <3>1. stream[k] \in Seq(Item) /\ Len(q) \in Nat
      BY <1>1, <1>2 DEF PosType
    <3> QED
      BY <1>2, <3>1, HeadOf DEF Asked
  <2>5. t[c].c_len \in Int
    BY ThreadType
  <2>6. ForwardInv'
    BY <1>1, <1>2, <1>3, <2>1, <2>2, <2>3, <2>4, <2>5, UpKeeps
  <2>7. Relay!Next
    BY <1>1, <1>2, <1>3, <2>3, PassesUp
  <2> QED
    BY <2>6, <2>7 DEF Forwards
<1>4. CASE sent' = sent /\ ((GiveUp(c) /\ process' = process) \/ process' = "SIGPIPE")
  BY <1>1, <1>4, WriteFailsForwards
<1> QED
  BY <1>1, <1>3, <1>4 DEF SendHead, Write

LEMMA RelayBodyForwards ==
  ASSUME ProxyInv, RelayInv, RelayInv', ForwardInv, process = "running", NEW c \in Client, RelayBody(c)
  PROVE  Forwards
<1> DEFINE k == <<"client", c>>
           v == <<"server", c>>
           Taken(n) == SubSeq(Unread(k), 1, n)
           After(n) == t' = [t EXCEPT ![c].c_len = @ - n,
                                      ![c].pc = IF t[c].c_len > n THEN "body" ELSE "answer"]
<1>1. /\ t[c].pc = "body" /\ From(c) = k /\ To(c) = v /\ k \in Conn /\ v \in Conn /\ k # v
      /\ UNCHANGED <<stream, peer, log>> /\ PosType /\ SentType /\ MAXLINE \in Nat
  BY Ends, ConnOf, ProxyAssumption DEF RelayBody, TwoFds, ProxyInv, RelayInv
<1>2. PICK n \in 0 .. MAXLINE :
        /\ GetsBytes(k, MAXLINE, n)
        /\ \/ sent' = sent /\ ((GiveUp(c) /\ process' = process) \/ process' = "SIGPIPE")
           \/ n > 0 /\ Writes(v, Taken(n)) /\ After(n) /\ process' = process
  BY <1>1 DEF RelayBody, Write
<1>3. n <= Len(Unread(k)) /\ Read(k, n) /\ n \in Nat
  BY <1>1, <1>2, GetsBytesType DEF GetsBytes
<1>4. \A d \in Client \ {c} : pos'[<<"client", d>>] = pos[<<"client", d>>]
                           /\ pos'[<<"server", d>>] = pos[<<"server", d>>]
  BY <1>1, <1>3, ReadOwn
<1>5. CASE sent' = sent /\ ((GiveUp(c) /\ process' = process) \/ process' = "SIGPIPE")
  BY <1>1, <1>4, <1>5, WriteFailsForwards
<1>6. CASE n > 0 /\ Writes(v, Taken(n)) /\ After(n) /\ process' = process
  <2>1. Taken(n) \in Seq(Item) /\ Len(Taken(n)) = n /\ Taken(n) # <<>>
    <3> DEFINE u == Unread(k)
    <3>1. u \in Seq(Item) /\ n \in 1 .. Len(u)
      BY <1>1, <1>3, <1>6, UnreadIs
    <3> HIDE DEF u
    <3>2. SubSeq(u, 1, n) \in Seq(Item) /\ Len(SubSeq(u, 1, n)) = n
      BY <3>1
    <3>3. SubSeq(u, 1, n) # <<>>
      BY <3>1, <3>2
    <3> QED
      BY <3>2, <3>3 DEF u
  <2> HIDE DEF Taken
  <2>2. /\ t'[c].c_len = t[c].c_len - n /\ t'[c].pc = (IF t[c].c_len > n THEN "body" ELSE "answer")
        /\ t'[c].s_len = t[c].s_len /\ t'[c].size = t[c].size /\ t[c].c_len \in Int
        /\ \A d \in Client \ {c} : t'[d] = t[d]
    BY <1>6, ThreadType DEF ThreadRecord
  <2>3. t'[c].pc = (IF t'[c].c_len > 0 THEN "body" ELSE "answer") /\ t'[c].c_len \in Int
    BY <1>3, <2>2
  <2>4. sent'[v] = sent[v] \o Taken(n) /\ sent'[k] = sent[k] /\ OwnStep(c)
    BY <1>1, <1>4, <1>6, <2>1, <2>2, WriteOwn DEF OwnStep
  <2>5. Len(sent'[v]) = Len(sent[v]) + n /\ Len(sent[v]) \in Nat /\ sent'[v] # <<>>
    <3>1. sent[v] \in Seq(Item)
      BY <1>1 DEF SentType
    <3> QED
      BY <1>6, <2>1, <2>4, <3>1
  <2>6. CutOff(k) \/ Len(sent[v]) + t[c].c_len = Relay!MessageLength(Asked(c))
    BY <1>1 DEF ForwardInv, RequestInv, PassedUp
  <2>7. (CutOff(k) \/ Len(sent'[v]) + t'[c].c_len = Relay!MessageLength(Asked(c))) /\ Len(sent'[v]) \in Nat
    BY <1>3, <2>2, <2>5, <2>6
  <2>8. ForwardInv'
    BY <1>1, <1>6, <2>2, <2>3, <2>4, <2>5, <2>7, UpKeeps
  <2>9. Starts(sent'[v], stream[k])
    BY <1>1 DEF RelayInv, OwnBytesInOrder
  <2>10. Relay!Next
    BY <1>1, <1>6, <2>1, <2>9, PassesUp
  <2> QED
    BY <2>8, <2>10 DEF Forwards
<1> QED
  BY <1>2, <1>5, <1>6

\* The next item of the answer goes to the client.
LEMMA ItemPassed ==
  ASSUME ProxyInv, RelayInv, process = "running", NEW c \in Client,
         t[c].pc \in {"answer", "bytes"}, Unread(<<"server", c>>) # <<>>,
         UNCHANGED <<stream, process>>, Read(<<"server", c>>, 1),
         Writes(<<"client", c>>, <<NextItem(<<"server", c>>)>>), \A d \in Client \ {c} : t'[d] = t[d]
  PROVE  /\ NextItem(<<"server", c>>) = Answer(c)[Len(PassedDown(c)) + 1]
         /\ NextItem(<<"server", c>>) \in Item /\ PassedDown(c) \in Seq(Item) /\ Answer(c) \in Seq(Item)
         /\ Len(PassedDown(c)) \in Nat /\ Len(Answer(c)) \in Nat /\ Len(PassedDown(c)) < Len(Answer(c))
         /\ sent'[<<"client", c>>] = Append(PassedDown(c), NextItem(<<"server", c>>))
         /\ Len(sent'[<<"client", c>>]) = Len(PassedDown(c)) + 1
         /\ sent'[<<"server", c>>] = sent[<<"server", c>>] /\ OwnStep(c)
         /\ ~ReadToEnd(<<"server", c>>)
<1> DEFINE k == <<"client", c>>
           v == <<"server", c>>
<1>1. k \in Conn /\ v \in Conn /\ k # v /\ PosType /\ SentType
  BY ConnOf DEF ProxyInv, RelayInv
<1>2. pos[v] = Len(sent[k]) \/ ReadToEnd(v)
  BY DEF RelayInv, DownInv
<1>3. NextItem(v) \in Item /\ pos[v] < Len(stream[v]) /\ NextItem(v) = stream[v][pos[v] + 1]
  BY <1>1, NextItemIs
<1>4. stream[v] \in Seq(Item) /\ Len(stream[v]) \in Nat /\ pos[v] \in Nat /\ sent[k] \in Seq(Item)
  BY <1>1 DEF PosType, SentType
<1>5. ~ReadToEnd(v) /\ pos[v] = Len(sent[k])
  BY <1>2, <1>3, <1>4 DEF ReadToEnd
<1>6. <<NextItem(v)>> \in Seq(Item)
  BY <1>3
<1>7. /\ pos'[v] = pos[v] + 1
      /\ \A d \in Client \ {c} : pos'[<<"client", d>>] = pos[<<"client", d>>]
                              /\ pos'[<<"server", d>>] = pos[<<"server", d>>]
  BY <1>1, ReadOwn
<1>8. sent'[k] = sent[k] \o <<NextItem(v)>> /\ sent'[v] = sent[v] /\ OwnStep(c)
  BY <1>1, <1>6, <1>7, WriteOwn DEF OwnStep
<1>9. sent'[k] = Append(sent[k], NextItem(v)) /\ Len(sent'[k]) = Len(sent[k]) + 1 /\ Len(sent[k]) \in Nat
  BY <1>3, <1>4, <1>8
<1> QED
  BY <1>3, <1>4, <1>5, <1>8, <1>9 DEF Answer, PassedDown

LEMMA ItemForwards ==
  ASSUME ProxyInv, RelayInv, ForwardInv, process = "running", NEW c \in Client,
         t[c].pc \in {"answer", "bytes"}, Unread(<<"server", c>>) # <<>>,
         UNCHANGED <<stream, peer, log, process>>, Read(<<"server", c>>, 1),
         Writes(<<"client", c>>, <<NextItem(<<"server", c>>)>>), \A d \in Client \ {c} : t'[d] = t[d],
         ~Relay!HeadComplete(PassedDown(c)) \/ Len(PassedDown(c)) < Relay!MessageLength(Answer(c)),
         t'[c].pc \in AfterRequest, AnswerInv(c)'
  PROVE  Forwards
<1> DEFINE k == <<"client", c>>
           v == <<"server", c>>
<1>1. /\ NextItem(v) = Answer(c)[Len(PassedDown(c)) + 1] /\ Len(PassedDown(c)) < Len(Answer(c))
      /\ sent'[v] = sent[v] /\ OwnStep(c)
  BY ItemPassed
<1>2. Relay!Next
  BY <1>1, PassesDown
<1>3. RequestInv(c)'
  <2>1. PassedUp(c) # <<>> /\ (CutOff(k) \/ Len(PassedUp(c)) >= Relay!MessageLength(Asked(c)))
    BY DEF ForwardInv, RequestInv, AfterRequest
  <2>2. CutOff(k)' = CutOff(k) /\ Asked(c)' = Asked(c) /\ PassedUp(c)' = PassedUp(c)
    BY <1>1 DEF CutOff, Asked, PassedUp
  <2> QED
    BY <2>1, <2>2 DEF RequestInv, AfterRequest, BeforeHead
<1>4. PeersKeep(c) /\ LoggedInv'
  BY <1>1, LogKeeps DEF PeersKeep, PeerType, ForwardInv
<1> QED
  BY <1>1, <1>2, <1>3, <1>4, OthersKeep DEF Forwards

LEMMA RelayHeadForwards ==
  ASSUME ProxyInv, RelayInv, RelayInv', ForwardInv, process = "running", NEW c \in Client, RelayHead(c)
  PROVE  Forwards
<1> DEFINE k == <<"client", c>>
           v == <<"server", c>>
           down == PassedDown(c)
           item == NextItem(v)
<1>1. /\ t[c].pc = "answer" /\ From(c) = k /\ To(c) = v /\ k \in Conn /\ v \in Conn
      /\ UNCHANGED <<stream, peer, log>> /\ PosType
  BY Ends, ConnOf DEF RelayHead, TwoFds, ProxyInv
<1>2. /\ peer[v] # "eof" /\ t[c].size = Len(down) /\ ~Relay!HeadComplete(down)
      /\ t[c].s_len = Relay!BodyLength(down)
  BY <1>1 DEF ForwardInv, AnswerInv, AfterRequest
<1>3. CASE GetsLine(v) /\ sent' = sent /\ ((GiveUp(c) /\ process' = process) \/ process' = "SIGPIPE")
  BY <1>1, <1>3, ReadOwn, WriteFailsForwards DEF GetsLine
<1>4. CASE /\ GetsLine(v) /\ Writes(k, <<item>>) /\ process' = process
           /\ t' = [t EXCEPT ![c].size = @ + 1, ![c].s_len = Declared(item, @),
                             ![c].pc = AfterLine(c, item, t[c].s_len)]
  <2>1. Unread(v) # <<>> /\ Read(v, 1)
    BY <1>4 DEF GetsLine
  <2>2. /\ t'[c].size = t[c].size + 1 /\ t'[c].s_len = Declared(item, t[c].s_len)
        /\ t'[c].pc = AfterLine(c, item, t[c].s_len) /\ t[c].s_len \in Nat
        /\ \A d \in Client \ {c} : t'[d] = t[d]
    BY <1>4, ThreadType DEF ThreadRecord
  <2>3. /\ item \in Item /\ down \in Seq(Item) /\ Answer(c) \in Seq(Item)
        /\ sent'[k] = Append(down, item) /\ Len(sent'[k]) = Len(down) + 1 /\ Len(down) \in Nat
        /\ Len(Answer(c)) \in Nat /\ Len(down) < Len(Answer(c))
    BY <1>1, <1>4, <2>1, <2>2, ItemPassed
  <2>4. /\ Relay!Blanks(sent'[k]) = IF item.kind = "blank" THEN {Len(down) + 1} ELSE {}
        /\ Relay!BodyLength(sent'[k]) = t'[c].s_len
    BY <1>2, <2>2, <2>3, HeadAppend
  <2>5. PassedDown(c)' = sent'[k] /\ Answer(c)' = Answer(c) /\ t'[c].size = Len(sent'[k]) /\ peer'[v] # "eof"
    BY <1>1, <1>2, <2>2, <2>3 DEF PassedDown, Answer
  <2>6. Starts(sent'[k], Answer(c))
    BY <1>1 DEF RelayInv, OwnBytesInOrder, Answer
  <2>7. t'[c].pc \in AfterRequest
    BY <2>2 DEF AfterLine, AfterRequest
  <2>8. AnswerInv(c)'
    <3>1. CASE item.kind # "blank"
      <4>1. t'[c].pc = "answer" /\ ~Relay!HeadComplete(sent'[k])
        BY <2>2, <2>4, <3>1 DEF AfterLine, Relay!HeadComplete
      <4> QED
        BY <2>4, <2>5, <4>1 DEF AnswerInv, AfterRequest, BeforeAnswer, BeforeSend, BeforeHead
    <3>2. CASE item.kind = "blank"
      <4>1. /\ Relay!HeadComplete(Answer(c))
            /\ Relay!MessageLength(Answer(c)) = Len(sent'[k]) + t'[c].s_len
        <5>1. Relay!Blanks(sent'[k]) = {Len(sent'[k])}
          BY <2>3, <2>4, <3>2
        <5> QED
          BY <2>3, <2>4, <2>6, <5>1, HeadOf
      <4>2. t'[c].s_len = t[c].s_len /\ t'[c].pc = (IF t[c].s_len > 0 THEN "bytes" ELSE "log")
        BY <2>2, <3>2 DEF Declared, AfterLine
      <4>3. CASE t[c].s_len > 0
        BY <2>5, <4>1, <4>2, <4>3 DEF AnswerInv, AfterRequest, BeforeAnswer, BeforeSend, BeforeHead
      <4>4. CASE ~(t[c].s_len > 0)
        <5>1. Relay!MessageLength(Answer(c)) = Len(sent'[k]) /\ Len(sent'[k]) <= Len(Answer(c))
          BY <2>2, <2>3, <4>1, <4>2, <4>4
        <5>2. Relay!Complete(Answer(c))
          BY <2>3, <4>1, <5>1 DEF Relay!Complete
        <5> QED
          BY <2>5, <4>2, <4>4, <5>1, <5>2 DEF AnswerInv, AfterRequest, BeforeAnswer, BeforeSend, BeforeHead
      <4> QED
        BY <4>3, <4>4
    <3> QED
      BY <3>1, <3>2
  <2> QED
    BY <1>1, <1>2, <1>4, <2>1, <2>2, <2>7, <2>8, ItemForwards
<1>5. CASE /\ GetsNoLine(v) /\ UNCHANGED <<sent, process>>
           /\ Goto(c, IF t[c].s_len > 0 THEN "bytes" ELSE "log")
  <2>1. /\ t'[c].pc = (IF t[c].s_len > 0 THEN "bytes" ELSE "log") /\ t'[c].size = t[c].size
        /\ \A d \in Client \ {c} : t'[d] = t[d]
    BY <1>5, ThreadType DEF Goto, ThreadRecord
  <2>2. OwnStep(c)
    BY <1>1, <1>5, <2>1, ReadOwn DEF OwnStep, GetsNoLine
  <2>3. peer'[v] = "closed"
    BY <1>1, <1>2, <1>5 DEF GetsNoLine, Ended
  <2>4. pos'[v] = Len(stream[v])
    <3>1. pos[v] + Len(Unread(v)) = Len(stream[v])
      <4>1. pos[v] \in Nat /\ Len(stream[v]) \in Nat
        BY <1>1 DEF PosType
      <4> QED
        BY <1>1, <4>1, UnreadIs
    <3> QED
      BY <1>1, <1>5, <3>1, ReadOwn DEF GetsNoLine
  <2>5. AnswerInv(c)'
    <3>1. PassedDown(c)' = down /\ ReadToEnd(v)'
      BY <1>1, <1>5, <2>4 DEF PassedDown, ReadToEnd
    <3> QED
      BY <1>2, <2>1, <2>3, <3>1 DEF AnswerInv, AfterRequest, BeforeAnswer, BeforeSend, BeforeHead
  <2>6. RequestInv(c)'
    <3>1. PassedUp(c) # <<>> /\ (CutOff(k) \/ Len(PassedUp(c)) >= Relay!MessageLength(Asked(c)))
      BY <1>1 DEF ForwardInv, RequestInv, AfterRequest
    <3>2. CutOff(k)' = CutOff(k) /\ Asked(c)' = Asked(c) /\ PassedUp(c)' = PassedUp(c)
      BY <1>1, <1>5 DEF CutOff, Asked, PassedUp
    <3> QED
      BY <2>1, <3>1, <3>2 DEF RequestInv, AfterRequest, BeforeHead
  <2>7. PeersKeep(c) /\ LoggedInv'
    BY <1>1, <2>2, LogKeeps DEF PeersKeep, PeerType, ForwardInv
  <2> QED
    BY <1>1, <1>5, <2>2, <2>5, <2>6, <2>7, OthersKeep, Unseen DEF Forwards
<1> QED
  BY <1>1, <1>3, <1>4, <1>5 DEF RelayHead, Write

LEMMA RelayByteForwards ==
  ASSUME ProxyInv, RelayInv, RelayInv', ForwardInv, process = "running", NEW c \in Client, RelayByte(c)
  PROVE  Forwards
<1> DEFINE k == <<"client", c>>
           v == <<"server", c>>
           down == PassedDown(c)
<1>1. /\ t[c].pc = "bytes" /\ From(c) = k /\ To(c) = v /\ k \in Conn /\ v \in Conn
      /\ UNCHANGED <<stream, peer, log>> /\ PosType
  BY Ends, ConnOf DEF RelayByte, TwoFds, ProxyInv
<1>2. CASE /\ GetsBytes(v, 1, 1) \/ GetsBytes(v, 1, 0)
           /\ sent' = sent /\ ((GiveUp(c) /\ process' = process) \/ process' = "SIGPIPE")
  BY <1>1, <1>2, ReadOwn, WriteFailsForwards DEF GetsBytes
<1>3. CASE /\ GetsBytes(v, 1, 1) /\ Writes(k, <<NextItem(v)>>) /\ process' = process
           /\ t' = [t EXCEPT ![c].size = @ + 1, ![c].s_len = @ - 1,
                             ![c].pc = IF t[c].s_len > 1 THEN "bytes" ELSE "log"]
  <2>1. Unread(v) # <<>> /\ Read(v, 1)
    <3>1. 1 \in Nat /\ 1 \in 0 .. 1
      OBVIOUS
    <3>2. 1 <= Len(Unread(v))
      BY <1>1, <1>3, <3>1, GetsBytesType
    <3>3. Unread(v) # <<>>
      BY <3>2
    <3> QED
      BY <1>3, <3>3 DEF GetsBytes
  <2>2. /\ t'[c].size = t[c].size + 1 /\ t'[c].s_len = t[c].s_len - 1 /\ t[c].s_len \in Nat
        /\ t'[c].pc = (IF t[c].s_len > 1 THEN "bytes" ELSE "log")
        /\ \A d \in Client \ {c} : t'[d] = t[d]
    BY <1>3, ThreadType DEF ThreadRecord
  <2>3. /\ sent'[k] = Append(down, NextItem(v)) /\ Len(sent'[k]) = Len(down) + 1 /\ Len(down) \in Nat
        /\ Len(Answer(c)) \in Nat /\ Len(down) < Len(Answer(c)) /\ ~ReadToEnd(v)
    BY <1>1, <1>3, <2>1, <2>2, ItemPassed
  <2>4. /\ peer[v] # "eof" /\ t[c].size = Len(down) /\ t[c].s_len > 0
        /\ Relay!HeadComplete(Answer(c)) /\ Len(down) + t[c].s_len = Relay!MessageLength(Answer(c))
    BY <1>1, <2>3 DEF ForwardInv, AnswerInv, AfterRequest, ProxyInv, Lengths
  <2>5. PassedDown(c)' = sent'[k] /\ Answer(c)' = Answer(c) /\ t'[c].size = Len(sent'[k]) /\ peer'[v] # "eof"
    BY <1>1, <2>2, <2>3, <2>4 DEF PassedDown, Answer
  <2>6. Len(sent'[k]) + t'[c].s_len = Relay!MessageLength(Answer(c))
    <3>1. \A a, b \in Nat : (a + 1) + (b - 1) = a + b
      OBVIOUS
    <3>2. (Len(down) + 1) + (t[c].s_len - 1) = Len(down) + t[c].s_len
      BY <2>2, <2>3, <3>1
    <3> QED
      BY <2>2, <2>3, <2>4, <3>2
  <2>7. AnswerInv(c)'
    <3>1. CASE t[c].s_len > 1
      BY <2>2, <2>4, <2>5, <2>6, <3>1 DEF AnswerInv, AfterRequest, BeforeAnswer, BeforeSend, BeforeHead
    <3>2. CASE ~(t[c].s_len > 1)
      <4>1. Relay!MessageLength(Answer(c)) = Len(sent'[k]) /\ Len(sent'[k]) <= Len(Answer(c))
        BY <2>2, <2>3, <2>4, <2>6, <3>2
      <4>2. Relay!Complete(Answer(c))
        BY <2>3, <2>4, <4>1 DEF Relay!Complete
      <4> QED
        BY <2>2, <2>5, <3>2, <4>1, <4>2 DEF AnswerInv, AfterRequest, BeforeAnswer, BeforeSend, BeforeHead
    <3> QED
      BY <3>1, <3>2
  <2>8. t'[c].pc \in AfterRequest
    BY <2>2 DEF AfterRequest
  <2>9. Len(down) < Relay!MessageLength(Answer(c))
    BY <2>2, <2>3, <2>4
  <2> QED
    BY <1>1, <1>3, <2>1, <2>2, <2>7, <2>8, <2>9, ItemForwards
<1> QED
  BY <1>1, <1>2, <1>3 DEF RelayByte, Write

LEMMA LogForwards ==
  ASSUME ProxyInv, ForwardInv, process = "running", NEW c \in Client, Log(c)
  PROVE  Forwards
<1> DEFINE v == <<"server", c>>
           entry == [client |-> c, size |-> t[c].size]
<1>1. /\ t[c].pc = "log" /\ v \in Conn /\ UNCHANGED <<socks, process>> /\ log' = log \cup {entry}
  BY ConnOf DEF Log
<1>2. /\ t'[c].pc = "leave" /\ \A d \in Client \ {c} : t'[d] = t[d]
  BY ThreadType DEF Log, GiveUp, Goto, ThreadRecord
<1>3. OwnStep(c)
  BY <1>1, <1>2 DEF OwnStep, socks
<1>4. RequestInv(c)' /\ AnswerInv(c)'
  BY <1>1, <1>2 DEF ForwardInv, RequestInv, AnswerInv, BeforeHead, BeforeSend, BeforeAnswer,
                    AfterRequest, socks
<1>5. PeersKeep(c)
  BY <1>1 DEF PeersKeep, PeerType, ForwardInv, socks
<1>6. LoggedInv'
  BY <1>1, <1>2 DEF LoggedInv, ForwardInv
<1>7. ForwardInv'
  BY <1>3, <1>4, <1>5, <1>6, OthersKeep
<1>8. /\ t[c].size = Len(Side("client", sent)[c])
      /\ \/ /\ Relay!Complete(Side("server", stream)[c])
            /\ Len(Side("client", sent)[c]) = Relay!MessageLength(Side("server", stream)[c])
         \/ v \in {j \in Conn : peer[j] = "closed"}
  BY <1>1 DEF ForwardInv, AnswerInv, AfterRequest, PassedDown, Answer, Side
<1>9. Relay!MayAnswer(c) /\ ~Relay!Logged(c)
  BY <1>1, MayAnswerNow, NotLogged DEF AfterRequest
<1>10. Relay!Enter(c) /\ UNCHANGED <<stream, peer, sent, process>>
  BY <1>1, <1>8, <1>9 DEF Relay!Enter, socks
<1>11. Relay!Next
  BY <1>10 DEF Relay!Next, Side
<1> QED
  BY <1>7, <1>11 DEF Forwards

\* What a thread does before it reads, and when it leaves.
LEMMA StartForwards ==
  ASSUME ProxyInv, RelayInv, ForwardInv, process = "running", NEW c \in Client,
         Start(c) \/ \E p \in Client : Accept(c, p)
  PROVE  Forwards
<1>1. /\ t[c].pc \in {"queued", "start"} /\ t'[c].pc \in BeforeHead /\ t'[c].c_len = t[c].c_len
      /\ t'[c].s_len = t[c].s_len /\ t'[c].size = t[c].size
      /\ \A d \in Client \ {c} : t'[d] = t[d]
  BY ThreadType DEF Start, Accept, ThreadRecord, BeforeHead
<1>2. OwnStep(c) /\ UNCHANGED <<stream, sent, peer, log, process>>
  BY <1>1 DEF OwnStep, Start, Accept, socks
<1>3. RequestInv(c)'
  BY <1>1 DEF ForwardInv, RequestInv, BeforeHead, AfterRequest
<1>4. PeersKeep(c)
  BY <1>2 DEF PeersKeep, PeerType, ForwardInv
<1> QED
  BY <1>1, <1>2, <1>3, <1>4, EarlyForwards, Unseen DEF Forwards, BeforeSend, BeforeHead

LEMMA ConnectForwards ==
  ASSUME ProxyInv, RelayInv, ForwardInv, process = "running", NEW c \in Client, Connect(c)
  PROVE  Forwards
<1> DEFINE k == <<"client", c>>
           v == <<"server", c>>
<1>1. k \in Conn /\ v \in Conn /\ k # v /\ t[c].pc = "connect" /\ UNCHANGED <<stream, pos, sent, log, process>>
  BY ConnOf DEF Connect
<1>2. /\ t'[c].pc = "head" /\ t'[c].c_len = t[c].c_len /\ t'[c].request = t[c].request
      /\ t'[c].s_len = t[c].s_len /\ t'[c].size = t[c].size
      /\ \A d \in Client \ {c} : t'[d] = t[d]
  BY <1>1, ThreadType DEF Connect, ThreadRecord
<1>3. OwnStep(c)
  BY <1>1, <1>2 DEF OwnStep
<1>4. peer[v] = "none"
  BY <1>1 DEF ForwardInv, AnswerInv
<1>5. PeerType' /\ peer'[v] = "open" /\ \A j \in Conn : j # v => peer'[j] = peer[j]
  BY <1>1 DEF ForwardInv, PeerType, Connect
<1>6. PeersKeep(c) /\ {j \in Conn : peer'[j] = "closed"} = {j \in Conn : peer[j] = "closed"}
  BY <1>4, <1>5, ConnOf DEF PeersKeep
<1>7. RequestInv(c)'
  BY <1>1, <1>2 DEF ForwardInv, RequestInv, BeforeHead, AfterRequest
<1>8. UNCHANGED Relay!vars
  BY <1>1, <1>6 DEF Relay!vars, Side
<1> QED
  BY <1>1, <1>2, <1>3, <1>6, <1>7, <1>8, EarlyForwards DEF Forwards, BeforeSend, BeforeHead

LEMMA ThreadForwards ==
  ASSUME ProxyInv, RelayInv, RelayInv', ForwardInv, NEW c \in Client, Thread(c)
  PROVE  Forwards
<1>1. process = "running"
  BY DEF Thread
<1>2. CASE ConnectFails(c)
  BY <1>1, <1>2, Stops DEF ConnectFails, Die, socks
<1>3. CASE Leave(c)
  <2>1. t'[c].pc = "done" /\ \A d \in Client \ {c} : t'[d] = t[d]
    BY <1>3, ThreadType DEF Leave, Goto, ThreadRecord
  <2>2. OwnStep(c) /\ UNCHANGED <<sent, peer, log, process>>
    BY <1>3, <2>1 DEF OwnStep, Leave, socks
  <2> QED
    BY <1>1, <2>1, <2>2, DoneForwards
<1> QED
  BY <1>1, <1>2, <1>3, StartForwards, ConnectForwards, ReadLineForwards, ReadHeadForwards, SendHeadForwards,
     RelayBodyForwards, RelayHeadForwards, RelayByteForwards, LogForwards DEF Thread, Doit

\* A peer that goes away leaves what was passed on as it is.
LEMMA PeerForwards ==
  ASSUME ForwardInv, NEW k \in Conn, PeerCloses(k)
  PROVE  Forwards
<1>1. /\ process = "running" /\ UNCHANGED <<stream, pos, sent, t, log, process>>
      /\ peer[k] \in {"open", "eof"} /\ peer' = [peer EXCEPT ![k] = "closed"]
  BY DEF PeerCloses
<1>2. PeerType' /\ peer'[k] = "closed" /\ \A j \in Conn : j # k => peer'[j] = peer[j]
  BY <1>1 DEF ForwardInv, PeerType
<1>3. ASSUME NEW c \in Client PROVE RequestInv(c)' /\ AnswerInv(c)'
  <2>1. RequestInv(c) /\ AnswerInv(c) /\ <<"client", c>> \in Conn /\ <<"server", c>> \in Conn
    BY <1>1, ConnOf DEF ForwardInv
  <2>2. /\ CutOff(<<"client", c>>) => CutOff(<<"client", c>>)'
        /\ peer[<<"server", c>>] = "closed" => peer'[<<"server", c>>] = "closed"
        /\ peer[<<"server", c>>] # "eof" => peer'[<<"server", c>>] # "eof"
        /\ peer[<<"server", c>>] = "none" => peer'[<<"server", c>>] = "none"
    BY <1>1, <1>2, <2>1 DEF CutOff
  <2>3. /\ PassedUp(c)' = PassedUp(c) /\ PassedDown(c)' = PassedDown(c) /\ Asked(c)' = Asked(c)
        /\ Answer(c)' = Answer(c) /\ (ReadToEnd(<<"server", c>>) => ReadToEnd(<<"server", c>>)')
    BY <1>1 DEF PassedUp, PassedDown, Asked, Answer, ReadToEnd
  <2>4. RequestInv(c)'
    BY <1>1, <2>1, <2>2, <2>3 DEF RequestInv
  <2>5. AnswerInv(c)'
    BY <1>1, <2>1, <2>2, <2>3 DEF AnswerInv
  <2> QED
    BY <2>4, <2>5
<1>4. ForwardInv'
  BY <1>1, <1>2, <1>3 DEF ForwardInv, LoggedInv, Asked
<1>5. {j \in Conn : peer'[j] = "closed"} = {j \in Conn : peer[j] = "closed"} \cup {k}
  BY <1>2
<1>6. Relay!GoesAway(k) /\ UNCHANGED <<stream>>
  BY <1>1, <1>5 DEF Relay!GoesAway
<1>7. k \in {"client", "server"} \X Client
  BY DEF Conn
<1>8. Relay!Next
  BY <1>1, <1>6, <1>7 DEF Relay!Next, Side
<1> QED
  BY <1>4, <1>8 DEF Forwards

LEMMA ForwardInit == Init => ForwardInv /\ Relay!Init
<1> SUFFICES ASSUME Init PROVE ForwardInv /\ Relay!Init
  OBVIOUS
<1>1. \A c \in Client :
        /\ <<"client", c>> \in Conn /\ <<"server", c>> \in Conn
        /\ t[c].pc = "queued" /\ t[c].c_len = 0 /\ t[c].s_len = 0 /\ t[c].size = 0
        /\ sent[<<"client", c>>] = <<>> /\ sent[<<"server", c>>] = <<>>
        /\ peer[<<"server", c>>] = "none"
  BY ConnOf DEF Init, NewThread
<1>2. PeerType /\ \A k \in Conn : peer[k] # "closed"
  BY DEF Init, PeerType
<1>3. ForwardInv
  BY <1>1, <1>2 DEF ForwardInv, RequestInv, AnswerInv, LoggedInv, Init, BeforeHead, BeforeSend,
                    BeforeAnswer, AfterRequest, Asked
<1>4. Relay!Init
  BY <1>1, <1>2 DEF Relay!Init, Side, Init
<1> QED
  BY <1>3, <1>4

LEMMA ForwardNext ==
  ASSUME ProxyInv, RelayInv, RelayInv', ForwardInv, [Next]_vars
  PROVE  Forwards
<1>1. CASE UNCHANGED vars
  <2>1. ForwardInv'
    BY <1>1 DEF vars, ForwardInv, PeerType, LoggedInv, RequestInv, AnswerInv, CutOff, Asked, Answer,
                PassedUp, PassedDown, ReadToEnd
  <2> QED
    BY <1>1, <2>1, Unseen DEF vars, Forwards
<1>2. CASE Main
  <2>1. CASE AcceptFails
    BY <1>2, <2>1, Stops DEF Main, AcceptFails, Die, socks
  <2>2. ASSUME NEW c \in Client, Accept(c, Malloc) PROVE Forwards
    <3>1. Malloc \in Client
      BY <2>2, MallocIsFree DEF Accept, ProxyInv, FdInv
    <3> QED
      BY <1>2, <2>2, <3>1, StartForwards DEF Main
  <2> QED
    BY <1>2, <2>1, <2>2 DEF Main
<1> QED
  BY <1>1, <1>2, ThreadForwards, PeerForwards DEF Next

\* The proxy does what Forwarding promises, for any number of connections and
\* descriptors, whatever is sent and whoever goes away when: a request goes on
\* to its server before its answer goes back, both in order and no further than
\* their heads say, and the log says how much of the answer was passed on.
THEOREM ProxyCorrect == Spec => ImplementsForwarding
<1>1. Init => ForwardInv /\ Relay!Init
  BY ForwardInit
<1>2. ProxyInv /\ RelayInv /\ ForwardInv /\ [Next]_vars => RelayInv' /\ ForwardInv' /\ [Relay!Next]_(Relay!vars)
  BY RelayNext, ForwardNext DEF Forwards
<1>3. Spec => []RelayInv
  BY RelayInit, RelayNext, ProxyInvHolds, PTL DEF Spec
<1> QED
  BY <1>1, <1>2, <1>3, ProxyInvHolds, PTL DEF Spec, ImplementsForwarding, Relay!Spec
=============================================================================
