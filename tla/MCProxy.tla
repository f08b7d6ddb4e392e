------------------------------ MODULE MCProxy ------------------------------
(***************************************************************************)
(* ProxyProperties for TLC.                                                  *)
(***************************************************************************)
EXTENDS ProxyProperties

CONSTANTS c1, c2

I(kind, what, n) == [kind |-> kind, what |-> what, n |-> n]
Line(what) == I("request", what, 0)
Header == I("header", "none", 0)
Length(n) == I("length", "none", n)
Tight(n) == I("length", "tight", n)
Blank == I("blank", "none", 0)
Byte(n) == I("byte", "none", n)
Part == I("part", "none", 0)

\* The first connection has every kind of request and answer, and peers that
\* go away at any time; the second is an ordinary one beside it.
\* Requests, the incomplete ones from peers that go away in the middle.
Get == {<<Line("good"), Blank>>}
Post == {<<Line("good"), Length(3), Blank, Byte(1), Byte(2), Byte(3)>>,
         <<Line("good"), Length(1), Blank, Byte(1), Byte(2), Byte(3)>>}
OddRequests == {
  <<>>, <<Part>>, <<Line("malformed")>>, <<Line("baduri")>>,
  <<Line("nohost"), Blank>>,
  <<Line("good"), Part>>,
  <<Line("good"), Length(2), Part>>,
  <<Line("good"), Length(2), Blank, Byte(1)>>,
  <<Line("good"), Tight(2), Blank, Byte(1), Byte(2)>>}
Answer == <<Length(2), Blank, Byte(1), Byte(2)>>
Answers == {
  Answer,
  <<Header, Blank, Byte(1)>>,
  <<Length(2), Blank, Byte(1)>>,
  <<Length(1), Part>>,
  <<>>}

\* The second connection carries other bytes.
Other(s) == [i \in DOMAIN s |-> IF s[i].kind = "byte" THEN Byte(s[i].n + 10) ELSE s[i]]

Streams(a, b, x, y) ==
  [k \in Conn |-> CASE k = <<"client", c1>> -> a [] k = <<"client", c2>> -> Other(b)
                    [] k = <<"server", c1>> -> x [] k = <<"server", c2>> -> Other(y)]
Peers(e1, e2) ==
  [k \in Conn |-> CASE k = <<"client", c1>> -> e1 [] k = <<"client", c2>> -> e2 [] OTHER -> "none"]

\* A client that has a body to send ends its sending side behind it.
Ending(s) == IF \E i \in DOMAIN s : s[i].kind = "length" THEN {"eof"} ELSE {"open", "eof"}

\* Descriptors for both connections, or for one.
InheritedAbove(n) == [fd \in Fd |-> IF fd > n THEN Inherited ELSE NoFile]

MCInit ==
  \E a \in Get \cup Post \cup OddRequests, b \in Get, x \in Answers, e \in {"open", "eof"} :
    /\ stream = Streams(a, b, x, <<Length(1), Blank, Byte(1)>>)
    /\ e \in Ending(a) /\ peer = Peers(e, "open")
    /\ Init
    /\ file \in {InheritedAbove(NFD), InheritedAbove(2)}
    /\ file[NFD] = Inherited => a \in Post /\ x = Answer
    /\ a \in OddRequests => x \in {Answer, <<>>}
MCSpec == MCInit /\ [][Next]_vars /\ Fairness

\* Clients that wait for their answer with the connection open.
PatientInit ==
  \E a \in Post, x \in Answers :
    /\ stream = Streams(a, a, x, x) /\ peer = Peers("open", "open")
    /\ Init
    /\ file = InheritedAbove(NFD)
PatientSpec == PatientInit /\ [][Next]_vars /\ Fairness
=============================================================================
