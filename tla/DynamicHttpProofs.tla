------------------------- MODULE DynamicHttpProofs ------------------------
(***************************************************************************)
(* Proofs about DynamicHttp, for any clients and any number of requests,   *)
(* failures and datagrams.                                                 *)
(***************************************************************************)
EXTENDS DynamicHttp, TLAPS, SequenceTheorems

(* The part of the types the arguments need. *)
Shape ==
  /\ thread \in [Clients -> {"none", "start", "send", "receive", "check", "ended"}]
  /\ port \in [Clients -> Nat]
  /\ LOCAL_PORT_UDP \in Nat

(* A client that has been given a port, used or not. *)
Given(c) == c \in UdpClients /\ thread[c] # "none"

(* The counter is above every port that was given, while one is taken.     *)
Counted ==
  /\ \A c \in Clients : Given(c) => port[c] <= LOCAL_PORT_UDP
  /\ http = "start" /\ current \in UdpClients =>
       \A c \in Clients : Given(c) => port[c] < LOCAL_PORT_UDP

Apart == \A c, d \in Clients : Given(c) /\ Given(d) /\ c # d => port[c] # port[d]

Inv == Shape /\ Counted /\ Apart

LEMMA InvInit == Init => Inv
  BY DEF Init, ClientInit, Inv, Shape, Counted, Apart, Given

(* A step that gives no port and does not touch the counter.               *)
LEMMA NoneGiven ==
  ASSUME Inv, Shape', UNCHANGED <<port, LOCAL_PORT_UDP>>,
         http' = "start" => http = "start" /\ UNCHANGED current,
         \A c \in Clients : thread'[c] # "none" => thread[c] # "none"
  PROVE  Inv'
  <1>1. \A c \in Clients : Given(c)' => Given(c)
    BY DEF Given
  <1>2. Counted'
    BY <1>1 DEF Inv, Counted
  <1>3. Apart'
    BY <1>1 DEF Inv, Apart
  <1> QED
    BY <1>2, <1>3 DEF Inv

(* What the peers and a running client do.                                 *)
LEMMA ClientKeeps ==
  ASSUME Inv, NEW c \in Clients, UNCHANGED httpVars,
         Arrives(c) \/ Finish(c) \/ ClientStep(c)
  PROVE  Inv'
  <1>1. UNCHANGED <<http, current, LOCAL_PORT_UDP>>
    BY DEF httpVars
  <1>2. CASE Arrives(c) \/ Finish(c)
    <2>1. UNCHANGED <<thread, port>>
      BY <1>2 DEF Arrives, Finish, memory
    <2> QED
      BY <1>1, <2>1, NoneGiven DEF Inv, Shape
  <1>3. CASE ClientStep(c)
    <2>1. /\ thread[c] # "none" /\ UNCHANGED port
          /\ \/ UNCHANGED thread
             \/ \E step \in {"send", "receive", "check", "ended"} :
                  thread' = [thread EXCEPT ![c] = step]
      BY <1>3 DEF ClientStep, Connect, Bind, Send, Raise, Receive, Received, ReceiveFrom,
                  ReceivesNothing, Check, Goto, End, memory, history
    <2>2. \A d \in Clients : thread'[d] # "none" => thread[d] # "none"
      BY <2>1 DEF Inv, Shape
    <2>3. Shape'
      BY <1>1, <2>1 DEF Inv, Shape
    <2> QED
      BY <1>1, <2>1, <2>2, <2>3, NoneGiven
  <1> QED
    BY <1>2, <1>3

LEMMA PostKeeps == ASSUME Inv, Post PROVE Inv'
  <1>1. /\ UNCHANGED <<current, thread, port>>
        /\ LOCAL_PORT_UDP' = IF current \in UdpClients THEN LOCAL_PORT_UDP + 1
                                                      ELSE LOCAL_PORT_UDP
    BY DEF Post, TakePort, clientVars, memory
  <1>2. \A c \in Clients : Given(c)' <=> Given(c)
    BY <1>1 DEF Given
  <1>3. Shape'
    BY <1>1 DEF Inv, Shape
  <1>4. Counted'
    BY <1>1, <1>2 DEF Inv, Counted, Shape
  <1>5. Apart'
    BY <1>1, <1>2 DEF Inv, Apart
  <1> QED
    BY <1>3, <1>4, <1>5 DEF Inv

LEMMA StartKeeps == ASSUME Inv, Start PROVE Inv'
  <1> DEFINE p == IF current \in UdpClients THEN LOCAL_PORT_UDP ELSE 0
  <1>1. CASE UNCHANGED clientVars
    BY <1>1, NoneGiven DEF Start, clientVars, memory, Inv, Shape
  <1>2. CASE StartClient(current, p) /\ http' = "200"
    <2>1. /\ http = "start" /\ UNCHANGED <<current, LOCAL_PORT_UDP>>
          /\ thread' = [thread EXCEPT ![current] = "start"]
          /\ port' = [port EXCEPT ![current] = p]
      BY <1>2 DEF Start, StartClient, Goto
    <2>2. Shape'
      BY <2>1 DEF Inv, Shape
    <2>3. \A c \in Clients : c # current => (Given(c)' <=> Given(c)) /\ port'[c] = port[c]
      BY <2>1 DEF Inv, Shape, Given
    <2>4. \A c \in Clients : c = current /\ Given(c)' => /\ current \in UdpClients
                                                        /\ port'[c] = LOCAL_PORT_UDP
      BY <2>1 DEF Inv, Shape, Given
    <2>5. \A c \in Clients : c # current /\ Given(c)' /\ current \in UdpClients =>
                               port'[c] < LOCAL_PORT_UDP
      BY <2>1, <2>3 DEF Inv, Counted
    <2>6. Counted'
      <3>1. \A c \in Clients : Given(c)' => port'[c] <= LOCAL_PORT_UDP'
        BY <2>1, <2>3, <2>4 DEF Inv, Counted, Shape
      <3> QED
        BY <1>2, <3>1 DEF Counted
    <2>7. Apart'
      <3> SUFFICES ASSUME NEW c \in Clients, NEW d \in Clients,
                          Given(c)', Given(d)', c # d
                   PROVE  port'[c] # port'[d]
        BY DEF Apart
      <3>1. port'[c] \in Nat /\ port'[d] \in Nat /\ LOCAL_PORT_UDP \in Nat
        BY <2>2 DEF Inv, Shape
      <3>2. CASE c # current /\ d # current
        BY <2>3, <3>2 DEF Inv, Apart
      <3>3. CASE c = current
        BY <2>4, <2>5, <3>1, <3>3
      <3>4. CASE d = current
        BY <2>4, <2>5, <3>1, <3>4
      <3> QED
        BY <3>2, <3>3, <3>4
    <2> QED
      BY <2>2, <2>6, <2>7 DEF Inv
  <1> QED
    BY <1>1, <1>2 DEF Start

LEMMA InvNext == ASSUME Inv, [Next]_vars PROVE Inv'
  <1>1. ASSUME UNCHANGED <<thread, port, LOCAL_PORT_UDP>>,
               http' = "start" => http = "start" /\ UNCHANGED current
        PROVE  Inv'
    BY <1>1, NoneGiven DEF Inv, Shape
  <1>2. CASE Accept \/ Read \/ Answer
    BY <1>1, <1>2 DEF Accept, Read, Answer, clientVars, memory
  <1>3. CASE Post
    BY <1>3, PostKeeps
  <1>4. CASE Start
    BY <1>4, StartKeeps
  <1>5. ASSUME NEW r \in Clients, Request(r) \/ SendRest(r) \/ LeaveEarly(r) PROVE Inv'
    BY <1>1, <1>5 DEF Request, SendRest, LeaveEarly, clientVars, memory
  <1>6. ASSUME NEW c \in Clients, UNCHANGED httpVars, Arrives(c) \/ Finish(c) \/ ClientStep(c)
        PROVE  Inv'
    BY <1>6, ClientKeeps
  <1>7. CASE UNCHANGED vars
    BY <1>1, <1>7 DEF vars, httpVars, clientVars, memory
  <1> QED
    BY <1>2, <1>3, <1>4, <1>5, <1>6, <1>7 DEF Next, HttpStep

(* No two clients with UDP are bound to the same port.                     *)
THEOREM Distinct == Spec => []PortsDistinct
  <1>1. Inv => PortsDistinct
    BY DEF Inv, Apart, Given, PortsDistinct, Bound
  <1> QED
    BY <1>1, InvInit, InvNext, PTL DEF Spec

-----------------------------------------------------------------------------
(***************************************************************************)
(* What a client hears, keeps and sends.                                   *)
(***************************************************************************)
Items == Parts \cup {EndMark, ErrorMark}

(* A stream of parts, closed or not; a reset leaves nothing else to read.  *)
Stream(q) == \/ q \in Seq(Parts)
             \/ \E s \in Seq(Parts) : q = Append(s, EndMark)
             \/ q = <<ErrorMark>>

Unread(q) == IF q \in Seq(Parts) THEN q ELSE Front(q)

LEMMA Marks == /\ EndMark \notin Parts /\ ErrorMark \notin Parts /\ EndMark # ErrorMark
               /\ Message \in Parts /\ Message.peer = Server
               /\ EndMark.peer = Server /\ ErrorMark.peer = Server
  BY DEF EndMark, ErrorMark, Message, Part, Parts, Texts

LEMMA UnreadEnd ==
  ASSUME NEW s \in Seq(Parts)
  PROVE  Append(s, EndMark) \notin Seq(Parts) /\ Unread(Append(s, EndMark)) = s
  <1> DEFINE q == Append(s, EndMark)
  <1>1. s \in Seq(Items) /\ EndMark \in Items
    BY DEF Items
  <1>2. Len(q) = Len(s) + 1 /\ q[Len(s) + 1] = EndMark /\ q # <<>> /\ Len(s) \in Nat
    BY <1>1, AppendProperties
  <1>3. q \notin Seq(Parts)
    <2> SUFFICES ASSUME q \in Seq(Parts) PROVE FALSE
      OBVIOUS
    <2>1. q[Len(s) + 1] \in Parts
      BY <1>2, ElementOfSeq
    <2> QED
      BY <1>2, <2>1, Marks
  <1>4. Front(q) = s
    BY <1>1, <1>2 DEF Front
  <1> QED
    BY <1>3, <1>4 DEF Unread

LEMMA UnreadParts ==
  ASSUME NEW q, Stream(q), q # <<ErrorMark>>
  PROVE  Unread(q) \in Seq(Parts)
  BY UnreadEnd DEF Stream, Unread

(* recv() takes the first part of what is unread.                          *)
LEMMA UnreadHead ==
  ASSUME NEW q, Stream(q), q # <<>>, Head(q) \in Parts
  PROVE  /\ Stream(Tail(q)) /\ q # <<ErrorMark>>
         /\ Unread(q) \in Seq(Parts) /\ Unread(q) # <<>>
         /\ Head(Unread(q)) = Head(q) /\ Unread(Tail(q)) = Tail(Unread(q))
  <1>1. q # <<ErrorMark>>
    BY Marks
  <1>2. CASE q \in Seq(Parts)
    <2>1. Tail(q) \in Seq(Parts)
      BY <1>2, HeadTailProperties
    <2> QED
      BY <1>1, <1>2, <2>1 DEF Stream, Unread
  <1>3. ASSUME NEW s \in Seq(Parts), q = Append(s, EndMark)
        PROVE  /\ Stream(Tail(q)) /\ Unread(q) = s /\ s # <<>>
               /\ Head(s) = Head(q) /\ Unread(Tail(q)) = Tail(s)
    <2>1. s # <<>> /\ Head(q) = Head(s) /\ Tail(q) = Append(Tail(s), EndMark)
      BY <1>3, HeadTailAppend, Marks
    <2>2. Tail(s) \in Seq(Parts)
      BY <2>1, HeadTailProperties
    <2> QED
      BY <1>3, <2>1, <2>2, UnreadEnd DEF Stream
  <1> QED
    BY <1>1, <1>2, <1>3 DEF Stream

(* Concatenation by its laws alone.                                        *)
Cat(s, t) == s \o t
One(x)    == <<x>>

LEMMA CatLaws ==
  /\ \A s, t \in Seq(Parts) : Cat(s, t) \in Seq(Parts)
  /\ \A s, t, u \in Seq(Parts) : Cat(Cat(s, t), u) = Cat(s, Cat(t, u))
  /\ \A s \in Seq(Parts) : Cat(s, <<>>) = s /\ Cat(<<>>, s) = s
  <1>1. \A s, t \in Seq(Parts) : Cat(s, t) \in Seq(Parts)
    BY ConcatProperties DEF Cat
  <1>2. \A s, t, u \in Seq(Parts) : Cat(Cat(s, t), u) = Cat(s, Cat(t, u))
    <2> SUFFICES ASSUME NEW s \in Seq(Parts), NEW t \in Seq(Parts), NEW u \in Seq(Parts)
                 PROVE  (s \o t) \o u = s \o (t \o u)
      BY DEF Cat
    <2> QED
      BY ConcatAssociative
  <1>3. \A s \in Seq(Parts) : Cat(s, <<>>) = s /\ Cat(<<>>, s) = s
    BY ConcatEmptySeq DEF Cat
  <1> QED
    BY <1>1, <1>2, <1>3

LEMMA OneLaws ==
  /\ \A x \in Parts : One(x) \in Seq(Parts)
  /\ \A s \in Seq(Parts), x \in Parts : Append(s, x) = Cat(s, One(x))
  /\ \A s \in Seq(Parts) : s # <<>> => Head(s) \in Parts /\ s = Cat(One(Head(s)), Tail(s))
  BY AppendIsConcat DEF Cat, One

(* A part moves from the front of q to the end of b.                       *)
LEMMA HeadMoves ==
  \A a, b, q \in Seq(Parts) :
    q # <<>> => Cat(Cat(a, Append(b, Head(q))), Tail(q)) = Cat(Cat(a, b), q)
  <1> SUFFICES ASSUME NEW a \in Seq(Parts), NEW b \in Seq(Parts), NEW q \in Seq(Parts), q # <<>>
               PROVE  Cat(Cat(a, Append(b, Head(q))), Tail(q)) = Cat(Cat(a, b), q)
    OBVIOUS
  <1>1. PICK x \in Parts, rest \in Seq(Parts) : x = Head(q) /\ rest = Tail(q)
    <2>1. Head(q) \in Parts /\ Tail(q) \in Seq(Parts)
      BY HeadTailProperties
    <2> QED
      BY <2>1, Zenon
  <1>2. PICK first \in Seq(Parts) : first = One(x)
    BY OneLaws
  <1>3. Append(b, Head(q)) = Cat(b, first) /\ q = Cat(first, rest)
    BY <1>1, <1>2, OneLaws
  <1>4. Cat(Cat(a, Cat(b, first)), rest) = Cat(Cat(a, b), Cat(first, rest))
    BY CatLaws
  <1> QED
    BY <1>1, <1>3, <1>4

LEMMA AppendMoves ==
  \A a, b \in Seq(Parts), x \in Parts : Cat(a, Append(b, x)) = Append(Cat(a, b), x)
  <1> SUFFICES ASSUME NEW a \in Seq(Parts), NEW b \in Seq(Parts), NEW x \in Parts
               PROVE  Cat(a, Append(b, x)) = Append(Cat(a, b), x)
    OBVIOUS
  <1>1. PICK last \in Seq(Parts) : last = One(x)
    BY OneLaws
  <1>2. Append(b, x) = Cat(b, last) /\ Append(Cat(a, b), x) = Cat(Cat(a, b), last)
    BY <1>1, OneLaws, CatLaws
  <1> QED
    BY <1>2, CatLaws

-----------------------------------------------------------------------------
(* The server serves someone whenever it is not accepting.                 *)
Http ==
  /\ http \in {"accept", "read", "post", "start", "200", "400", "close"}
  /\ IF http = "accept" THEN current = Nobody ELSE current \in Clients
  /\ queue \in Seq(Clients)
  /\ request \in [Clients -> {"new", "part", "whole", "left", "over"}]

LEMMA HttpNext == ASSUME Http, [Next]_vars PROVE Http'
  <1> USE DEF Http
  <1>1. CASE Accept
    <2>1. Head(queue) \in Clients /\ Tail(queue) \in Seq(Clients)
      BY <1>1, HeadTailProperties DEF Accept
    <2> QED
      BY <1>1, <2>1 DEF Accept
  <1>2. CASE Read \/ Post \/ Start \/ Answer
    BY <1>2 DEF Read, Post, Start, Answer
  <1>3. ASSUME NEW r \in Clients, Request(r) PROVE Http'
    <2>1. Append(queue, r) \in Seq(Clients)
      BY AppendProperties
    <2> QED
      BY <1>3, <2>1 DEF Request
  <1>4. ASSUME NEW r \in Clients, SendRest(r) \/ LeaveEarly(r) PROVE Http'
    BY <1>4 DEF SendRest, LeaveEarly
  <1>5. CASE UNCHANGED httpVars
    BY <1>5 DEF httpVars
  <1> QED
    BY <1>1, <1>2, <1>3, <1>4, <1>5 DEF Next, HttpStep, vars

-----------------------------------------------------------------------------
ClientTyped ==
  /\ thread \in [Clients -> {"none", "start", "send", "receive", "check", "ended"}]
  /\ addr \in [Clients -> {Server, Stranger}]
  /\ round \in [Clients -> 0..Rounds]
  /\ data \in [Clients -> Seq(Parts)] /\ inbox \in [Clients -> Seq(Items)]
  /\ heard \in [Clients -> Seq(Parts)] /\ said \in [Clients -> Seq(Parts)]
  /\ short \subseteq Clients

Idle == {"none", "start", "ended"}

(* A client that is not connected has nothing; one that sends has something*)
(* to send, and a UDP client that receives has sent what it had.           *)
Holds(c) ==
  /\ thread[c] \in Idle => /\ data[c] = <<>> /\ inbox[c] = <<>>
                           /\ heard[c] = <<>> /\ said[c] = <<>> /\ addr[c] = Server
  /\ thread[c] = "send" => data[c] # <<>>
  /\ c \in UdpClients /\ thread[c] = "receive" => data[c] = <<>>

(* What a client with echo has goes back where it came from.               *)
Returns(c) ==
  /\ c \in TcpClients => /\ addr[c] = Server
                         /\ \A j \in 1..Len(inbox[c]) : inbox[c][j].peer = Server
  /\ c \in EchoClients => \A j \in 1..Len(data[c]) : data[c][j].peer = addr[c]

First(c) == IF c \in UdpClients THEN <<Message>> ELSE <<>>

LEMMA FirstParts == ASSUME NEW c PROVE First(c) \in Seq(Parts)
  <1>1. <<Message>> \in Seq(Parts) /\ <<>> \in Seq(Parts)
    BY Marks
  <1> QED
    BY <1>1, Zenon DEF First

Conserved(c) ==
  c \in EchoClients /\ c \notin short /\ thread[c] \notin Idle /\ inbox[c] # <<ErrorMark>> =>
    Cat(Cat(said[c], data[c]), Unread(inbox[c])) = Cat(First(c), heard[c])

Local(c) == Holds(c) /\ Stream(inbox[c]) /\ Returns(c) /\ Conserved(c)

Talk == ClientTyped /\ \A c \in Clients : Local(c)

(* A step of client c is one of client c only.                             *)
Elsewhere(c) ==
  \A d \in Clients : d # c =>
    /\ thread'[d] = thread[d] /\ addr'[d] = addr[d] /\ data'[d] = data[d]
    /\ inbox'[d] = inbox[d] /\ heard'[d] = heard[d] /\ said'[d] = said[d]
    /\ d \in short' <=> d \in short

LEMMA OneTalks ==
  ASSUME Talk, NEW c \in Clients, ClientTyped', Elsewhere(c), Local(c)'
  PROVE  Talk'
  <1>1. ASSUME NEW d \in Clients, d # c PROVE Local(d)'
    <2>1. /\ thread'[d] = thread[d] /\ addr'[d] = addr[d] /\ data'[d] = data[d]
          /\ inbox'[d] = inbox[d] /\ heard'[d] = heard[d] /\ said'[d] = said[d]
      BY <1>1 DEF Elsewhere
    <2>2. d \in short' <=> d \in short
      BY <1>1 DEF Elsewhere
    <2>3. Holds(d)' /\ Stream(inbox[d])'
      BY <2>1 DEF Talk, Local, Holds
    <2>4. Returns(d)'
      BY <2>1 DEF Talk, Local, Returns
    <2>5. Conserved(d)'
      BY <2>1, <2>2 DEF Talk, Local, Conserved, First
    <2> QED
      BY <2>3, <2>4, <2>5 DEF Local
  <1> QED
    BY <1>1 DEF Talk

LEMMA TalkInit == ClientInit => Talk
  <1> SUFFICES ASSUME ClientInit PROVE Talk
    OBVIOUS
  <1>1. ClientTyped
    BY ClientAssumption DEF ClientInit, ClientTyped
  <1>2. ASSUME NEW c \in Clients PROVE Local(c)
    BY <1>2 DEF ClientInit, Local, Holds, Stream, Returns, Conserved, Idle
  <1> QED
    BY <1>1, <1>2 DEF Talk

LEMMA ArrivesTalks == ASSUME Talk, NEW c \in Clients, Arrives(c) PROVE Talk'
  <1>1. PICK y \in Parts :
          /\ thread[c] \in {"send", "receive"} /\ inbox[c] \in Seq(Parts)
          /\ inbox' = [inbox EXCEPT ![c] = Append(inbox[c], y)]
          /\ heard' = [heard EXCEPT ![c] = Append(heard[c], y)]
          /\ c \in TcpClients => y.peer = Server
          /\ UNCHANGED <<thread, addr, round, data, said, short>>
    <2>1. PICK x \in Texts : \E p \in IF c \in TcpClients THEN {Server} ELSE {Server, Stranger} :
            /\ inbox' = [inbox EXCEPT ![c] = Append(@, Part(x, p))]
            /\ heard' = [heard EXCEPT ![c] = Append(@, Part(x, p))]
      BY DEF Arrives
    <2>2. PICK p \in IF c \in TcpClients THEN {Server} ELSE {Server, Stranger} :
            /\ inbox' = [inbox EXCEPT ![c] = Append(@, Part(x, p))]
            /\ heard' = [heard EXCEPT ![c] = Append(@, Part(x, p))]
      BY <2>1
    <2>3. Part(x, p) \in Parts /\ Part(x, p).peer = p
      BY DEF Part, Parts
    <2>4. c \in TcpClients => p = Server
      OBVIOUS
    <2>5. /\ thread[c] \in {"send", "receive"} /\ inbox[c] \in Seq(Parts)
          /\ UNCHANGED <<thread, addr, round, data, said, short>>
      BY DEF Arrives, memory
    <2> QED
      BY <2>2, <2>3, <2>4, <2>5
  <1>2. /\ heard[c] \in Seq(Parts) /\ said[c] \in Seq(Parts) /\ data[c] \in Seq(Parts)
        /\ inbox[c] \in Seq(Items) /\ y \in Items
    BY DEF Talk, ClientTyped, Items
  <1>3. /\ Append(inbox[c], y) \in Seq(Parts) /\ Append(inbox[c], y) \in Seq(Items)
        /\ Append(heard[c], y) \in Seq(Parts)
    BY <1>1, <1>2, AppendProperties
  <1>4. ClientTyped'
    BY <1>1, <1>3 DEF Talk, ClientTyped
  <1>5. Elsewhere(c)
    BY <1>1 DEF Talk, ClientTyped, Elsewhere
  <1>6. inbox'[c] = Append(inbox[c], y) /\ heard'[c] = Append(heard[c], y)
    BY <1>1 DEF Talk, ClientTyped
  <1>7. Holds(c)' /\ Stream(inbox[c])'
    BY <1>1, <1>3, <1>6 DEF Talk, Local, Holds, Stream, Idle
  <1>8. Returns(c)'
    <2>1. ASSUME c \in TcpClients, NEW j \in 1..Len(inbox'[c]) PROVE inbox'[c][j].peer = Server
      <3>1. CASE j \in 1..Len(inbox[c])
        BY <1>1, <1>6, <2>1, <3>1, AppendProperties DEF Talk, Local, Returns
      <3>2. CASE j = Len(inbox[c]) + 1
        BY <1>1, <1>6, <2>1, <3>2, AppendProperties
      <3> QED
        BY <1>1, <1>6, <2>1, <3>1, <3>2, AppendProperties
    <2> QED
      BY <1>1, <2>1 DEF Talk, Local, Returns
  <1>9. Conserved(c)'
    <2> SUFFICES ASSUME c \in EchoClients, c \notin short
                 PROVE  Cat(Cat(said[c], data[c]), Append(inbox[c], y))
                          = Cat(First(c), Append(heard[c], y))
      BY <1>1, <1>3, <1>6 DEF Conserved, Unread, First
    <2>1. inbox[c] # <<ErrorMark>> /\ Unread(inbox[c]) = inbox[c]
      BY <1>1, Marks DEF Unread
    <2>2. Cat(Cat(said[c], data[c]), inbox[c]) = Cat(First(c), heard[c])
      BY <1>1, <2>1 DEF Talk, Local, Conserved, Idle
    <2>3. Cat(said[c], data[c]) \in Seq(Parts) /\ First(c) \in Seq(Parts)
      BY <1>2, CatLaws, FirstParts
    <2>4. /\ Cat(Cat(said[c], data[c]), Append(inbox[c], y))
               = Append(Cat(Cat(said[c], data[c]), inbox[c]), y)
          /\ Cat(First(c), Append(heard[c], y)) = Append(Cat(First(c), heard[c]), y)
      BY <1>1, <1>2, <2>3, AppendMoves, Zenon
    <2> QED
      BY <2>2, <2>4, Zenon
  <1> QED
    BY <1>4, <1>5, <1>7, <1>8, <1>9, OneTalks DEF Local

LEMMA FinishTalks == ASSUME Talk, NEW c \in Clients, Finish(c) PROVE Talk'
  <1>1. /\ thread[c] \in {"send", "receive"} /\ inbox[c] \in Seq(Parts)
        /\ \/ inbox' = [inbox EXCEPT ![c] = Append(inbox[c], EndMark)]
           \/ inbox' = [inbox EXCEPT ![c] = <<ErrorMark>>]
        /\ UNCHANGED <<thread, addr, round, data, heard, said, short>>
    BY DEF Finish, memory, history
  <1>2. /\ EndMark \in Items /\ ErrorMark \in Items /\ inbox[c] \in Seq(Items)
    BY DEF Items, Talk, ClientTyped
  <1>3. Append(inbox[c], EndMark) \in Seq(Items) /\ <<ErrorMark>> \in Seq(Items)
    BY <1>2, AppendProperties
  <1>4. ClientTyped'
    BY <1>1, <1>3 DEF Talk, ClientTyped
  <1>5. Elsewhere(c)
    BY <1>1 DEF Talk, ClientTyped, Elsewhere
  <1>6. inbox'[c] = Append(inbox[c], EndMark) \/ inbox'[c] = <<ErrorMark>>
    BY <1>1 DEF Talk, ClientTyped
  <1>7. Holds(c)' /\ Stream(inbox[c])'
    BY <1>1, <1>6 DEF Talk, Local, Holds, Stream, Idle
  <1>8. Returns(c)'
    <2>1. ASSUME c \in TcpClients, NEW j \in 1..Len(inbox'[c]) PROVE inbox'[c][j].peer = Server
      <3>1. CASE inbox'[c] = <<ErrorMark>>
        BY <2>1, <3>1, Marks
      <3>2. CASE inbox'[c] = Append(inbox[c], EndMark)
        <4>1. CASE j \in 1..Len(inbox[c])
          BY <1>2, <2>1, <3>2, <4>1, AppendProperties DEF Talk, Local, Returns
        <4>2. CASE j = Len(inbox[c]) + 1
          BY <1>2, <2>1, <3>2, <4>2, AppendProperties, Marks
        <4> QED
          BY <1>2, <2>1, <3>2, <4>1, <4>2, AppendProperties
      <3> QED
        BY <1>6, <3>1, <3>2
    <2> QED
      BY <1>1, <2>1 DEF Talk, Local, Returns
  <1>9. Conserved(c)'
    <2> SUFFICES ASSUME c \in EchoClients, c \notin short, inbox'[c] = Append(inbox[c], EndMark)
                 PROVE  Cat(Cat(said[c], data[c]), inbox[c]) = Cat(First(c), heard[c])
      BY <1>1, <1>6, UnreadEnd DEF Conserved, First
    <2>1. inbox[c] # <<ErrorMark>> /\ Unread(inbox[c]) = inbox[c]
      BY <1>1, Marks DEF Unread
    <2> QED
      BY <1>1, <2>1 DEF Talk, Local, Conserved, Idle
  <1> QED
    BY <1>4, <1>5, <1>7, <1>8, <1>9, OneTalks DEF Local

LEMMA EndTalks == ASSUME Talk, NEW c \in Clients, End(c) PROVE Talk'
  <1>1. ClientTyped'
    <2>1. <<>> \in Seq(Parts) /\ <<>> \in Seq(Items) /\ 0 \in 0..Rounds
      BY ClientAssumption
    <2> QED
      BY <2>1 DEF End, Goto, Talk, ClientTyped
  <1>2. Elsewhere(c)
    BY DEF End, Goto, Talk, ClientTyped, Elsewhere
  <1>3. /\ thread'[c] = "ended" /\ data'[c] = <<>> /\ inbox'[c] = <<>> /\ heard'[c] = <<>>
        /\ said'[c] = <<>> /\ addr'[c] = Server
    BY DEF End, Goto, Talk, ClientTyped
  <1>4. Holds(c)' /\ Stream(inbox[c])' /\ Returns(c)' /\ Conserved(c)'
    BY <1>3 DEF Holds, Stream, Returns, Conserved, Idle
  <1> QED
    BY <1>1, <1>2, <1>4, OneTalks DEF Local

LEMMA StartTalks == ASSUME Talk, NEW c \in Clients, NEW p, StartClient(c, p) PROVE Talk'
  <1>1. /\ thread[c] = "none" /\ thread' = [thread EXCEPT ![c] = "start"]
        /\ UNCHANGED <<addr, round, data, inbox, heard, said, short>>
    BY DEF StartClient, Goto, history
  <1>2. ClientTyped' /\ Elsewhere(c) /\ thread'[c] = "start"
    BY <1>1 DEF Talk, ClientTyped, Elsewhere
  <1>3. Local(c)'
    BY <1>1, <1>2 DEF Talk, Local, Holds, Stream, Returns, Conserved, Idle
  <1> QED
    BY <1>2, <1>3, OneTalks

(* connect() or bind(): the client begins with its message or with nothing.*)
LEMMA BeginTalks ==
  ASSUME Talk, NEW c \in Clients, Connect(c) \/ Bind(c) PROVE Talk'
  <1> DEFINE d == IF c \in EchoClients /\ c \notin UdpClients THEN <<>> ELSE <<Message>>
             step == IF c \in EchoClients /\ c \notin UdpClients THEN "receive" ELSE "send"
  <1>1. /\ thread[c] = "start" /\ thread' = [thread EXCEPT ![c] = step]
        /\ data' = [data EXCEPT ![c] = d]
        /\ round' = round \/ round' = [round EXCEPT ![c] = Rounds]
        /\ UNCHANGED <<addr, inbox, heard, said, short>>
    BY DEF Connect, Bind, Goto, memory, history, UdpClients
  <1>2. d \in Seq(Parts) /\ Rounds \in 0..Rounds
    BY Marks, ClientAssumption
  <1>3. ClientTyped'
    BY <1>1, <1>2 DEF Talk, ClientTyped
  <1>4. Elsewhere(c) /\ thread'[c] = step /\ data'[c] = d
    BY <1>1 DEF Talk, ClientTyped, Elsewhere
  <1>5. inbox[c] = <<>> /\ heard[c] = <<>> /\ said[c] = <<>> /\ addr[c] = Server
    BY <1>1 DEF Talk, Local, Holds, Idle
  <1>6. Holds(c)' /\ Stream(inbox[c])'
    BY <1>1, <1>4, <1>5 DEF Holds, Stream, Idle
  <1>7. Returns(c)'
    BY <1>1, <1>4, <1>5, Marks DEF Returns
  <1>8. Conserved(c)'
    <2>1. Cat(Cat(<<>>, d), <<>>) = d /\ Cat(First(c), <<>>) = First(c)
      BY <1>2, CatLaws, FirstParts
    <2>2. c \in EchoClients => d = First(c)
      BY DEF First
    <2> HIDE DEF d
    <2> QED
      BY <1>1, <1>2, <1>4, <1>5, <2>1, <2>2 DEF Conserved, Unread, First
  <1> QED
    BY <1>3, <1>4, <1>6, <1>7, <1>8, OneTalks DEF Local

(* send(): all of it, in which case what was said grows by what was held;  *)
(* or a part, and then nothing is promised until the client ends.          *)
LEMMA SendTalks == ASSUME Talk, NEW c \in Clients, Send(c) PROVE Talk'
  <1> DEFINE part(n) == [j \in 1..n |-> Part(data[c][j].text, addr[c])]
  <1>1. PICK n \in 1..Len(data[c]) :
          /\ said' = [said EXCEPT ![c] = Cat(said[c], part(n))]
          /\ short' = IF n < Len(data[c]) THEN short \cup {c} ELSE short
    BY DEF Send, SendTo, Cat
  <1>2. /\ thread[c] = "send" /\ thread' = [thread EXCEPT ![c] = "receive"]
        /\ round' = [round EXCEPT ![c] = Rounds] /\ data' = [data EXCEPT ![c] = <<>>]
        /\ UNCHANGED <<addr, inbox, heard>>
    BY DEF Send, Goto
  <1>3. /\ data[c] \in Seq(Parts) /\ said[c] \in Seq(Parts) /\ heard[c] \in Seq(Parts)
        /\ addr[c] \in {Server, Stranger} /\ n \in Nat /\ n <= Len(data[c])
        /\ Rounds \in 0..Rounds
    BY <1>1, ClientAssumption DEF Talk, ClientTyped
  <1>4. part(n) \in Seq(Parts)
    <2>1. ASSUME NEW j \in 1..n PROVE Part(data[c][j].text, addr[c]) \in Parts
      <3>1. data[c][j] \in Parts
        BY <1>3, <2>1, ElementOfSeq
      <3> QED
        BY <1>3, <3>1 DEF Part, Parts
    <2> QED
      BY <1>3, <2>1
  <1>5. Cat(said[c], part(n)) \in Seq(Parts)
    BY <1>3, <1>4, CatLaws
  <1> HIDE DEF part
  <1>6. ClientTyped'
    BY <1>1, <1>2, <1>3, <1>5 DEF Talk, ClientTyped
  <1>7. Elsewhere(c)
    BY <1>1, <1>2 DEF Talk, ClientTyped, Elsewhere
  <1>8. /\ thread'[c] = "receive" /\ data'[c] = <<>> /\ said'[c] = Cat(said[c], part(n))
    BY <1>1, <1>2 DEF Talk, ClientTyped
  <1>9. Holds(c)' /\ Stream(inbox[c])' /\ Returns(c)'
    BY <1>2, <1>8 DEF Talk, Local, Holds, Stream, Returns, Idle
  <1>10. Conserved(c)'
    <2> SUFFICES ASSUME c \in EchoClients, c \notin short', inbox[c] # <<ErrorMark>>
                 PROVE  Cat(Cat(Cat(said[c], part(n)), <<>>), Unread(inbox[c]))
                          = Cat(First(c), heard[c])
      BY <1>2, <1>8 DEF Conserved, First
    <2>1. n = Len(data[c]) /\ c \notin short
      BY <1>1, <1>3
    <2>2. part(n) = data[c]
      <3>1. Len(part(n)) = Len(data[c])
        BY <1>3, <2>1 DEF part
      <3>2. ASSUME NEW j \in 1..Len(data[c]) PROVE part(n)[j] = data[c][j]
        <4>1. data[c][j] \in Parts /\ data[c][j].peer = addr[c]
          BY <1>3, <3>2, ElementOfSeq DEF Talk, Local, Returns
        <4>2. data[c][j] = Part(data[c][j].text, addr[c])
          BY <4>1 DEF Part, Parts
        <4> QED
          BY <2>1, <3>2, <4>2 DEF part
      <3> QED
        BY <1>3, <1>4, <3>1, <3>2, SeqEqual
    <2>3. Cat(said[c], data[c]) \in Seq(Parts)
      BY <1>3, CatLaws
    <2>4. Cat(Cat(said[c], data[c]), <<>>) = Cat(said[c], data[c])
      BY <2>3, CatLaws
    <2>5. Cat(Cat(said[c], data[c]), Unread(inbox[c])) = Cat(First(c), heard[c])
      BY <1>2, <2>1 DEF Talk, Local, Conserved, Idle
    <2> QED
      BY <2>2, <2>4, <2>5
  <1> QED
    BY <1>6, <1>7, <1>9, <1>10, OneTalks DEF Local

(* A part moves from the inbox to the data.                                *)
LEMMA TakesTalks ==
  ASSUME Talk, NEW c \in Clients, thread[c] = "receive", inbox[c] # <<>>, Head(inbox[c]) \in Parts,
         inbox' = [inbox EXCEPT ![c] = Tail(inbox[c])],
         data' = [data EXCEPT ![c] = Append(data[c], Head(inbox[c]))],
         UNCHANGED <<heard, said, short>>,
         thread' = thread \/ (c \in UdpClients /\ thread' = [thread EXCEPT ![c] = "check"]),
         round' \in [Clients -> 0..Rounds],
         addr' = IF c \in TcpClients THEN addr ELSE [addr EXCEPT ![c] = Head(inbox[c]).peer],
         c \in UdpClients <=> thread' # thread
  PROVE  Talk'
  <1> DEFINE h == Head(inbox[c])
  <1>1. /\ data[c] \in Seq(Parts) /\ said[c] \in Seq(Parts) /\ heard[c] \in Seq(Parts)
        /\ inbox[c] \in Seq(Items) /\ h.peer \in {Server, Stranger} /\ h = inbox[c][1]
    <2>1. h.peer \in {Server, Stranger}
      BY DEF Parts
    <2>2. inbox[c] \in Seq(Items)
      BY DEF Talk, ClientTyped
    <2>3. h = inbox[c][1]
      BY <2>2
    <2> QED
      BY <2>1, <2>2, <2>3 DEF Talk, ClientTyped
  <1>2. Append(data[c], h) \in Seq(Parts) /\ Tail(inbox[c]) \in Seq(Items)
    BY <1>1, AppendProperties, HeadTailProperties
  <1>3. Stream(inbox[c]) /\ Holds(c) /\ Returns(c) /\ Conserved(c)
    BY DEF Talk, Local
  <1>4. /\ Stream(Tail(inbox[c])) /\ inbox[c] # <<ErrorMark>>
        /\ Unread(inbox[c]) \in Seq(Parts) /\ Unread(inbox[c]) # <<>>
        /\ Head(Unread(inbox[c])) = h
        /\ Unread(Tail(inbox[c])) = Tail(Unread(inbox[c]))
    BY <1>3, UnreadHead
  <1>5. inbox'[c] = Tail(inbox[c]) /\ data'[c] = Append(data[c], h)
    BY DEF Talk, ClientTyped
  <1>6. ClientTyped'
    BY <1>1, <1>2 DEF Talk, ClientTyped
  <1>7. Elsewhere(c)
    BY DEF Talk, ClientTyped, Elsewhere
  <1>8. thread'[c] = IF c \in UdpClients THEN "check" ELSE "receive"
    BY DEF Talk, ClientTyped
  <1>9. Holds(c)' /\ Stream(inbox[c])'
    BY <1>4, <1>5, <1>8 DEF Holds, Idle
  <1>10. Returns(c)'
    <2>1. CASE c \in TcpClients
      <3>1. h.peer = Server
        <4>1. 1 \in 1..Len(inbox[c])
          BY <1>1
        <4> QED
          BY <1>1, <1>3, <2>1, <4>1 DEF Returns
      <3>2. \A j \in 1..Len(inbox'[c]) : inbox'[c][j].peer = Server
        <4>1. \A j \in 1..Len(Tail(inbox[c])) : /\ j + 1 \in 1..Len(inbox[c])
                                                /\ Tail(inbox[c])[j] = inbox[c][j + 1]
          BY <1>1, HeadTailProperties
        <4> QED
          BY <1>3, <1>5, <2>1, <4>1 DEF Returns
      <3>3. \A j \in 1..Len(data'[c]) : j \in 1..Len(data[c]) \/ data'[c][j] = h
        BY <1>1, <1>5, AppendProperties
      <3>4. \A j \in 1..Len(data[c]) : data'[c][j] = data[c][j]
        BY <1>1, <1>5, AppendProperties
      <3> QED
        BY <1>3, <2>1, <3>1, <3>2, <3>3, <3>4 DEF Returns
    <2>2. CASE c \notin TcpClients
      <3>1. data[c] = <<>>
        BY <1>3, <2>2 DEF Holds, UdpClients
      <3>2. data'[c] = <<h>> /\ addr'[c] = h.peer
        BY <1>5, <2>2, <3>1 DEF Talk, ClientTyped
      <3> QED
        <4>1. \A j \in 1..Len(<<h>>) : <<h>>[j] = h
          OBVIOUS
        <4> QED
          BY <2>2, <3>2, <4>1 DEF Returns
    <2> QED
      BY <2>1, <2>2
  <1>11. Conserved(c)'
    <2>1. Cat(Cat(said[c], Append(data[c], h)), Tail(Unread(inbox[c])))
            = Cat(Cat(said[c], data[c]), Unread(inbox[c]))
      BY <1>1, <1>4, HeadMoves
    <2> QED
      BY <1>3, <1>4, <1>5, <2>1 DEF Conserved, First, Idle
  <1> QED
    BY <1>6, <1>7, <1>9, <1>10, <1>11, OneTalks DEF Local

LEMMA ReceiveTalks == ASSUME Talk, NEW c \in Clients, Receive(c) PROVE Talk'
  <1>1. round' \in [Clients -> 0..Rounds]
    <2>1. round[c] > 0 /\ round' = [round EXCEPT ![c] = round[c] - 1] /\ round[c] \in 0..Rounds
      BY DEF Receive, Round, Talk, ClientTyped
    <2>2. round[c] - 1 \in 0..Rounds
      BY <2>1, ClientAssumption
    <2> QED
      BY <2>1, <2>2 DEF Talk, ClientTyped
  <1>2. CASE UNCHANGED <<data, inbox>>
    <2>1. UNCHANGED <<thread, addr, heard, said, short>>
      BY DEF Receive, history
    <2> QED
      BY <1>1, <1>2, <2>1 DEF Talk, ClientTyped, Local, Holds, Returns, Conserved, First
  <1>3. CASE inbox[c] # <<>> /\ Head(inbox[c]) \in Parts
             /\ data' = PartAdded(c) /\ inbox' = [inbox EXCEPT ![c] = Tail(@)]
    BY <1>1, <1>3, TakesTalks DEF Receive, PartAdded, UdpClients, history
  <1> QED
    BY <1>2, <1>3 DEF Receive

LEMMA ReceiveFromTalks == ASSUME Talk, NEW c \in Clients, ReceiveFrom(c) PROVE Talk'
  <1>1. data[c] = <<>>
    BY DEF ReceiveFrom, Talk, Local, Holds
  <1>2. data' = [data EXCEPT ![c] = Append(data[c], Head(inbox[c]))]
    BY <1>1 DEF ReceiveFrom
  <1>3. thread' = [thread EXCEPT ![c] = "check"] /\ thread'[c] = "check" /\ thread[c] = "receive"
    BY DEF ReceiveFrom, Goto, Talk, ClientTyped
  <1>4. round' \in [Clients -> 0..Rounds]
    BY DEF ReceiveFrom, Talk, ClientTyped
  <1> QED
    BY <1>2, <1>3, <1>4, TakesTalks DEF ReceiveFrom, UdpClients, history

LEMMA ReceivedTalks == ASSUME Talk, NEW c \in Clients, Received(c) PROVE Talk'
  <1>1. /\ thread[c] = "receive" /\ thread' = [thread EXCEPT ![c] = "check"]
        /\ UNCHANGED <<addr, round, data, inbox, heard, said, short>>
    BY DEF Received, Goto, memory, history
  <1>2. ClientTyped' /\ Elsewhere(c) /\ thread'[c] = "check"
    BY <1>1 DEF Talk, ClientTyped, Elsewhere
  <1>3. Local(c)'
    BY <1>1, <1>2 DEF Talk, Local, Holds, Returns, Conserved, First, Idle
  <1> QED
    BY <1>2, <1>3, OneTalks

LEMMA CheckTalks == ASSUME Talk, NEW c \in Clients, Check(c) PROVE Talk'
  <1>1. CASE data[c] = <<>> \/ Closes(data[c])
    BY <1>1, EndTalks DEF Check
  <1>2. CASE ~(data[c] = <<>> \/ Closes(data[c]))
    <2> DEFINE d == IF c \in EchoClients THEN data[c] ELSE <<Message>>
    <2>1. /\ thread[c] = "check" /\ thread' = [thread EXCEPT ![c] = "send"]
          /\ data' = [data EXCEPT ![c] = d]
          /\ UNCHANGED <<addr, round, inbox, heard, said, short>>
      BY <1>2 DEF Check, Goto, history, Talk, ClientTyped
    <2>2. d \in Seq(Parts) /\ d # <<>>
      BY <1>2, Marks DEF Talk, ClientTyped
    <2>3. ClientTyped' /\ Elsewhere(c) /\ thread'[c] = "send" /\ data'[c] = d
      BY <2>1, <2>2 DEF Talk, ClientTyped, Elsewhere
    <2>4. Local(c)'
      BY <2>1, <2>2, <2>3 DEF Talk, Local, Holds, Returns, Conserved, First, Idle
    <2> QED
      BY <2>3, <2>4, OneTalks
  <1> QED
    BY <1>1, <1>2

LEMMA TalkNext == ASSUME Talk, Http, [Next]_vars PROVE Talk'
  <1>1. ASSUME UNCHANGED clientVars PROVE Talk'
    BY <1>1 DEF clientVars, memory, history, Talk, ClientTyped, Local, Holds, Returns,
                Conserved, First
  <1>2. ASSUME NEW c \in Clients, ClientStep(c) PROVE Talk'
    BY <1>2, BeginTalks, SendTalks, EndTalks, ReceiveTalks, ReceivedTalks, ReceiveFromTalks,
       CheckTalks DEF ClientStep, Raise, ReceivesNothing
  <1>3. CASE Start
    <2>1. current \in Clients
      BY <1>3 DEF Start, Http
    <2> QED
      BY <1>1, <1>3, <2>1, StartTalks DEF Start
  <1>4. CASE Accept \/ Read \/ Post \/ Answer \/ UNCHANGED vars
    BY <1>1, <1>4 DEF Accept, Read, Post, Answer, vars
  <1>5. ASSUME NEW r \in Clients, Request(r) \/ SendRest(r) \/ LeaveEarly(r) PROVE Talk'
    BY <1>1, <1>5 DEF Request, SendRest, LeaveEarly
  <1> QED
    BY <1>2, <1>3, <1>4, <1>5, ArrivesTalks, FinishTalks DEF Next, HttpStep

LEMMA TalkAlways == Spec => [](Talk /\ Http /\ Inv)
  <1>1. Init => Talk /\ Http /\ Inv
    BY TalkInit, InvInit DEF Init, Http
  <1> QED
    BY <1>1, TalkNext, HttpNext, InvNext, PTL DEF Spec

(* The server and its clients keep their shape: the server has a current   *)
(* requester exactly while it is not accepting, and a client that is about *)
(* to send has something to send.                                          *)
THEOREM TypeCorrect == Spec => []TypeOK
  <1>1. Talk /\ Http /\ Inv => TypeOK
    <2> SUFFICES ASSUME Talk, Http, Inv PROVE TypeOK
      OBVIOUS
    <2>1. ClientTypeOK
      BY DEF Talk, ClientTyped, Local, Holds, Inv, Shape, ClientTypeOK
    <2>2. (current = Nobody) = (http = "accept")
      BY RequestAssumption DEF Http
    <2>3. current \in Clients \cup {Nobody}
      BY DEF Http
    <2> QED
      BY <2>1, <2>2, <2>3 DEF Http, Inv, Shape, TypeOK
  <1> QED
    BY <1>1, TalkAlways, PTL

(* A client with the option echo sends back all it hears, in order and to  *)
(* whoever sent it, however the parts fall into its rounds.                *)
THEOREM Conservation == Spec => []EchoConserved
  <1>1. Talk => EchoConserved
    <2> SUFFICES ASSUME Talk, NEW c \in EchoClients \ short,
                        thread[c] \in {"send", "receive", "check"}, inbox[c] # <<ErrorMark>>
                 PROVE  (said[c] \o data[c]) \o Arrived(c) = First(c) \o heard[c]
      BY DEF EchoConserved, First
    <2>1. c \in Clients
      BY ClientAssumption
    <2>2. Arrived(c) = Unread(inbox[c])
      BY DEF Arrived, Unread
    <2> QED
      BY <2>1, <2>2 DEF Talk, Local, Conserved, Idle, Cat
  <1> QED
    BY <1>1, TalkAlways, PTL
=============================================================================
