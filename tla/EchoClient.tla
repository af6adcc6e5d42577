---------------------------- MODULE EchoClient ----------------------------
(***************************************************************************)
(* tools/host/echo_client.py: the clients that run in threads of the       *)
(* dynamic HTTP server (module DynamicHttp).                               *)
(*                                                                         *)
(* A client connects to a TCP server, or binds a port of its own for UDP,  *)
(* and then receives and sends in turns until it hears "close", nothing    *)
(* for the timeout, or an error. With the option echo it sends what it     *)
(* received, otherwise its message. The parts that arrive are kinds of     *)
(* text, each with the peer it came from.                                  *)
(***************************************************************************)
EXTENDS Naturals, Sequences, SequencesExt

CONSTANTS Clients,
          TcpClients, EchoClients,  \* clients with mode "TCP"; with the option echo
          Server, Stranger,  \* the address given to a client, another that sends to it
          Rounds,            \* timeout: rounds of one second that receive() waits
          LastPort,          \* ports there are above 50000
          MaxParts           \* bound: MaxParts[c] parts arrive at client c

UdpClients == Clients \ TcpClients
Texts      == {"text", "bytes", "close"}
Part(x, p) == [text |-> x, peer |-> p]
Message    == Part("text", Server)
EndMark    == Part("end", Server)    \* no more: the stream ended, a datagram is empty
ErrorMark  == Part("error", Server)  \* recv() will raise
Parts      == [text : Texts, peer : {Server, Stranger}]

ASSUME ClientAssumption ==
  /\ TcpClients \subseteq Clients /\ EchoClients \subseteq Clients
  /\ Server # Stranger
  /\ Rounds \in Nat \ {0} /\ LastPort \in Nat /\ MaxParts \in [Clients -> Nat]

VARIABLES
  thread,  \* thread[c]: "none", "start", "send", "receive", "check" or "ended"
  port,    \* port[c]: local_port, counted from 50000 (0: None)
  data,    \* data[c]: received and not sent yet
  addr,    \* addr[c]: where sendto() sends
  round,   \* round[c]: rounds left in receive()
  inbox,   \* inbox[c]: what recv() will return
  heard, said, \* history: the parts that arrived, the parts that were sent
  short    \* history: clients with a send() that took a part only (until they end)

memory     == <<port, addr, round>>
history    == <<heard, said, short>>
clientVars == <<thread, memory, data, inbox, history>>

ClientInit ==
  /\ thread = [c \in Clients |-> "none"] /\ port = [c \in Clients |-> 0]
  /\ data = [c \in Clients |-> <<>>] /\ addr = [c \in Clients |-> Server]
  /\ round = [c \in Clients |-> 0]
  /\ inbox = [c \in Clients |-> <<>>]
  /\ heard = [c \in Clients |-> <<>>] /\ said = [c \in Clients |-> <<>>] /\ short = {}

Goto(c, step) == thread' = [thread EXCEPT ![c] = step]

(* The thread ends, by an exception or after client.close().               *)
End(c) == /\ Goto(c, "ended")
          /\ data' = [data EXCEPT ![c] = <<>>] /\ inbox' = [inbox EXCEPT ![c] = <<>>]
          /\ heard' = [heard EXCEPT ![c] = <<>>] /\ said' = [said EXCEPT ![c] = <<>>]
          /\ short' = short \ {c} /\ addr' = [addr EXCEPT ![c] = Server]
          /\ round' = [round EXCEPT ![c] = 0]

(***************************************************************************)
(* The peers. Anyone can send to the port of a UDP client.                 *)
(***************************************************************************)
Arrives(c) ==
  /\ thread[c] \in {"send", "receive"} /\ Len(heard[c]) < MaxParts[c]
  /\ inbox[c] \in Seq(Parts)
  /\ \E x \in Texts, p \in IF c \in TcpClients THEN {Server} ELSE {Server, Stranger} :
       /\ inbox' = [inbox EXCEPT ![c] = Append(@, Part(x, p))]
       /\ heard' = [heard EXCEPT ![c] = Append(@, Part(x, p))]
  /\ UNCHANGED <<thread, memory, data, said, short>>

(* The server of a TCP client closes or resets the connection; a UDP       *)
(* client gets an empty datagram or an ICMP error.                         *)
Finish(c) ==
  /\ thread[c] \in {"send", "receive"}
  /\ inbox[c] \in Seq(Parts)
  /\ inbox' \in {[inbox EXCEPT ![c] = Append(@, EndMark)], [inbox EXCEPT ![c] = <<ErrorMark>>]}
  /\ UNCHANGED <<thread, memory, data, history>>

(***************************************************************************)
(* The client, EchoClient.run.                                             *)
(***************************************************************************)
StartClient(c, p) ==
  /\ thread[c] = "none"
  /\ Goto(c, "start")
  /\ port' = [port EXCEPT ![c] = p]
  /\ UNCHANGED <<data, addr, round, inbox, history>>

(* connect() returns. *)
Connect(c) ==
  /\ c \in TcpClients /\ thread[c] = "start"
  /\ Goto(c, IF c \in EchoClients THEN "receive" ELSE "send")
  /\ round' = [round EXCEPT ![c] = Rounds]
  /\ data' = [data EXCEPT ![c] = IF c \in EchoClients THEN <<>> ELSE <<Message>>]
  /\ UNCHANGED <<port, addr, inbox, history>>

(* Mutant: only a client without echo is given its message to send. *)
BindUnset(c) ==
  /\ c \in UdpClients /\ thread[c] = "start" /\ port[c] <= LastPort
  /\ Goto(c, "send")
  /\ data' = IF c \in EchoClients THEN data ELSE [data EXCEPT ![c] = <<Message>>]
  /\ UNCHANGED <<memory, inbox, history>>

(* bind() returns: there is such a port, and no other process has it.      *)
Bind(c) ==
  /\ c \in UdpClients /\ thread[c] = "start" /\ port[c] <= LastPort
  /\ Goto(c, "send")
  /\ data' = [data EXCEPT ![c] = <<Message>>]
  /\ UNCHANGED <<memory, inbox, history>>

(* The first n parts of data are sent. *)
SendTo(c, n) ==
  said' = [said EXCEPT ![c] = @ \o [j \in 1..n |-> Part(data[c][j].text, addr[c])]]

(* send() may take less than it is given. (data is assigned again before   *)
(* its next use.)                                                          *)
Send(c) ==
  /\ thread[c] = "send"
  /\ \E n \in 1..Len(data[c]) :
       /\ SendTo(c, n)
       /\ short' = IF n < Len(data[c]) THEN short \cup {c} ELSE short
  /\ Goto(c, "receive")
  /\ round' = [round EXCEPT ![c] = Rounds]
  /\ data' = [data EXCEPT ![c] = <<>>]
  /\ UNCHANGED <<port, addr, inbox, heard>>

(* connect(), bind() or a send raises: the latter is caught, by run_tcp    *)
(* what send() does not catch, and the client closes.                      *)
Raise(c) ==
  /\ thread[c] \in {"start", "send"}
  /\ End(c)
  /\ UNCHANGED port

(* Mutants: "data = sock.recv()"; "while True". *)
PartAddedAlone(c) == [data EXCEPT ![c] = <<Head(inbox[c])>>]

RoundEndless(c) == round

PartAdded(c) == [data EXCEPT ![c] = Append(@, Head(inbox[c]))]

Round(c) == [round EXCEPT ![c] = @ - 1]

(* One round of receive(): a part; the end of the stream, which is there   *)
(* again at the next round, or a second without anything.                  *)
Receive(c) ==
  /\ c \in TcpClients /\ thread[c] = "receive" /\ round[c] > 0
  /\ \/ /\ inbox[c] # <<>> /\ Head(inbox[c]) \in Parts
        /\ data' = PartAdded(c) /\ inbox' = [inbox EXCEPT ![c] = Tail(@)]
     \/ /\ inbox[c] = <<EndMark>> \/ (inbox[c] = <<>> /\ data[c] = <<>>)
        /\ UNCHANGED <<data, inbox>>
  /\ round' = Round(c)
  /\ UNCHANGED <<thread, port, addr, history>>

(* receive() returns: a second without anything follows the data, or the   *)
(* timeout is over, with or without data.                                  *)
Received(c) ==
  /\ c \in TcpClients /\ thread[c] = "receive"
  /\ round[c] = 0 \/ (inbox[c] = <<>> /\ data[c] # <<>>)
  /\ Goto(c, "check")
  /\ UNCHANGED <<memory, data, inbox, history>>

(* recvfrom() returns a datagram. *)
ReceiveFrom(c) ==
  /\ c \in UdpClients /\ thread[c] = "receive"
  /\ inbox[c] # <<>> /\ Head(inbox[c]) \in Parts
  /\ data' = [data EXCEPT ![c] = <<Head(inbox[c])>>]
  /\ addr' = [addr EXCEPT ![c] = Head(inbox[c]).peer]
  /\ inbox' = [inbox EXCEPT ![c] = Tail(@)]
  /\ Goto(c, "check")
  /\ UNCHANGED <<port, round, history>>

(* recv() raises, or recvfrom() does, or waits for the timeout, or returns *)
(* an empty datagram.                                                      *)
ReceivesNothing(c) ==
  /\ thread[c] = "receive"
  /\ inbox[c] = <<ErrorMark>> \/ (c \in UdpClients /\ inbox[c] \in {<<>>, <<EndMark>>})
  /\ End(c)
  /\ UNCHANGED port

(* check_message: data that cannot be decoded hold no command. *)
Closes(d) == LET texts == {d[j].text : j \in 1..Len(d)}
             IN  "close" \in texts /\ "bytes" \notin texts

Check(c) ==
  /\ thread[c] = "check"
  /\ IF data[c] = <<>> \/ Closes(data[c])
       THEN End(c)
       ELSE /\ Goto(c, "send")
            /\ data' = IF c \in EchoClients THEN data ELSE [data EXCEPT ![c] = <<Message>>]
            /\ UNCHANGED <<addr, round, inbox, history>>
  /\ UNCHANGED port

ClientStep(c) == \/ Connect(c) \/ Bind(c) \/ Send(c) \/ Raise(c)
                 \/ Receive(c) \/ Received(c) \/ ReceiveFrom(c) \/ ReceivesNothing(c)
                 \/ Check(c)

-----------------------------------------------------------------------------
(***************************************************************************)
(* Properties.                                                             *)
(***************************************************************************)

ClientTypeOK ==
  /\ thread \in [Clients -> {"none", "start", "send", "receive", "check", "ended"}]
  /\ port \in [Clients -> Nat]
  /\ addr \in [Clients -> {Server, Stranger}]
  /\ round \in [Clients -> 0..Rounds]
  /\ \A c \in Clients :
       /\ \A q \in {data[c], heard[c], said[c]} :
            q \in Seq(Parts)
       /\ thread[c] = "send" => data[c] # <<>>
  /\ short \subseteq Clients

(* The parts in inbox[c]: EndMark, if it is there, is the last.            *)
Arrived(c) == IF inbox[c] \in Seq(Parts) THEN inbox[c] ELSE Front(inbox[c])

(* A client with the option echo loses nothing and mixes nothing up: at    *)
(* any time, what it has sent, what it has received and what has not been  *)
(* read yet is what arrived, in order, and every part goes back to the peer*)
(* that sent it, however the parts fall into the rounds of receive(). (UDP *)
(* clients begin with their message.) Unless send() took a part only, or a *)
(* reset threw away what was not read.                                     *)
EchoConserved ==
  \A c \in EchoClients \ short :
    thread[c] \in {"send", "receive", "check"} /\ inbox[c] # <<ErrorMark>> =>
      said[c] \o data[c] \o Arrived(c)
        = (IF c \in UdpClients THEN <<Message>> ELSE <<>>) \o heard[c]

(* A client ends when its peers fall silent, or close the connection in    *)
(* the middle of receive(), which then sees the end of the stream for ever.*)
ClientEnds == \A c \in Clients : thread[c] # "none" ~> thread[c] = "ended"
=============================================================================
