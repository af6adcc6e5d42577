---------------------------- MODULE DynamicHttp ----------------------------
(***************************************************************************)
(* tools/host/dynamic_http.py: requests over HTTP that start echo clients. *)
(*                                                                         *)
(* HTTPServer serves one connection at a time: it reads the request        *)
(* without a timeout, starts the client in a thread and answers. A         *)
(* requester makes one request, and has the name of the client it starts.  *)
(***************************************************************************)
EXTENDS EchoClient

CONSTANTS Nobody,
          Backlog   \* request_queue_size of HTTPServer

ASSUME RequestAssumption == Nobody \notin Clients /\ Backlog \in Nat \ {0}

VARIABLES
  http,      \* "accept", "read", "post", "start"; or the answer: "200", "400", "close"
  current,   \* the requester that is served
  queue,     \* connections not accepted yet
  request,   \* request[r]: "new", "part" (of it sent), "whole", "left" or "over"
  LOCAL_PORT_UDP \* counted from 50000

httpVars == <<http, current, queue, request, LOCAL_PORT_UDP>>
vars     == <<httpVars, clientVars>>

Init == /\ http = "accept" /\ current = Nobody /\ queue = <<>>
        /\ request = [r \in Clients |-> "new"]
        /\ LOCAL_PORT_UDP = 0
        /\ ClientInit

(* Bound: requests come while the peers are silent, and peers send to the  *)
(* client of the only request.                                             *)
Quiet    == \A c \in Clients : heard[c] = <<>>
Alone(c) == \A r \in Clients \ {c} : request[r] = "new"

(***************************************************************************)
(* Requesters.                                                             *)
(***************************************************************************)
Request(r) ==
  /\ request[r] = "new" /\ Len(queue) < Backlog /\ Quiet
  /\ queue' = Append(queue, r)
  /\ \E x \in {"part", "whole"} : request' = [request EXCEPT ![r] = x]
  /\ UNCHANGED <<http, current, LOCAL_PORT_UDP, clientVars>>

(* The requester sends the rest of its request, *)
SendRest(r) ==
  /\ request[r] = "part"
  /\ request' = [request EXCEPT ![r] = "whole"]
  /\ UNCHANGED <<http, current, queue, LOCAL_PORT_UDP, clientVars>>

(* or leaves without waiting for an answer.                                *)
LeaveEarly(r) ==
  /\ request[r] \in {"part", "whole"}
  /\ request' = [request EXCEPT ![r] = "left"]
  /\ UNCHANGED <<http, current, queue, LOCAL_PORT_UDP, clientVars>>

(***************************************************************************)
(* The server.                                                             *)
(***************************************************************************)
Accept ==
  /\ http = "accept" /\ queue # <<>>
  /\ current' = Head(queue) /\ queue' = Tail(queue)
  /\ http' = "read"
  /\ UNCHANGED <<request, LOCAL_PORT_UDP, clientVars>>

(* The request is read: it waits for the rest of it without a timeout. It  *)
(* may be one for the form (GET, HEAD), a form with a service and all it   *)
(* takes, or none of these. A requester that has left may have sent too    *)
(* little, and then the connection is closed, or taken for one of these.   *)
Read ==
  /\ http = "read" /\ request[current] \in {"whole", "left"}
  /\ \/ http' \in {"200", "post", "400"}
     \/ request[current] = "left" /\ http' = "close"
  /\ UNCHANGED <<current, queue, request, LOCAL_PORT_UDP, clientVars>>

(* Mutant: ports are used again, by the number of clients that have one. *)
TakePortAgain ==
  1 + Cardinality({c \in UdpClients : thread[c] \in {"send", "receive", "check"}})

TakePort == LOCAL_PORT_UDP + 1

(* A client with UDP gets the next port. *)
Post ==
  /\ http = "post"
  /\ LOCAL_PORT_UDP' = IF current \in UdpClients THEN TakePort ELSE LOCAL_PORT_UDP
  /\ http' = "start"
  /\ UNCHANGED <<current, queue, request, clientVars>>

(* The thread is started, or something raises: int() of a digit that is    *)
(* none, or there can be no more threads. The port is used up by then.     *)
Start ==
  /\ http = "start"
  /\ \/ /\ StartClient(current, IF current \in UdpClients THEN LOCAL_PORT_UDP ELSE 0)
        /\ http' = "200"
     \/ http' = "400" /\ UNCHANGED clientVars
  /\ UNCHANGED <<current, queue, request, LOCAL_PORT_UDP>>

(* Mutant: the exception of an answer that cannot be written ends the      *)
(* server.                                                                 *)
AnswerFatal ==
  /\ http \in {"200", "400", "close"} /\ (http = "close" \/ request[current] # "left")
  /\ request' = [request EXCEPT ![current] = "over"]
  /\ http' = "accept" /\ current' = Nobody
  /\ UNCHANGED <<queue, LOCAL_PORT_UDP, clientVars>>

(* The answer is written, if there is anyone to read it; otherwise the     *)
(* exception is logged. The server goes on with the next connection.       *)
Answer ==
  /\ http \in {"200", "400", "close"}
  /\ request' = [request EXCEPT ![current] = "over"]
  /\ http' = "accept" /\ current' = Nobody
  /\ UNCHANGED <<queue, LOCAL_PORT_UDP, clientVars>>

HttpStep == Accept \/ Read \/ Post \/ Start \/ Answer

Next == \/ HttpStep
        \/ \E r \in Clients : Request(r) \/ SendRest(r) \/ LeaveEarly(r)
        \/ \E c \in Clients :
             /\ (Arrives(c) /\ Alone(c)) \/ Finish(c) \/ ClientStep(c)
             /\ UNCHANGED httpVars

Spec == Init /\ [][Next]_vars

(* The server and the threads of the clients are scheduled, and operations *)
(* on a client's socket time out. Requesters and peers owe nothing.        *)
FairSpec == /\ Spec /\ WF_vars(HttpStep)
            /\ \A c \in Clients : WF_vars(ClientStep(c) /\ UNCHANGED httpVars)

-----------------------------------------------------------------------------
(***************************************************************************)
(* Properties.                                                             *)
(***************************************************************************)

TypeOK ==
  /\ ClientTypeOK
  /\ http \in {"accept", "read", "post", "start", "200", "400", "close"}
  /\ current \in Clients \cup {Nobody} /\ (current = Nobody) = (http = "accept")
  /\ queue \in Seq(Clients)
  /\ request \in [Clients -> {"new", "part", "whole", "left", "over"}]
  /\ LOCAL_PORT_UDP \in Nat

Bound(c) == c \in UdpClients /\ thread[c] \in {"send", "receive", "check"}

(* Two clients with UDP never share a port, however many failed or ended   *)
(* before them: so bind() never fails because of another client.           *)
PortsDistinct ==
  \A c, d \in Clients : Bound(c) /\ Bound(d) /\ c # d => port[c] # port[d]

(* A request is only kept waiting by a requester that has not sent all of  *)
(* its own and stays: then by that one for ever, with everyone behind it.  *)
OnlyStalledBlocks ==
  \A r \in Clients :
    (request[r] = "whole") ~>
      (request[r] # "whole" \/ [](http = "read" /\ request[current] = "part"))
=============================================================================
