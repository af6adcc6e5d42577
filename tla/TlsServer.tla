----------------------------- MODULE TlsServer -----------------------------
(***************************************************************************)
(* tools/host/tcp_tls_server.py: the TLS echo servers.                     *)
(*                                                                         *)
(* One process with a thread per listener (RSA or ECDSA certificate, with  *)
(* or without client certificates). The thread accepts a connection, makes *)
(* the TLS handshake itself, and then starts a thread that echoes. All     *)
(* threads share the descriptors of the process.                           *)
(*                                                                         *)
(* A client makes one connection, which is named after it. What is sent    *)
(* and echoed is counted only.                                             *)
(***************************************************************************)
EXTENDS Naturals, Sequences, FiniteSets, SequencesExt

CONSTANTS Clients, Listeners,
          ListenerOf,  \* ListenerOf[c]: the listener client c connects to
          Mutual,      \* listeners that verify client certificates
          Certified,   \* clients with a certificate that CAroot verifies
          None,
          Backlog,     \* listen(5)
          MaxFds,      \* descriptors the process may have for connections
          MaxSends     \* bound: what a client sends

ASSUME TlsAssumption ==
  /\ ListenerOf \in [Clients -> Listeners]
  /\ Mutual \subseteq Listeners /\ Certified \subseteq Clients /\ None \notin Clients
  /\ Backlog \in Nat \ {0} /\ MaxFds \in Nat \ {0} /\ MaxSends \in Nat

VARIABLES
  at,          \* at[l]: "load", "accept", "handshake" or "ended"
  bound,       \* listeners whose socket is bound and listens
  queue,       \* queue[l]: completed connections, not accepted yet
  client_sock, \* client_sock[l]: the connection accepted last
  conn_stream, \* conn_stream[l]: the connection wrapped last
  fds,         \* connections the process has a descriptor of
  handler,     \* handler[c]: "none", "running" or "ended"
  client,      \* client[c]: "new", "silent", "talking" or "left"
  unread, sent \* unread[c]: messages that read() will return; sent[c]: sent so far

listening == <<at, bound, queue, client_sock, conn_stream>>
clients   == <<client, sent>>
vars      == <<listening, fds, handler, clients, unread>>

Init == /\ at = [l \in Listeners |-> "load"] /\ bound = {}
        /\ queue = [l \in Listeners |-> <<>>]
        /\ client_sock = [l \in Listeners |-> None] /\ conn_stream = [l \in Listeners |-> None]
        /\ fds = {}
        /\ handler = [c \in Clients |-> "none"]
        /\ client = [c \in Clients |-> "new"]
        /\ unread = [c \in Clients |-> 0] /\ sent = [c \in Clients |-> 0]

Goto(l, step) == at' = [at EXCEPT ![l] = step]

(***************************************************************************)
(* Clients.                                                                *)
(***************************************************************************)
Connect(c) ==
  /\ client[c] = "new"
  /\ ListenerOf[c] \in bound /\ Len(queue[ListenerOf[c]]) < Backlog
  /\ queue' = [queue EXCEPT ![ListenerOf[c]] = Append(@, c)]
  /\ client' = [client EXCEPT ![c] = "silent"]
  /\ UNCHANGED <<at, bound, client_sock, conn_stream, fds, handler, unread, sent>>

(* The client begins the handshake. *)
Hello(c) ==
  /\ client[c] = "silent"
  /\ client' = [client EXCEPT ![c] = "talking"]
  /\ UNCHANGED <<listening, fds, handler, unread, sent>>

Send(c) ==
  /\ client[c] = "talking" /\ handler[c] = "running" /\ sent[c] < MaxSends
  /\ sent' = [sent EXCEPT ![c] = @ + 1] /\ unread' = [unread EXCEPT ![c] = @ + 1]
  /\ UNCHANGED <<listening, fds, handler, client>>

Leave(c) ==
  /\ client[c] \in {"silent", "talking"}
  /\ client' = [client EXCEPT ![c] = "left"]
  /\ UNCHANGED <<listening, fds, handler, unread, sent>>

(***************************************************************************)
(* The listeners, TcpTLSServer.run.                                        *)
(***************************************************************************)
(* The certificates are loaded and the port is bound, or the thread ends   *)
(* with an exception. The other listeners go on.                           *)
Load(l) ==
  /\ at[l] = "load"
  /\ \/ Goto(l, "accept") /\ bound' = bound \cup {l}
     \/ Goto(l, "ended") /\ UNCHANGED bound
  /\ UNCHANGED <<queue, client_sock, conn_stream, fds, handler, clients, unread>>

Accept(l) ==
  /\ at[l] = "accept" /\ queue[l] # <<>> /\ Cardinality(fds) < MaxFds
  /\ queue' = [queue EXCEPT ![l] = Tail(@)]
  /\ client_sock' = [client_sock EXCEPT ![l] = Head(queue[l])]
  /\ fds' = fds \cup {Head(queue[l])}
  /\ Goto(l, "handshake")
  /\ UNCHANGED <<bound, conn_stream, handler, clients, unread>>

(* accept() raises when no descriptor is left, and nothing catches it; the *)
(* socket stays bound.                                                     *)
AcceptFails(l) ==
  /\ at[l] = "accept" /\ Cardinality(fds) = MaxFds
  /\ Goto(l, "ended")
  /\ UNCHANGED <<bound, queue, client_sock, conn_stream, fds, handler, clients, unread>>

(* Mutant: client_sock.settimeout() is forgotten. *)
HandshakeFailsUntimed(l) ==
  /\ at[l] = "handshake" /\ client[client_sock[l]] # "silent"
  /\ fds' = fds \ {client_sock[l]}
  /\ Goto(l, "accept")
  /\ UNCHANGED <<bound, queue, client_sock, conn_stream, handler, clients, unread>>

(* wrap_socket() raises: no TLS, no certificate, the client has left, or   *)
(* it was silent for the timeout. The connection is closed; conn_stream    *)
(* keeps its value.                                                        *)
HandshakeFails(l) ==
  /\ at[l] = "handshake"
  /\ fds' = fds \ {client_sock[l]}
  /\ Goto(l, "accept")
  /\ UNCHANGED <<bound, queue, client_sock, conn_stream, handler, clients, unread>>

(* Mutant: conn_streams are collected in a list. *)
ReboundNever(l) == fds

(* conn_stream is bound to another connection: one that got no thread is   *)
(* closed, since nothing refers to it any more.                            *)
Rebound(l) == IF conn_stream[l] # None /\ handler[conn_stream[l]] = "none"
                THEN fds \ {conn_stream[l]} ELSE fds

Wrapped(l) == /\ client[client_sock[l]] \in {"talking", "left"}
              /\ l \in Mutual => client_sock[l] \in Certified

(* wrap_socket() returns. (Also if the client has gone by then: the first  *)
(* read() will raise.) The thread is started, or there can be no more, and *)
(* the exception leaves the connection open.                               *)
HandshakeDone(l) ==
  /\ at[l] = "handshake" /\ Wrapped(l)
  /\ conn_stream' = [conn_stream EXCEPT ![l] = client_sock[l]]
  /\ fds' = Rebound(l)
  /\ \/ handler' = [handler EXCEPT ![client_sock[l]] = "running"]
     \/ UNCHANGED handler
  /\ Goto(l, "accept")
  /\ UNCHANGED <<bound, queue, client_sock, clients, unread>>

Listen(l) == Load(l) \/ Accept(l) \/ AcceptFails(l) \/ HandshakeFails(l) \/ HandshakeDone(l)

(***************************************************************************)
(* The handlers, tcp_tls_handle.                                           *)
(***************************************************************************)
End(c) == handler' = [handler EXCEPT ![c] = "ended"] /\ fds' = fds \ {c}

(* read() returns data and send() takes it, or raises. *)
Echo(c) ==
  /\ handler[c] = "running" /\ unread[c] > 0
  /\ unread' = [unread EXCEPT ![c] = @ - 1]
  /\ End(c) \/ UNCHANGED <<handler, fds>>
  /\ UNCHANGED <<listening, clients>>

(* read() returns the end of the stream or raises, after the timeout, too. *)
EndOfStream(c) ==
  /\ handler[c] = "running" /\ unread[c] = 0
  /\ End(c)
  /\ UNCHANGED <<listening, clients, unread>>

Handle(c) == Echo(c) \/ EndOfStream(c)

Next == \/ \E l \in Listeners : Listen(l)
        \/ \E c \in Clients : Connect(c) \/ Hello(c) \/ Send(c) \/ Leave(c) \/ Handle(c)

Spec == Init /\ [][Next]_vars

(* Threads are scheduled, and socket operations time out. Clients owe      *)
(* nothing.                                                                *)
FairSpec == /\ Spec
            /\ \A l \in Listeners : WF_vars(Listen(l))
            /\ \A c \in Clients : WF_vars(Handle(c))

-----------------------------------------------------------------------------
(***************************************************************************)
(* Properties.                                                             *)
(***************************************************************************)

(* Threads, queues and descriptors refer to connections. *)
TypeOK ==
  /\ at \in [Listeners -> {"load", "accept", "handshake", "ended"}]
  /\ bound \subseteq Listeners
  /\ \A l \in Listeners : at[l] \in {"accept", "handshake"} => l \in bound
  /\ queue \in [Listeners -> Seq(Clients)]
  /\ client_sock \in [Listeners -> Clients \cup {None}]
  /\ conn_stream \in [Listeners -> Clients \cup {None}]
  /\ \A l \in Listeners : at[l] = "handshake" => client_sock[l] # None
  /\ fds \subseteq Clients /\ Cardinality(fds) <= MaxFds
  /\ handler \in [Clients -> {"none", "running", "ended"}]
  /\ client \in [Clients -> {"new", "silent", "talking", "left"}]
  /\ unread \in [Clients -> Nat] /\ sent \in [Clients -> 0..MaxSends]

(* The process only keeps descriptors that it uses: of a connection in its *)
(* handshake, of one whose handler runs, and, for each listener, of at     *)
(* most one that got no handler, which goes with the next one wrapped. So  *)
(* descriptors do not run out by failed handshakes, timeouts or leaving.   *)
NoLeak ==
  \A c \in fds : LET l == ListenerOf[c] IN
    \/ at[l] = "handshake" /\ client_sock[l] = c
    \/ handler[c] = "running"
    \/ handler[c] = "none" /\ conn_stream[l] = c

(* A connection is served or closed in the end, however long others stay   *)
(* silent in their handshakes, unless the thread of its own listener was   *)
(* ended by an exception or the connection is the one left without thread. *)
NotStarved ==
  \A c \in Clients : LET l == ListenerOf[c] IN
    client[c] # "new" ~>
      \/ handler[c] # "none"
      \/ c \notin fds /\ ~Contains(queue[l], c)
      \/ at[l] = "ended"
      \/ conn_stream[l] = c
=============================================================================
