-------------------------- MODULE TlsServerProofs -------------------------
(***************************************************************************)
(* Proofs about TlsServer, for any number of clients, listeners and        *)
(* descriptors.                                                            *)
(***************************************************************************)
EXTENDS TlsServer, TLAPS, FiniteSetTheorems

(* The part of the types the arguments need. *)
Shape ==
  /\ at \in [Listeners -> {"load", "accept", "handshake", "ended"}]
  /\ queue \in [Listeners -> Seq(Clients)]
  /\ client_sock \in [Listeners -> Clients \cup {None}]
  /\ conn_stream \in [Listeners -> Clients \cup {None}]
  /\ handler \in [Clients -> {"none", "running", "ended"}]
  /\ client \in [Clients -> {"new", "silent", "talking", "left"}]

(* Connections to l that no handler was started for yet. *)
Fresh(l) == {c \in Clients : /\ ListenerOf[c] = l
                             /\ client[c] # "new" /\ handler[c] = "none"}

(* Every connection is in one place: in one queue, once, then with the     *)
(* thread that makes its handshake.                                        *)
Once(q) == \A i, j \in 1..Len(q) : q[i] = q[j] => i = j

QueuedAt(l) ==
  /\ \A i \in 1..Len(queue[l]) : queue[l][i] \in Fresh(l)
  /\ Once(queue[l])
  /\ at[l] = "handshake" =>
       /\ client_sock[l] \in Fresh(l)
       /\ \A i \in 1..Len(queue[l]) : queue[l][i] # client_sock[l]

Queued == \A l \in Listeners : QueuedAt(l)

Served == \A c \in Clients : handler[c] # "none" => client[c] # "new"

Places == Shape /\ Queued /\ Served

(* A listener whose variables do not change, or which leaves a handshake.  *)
LEMMA UnmovedAt ==
  ASSUME NEW l \in Listeners, QueuedAt(l), queue'[l] = queue[l],
         at'[l] = "handshake" => at[l] = "handshake" /\ client_sock'[l] = client_sock[l],
         \A c : c \in Fresh(l) => c \in Fresh(l)'
  PROVE  QueuedAt(l)'
  BY DEF QueuedAt, Once

LEMMA ConnectKeeps == ASSUME Places, NEW c \in Clients, Connect(c) PROVE Places'
  <1> DEFINE k == ListenerOf[c]
             q == queue[k]
  <1>1. /\ client[c] = "new" /\ client' = [client EXCEPT ![c] = "silent"]
        /\ queue' = [queue EXCEPT ![k] = Append(q, c)]
        /\ UNCHANGED <<at, client_sock, conn_stream, handler>>
        /\ k \in Listeners /\ q \in Seq(Clients)
    BY TlsAssumption DEF Connect, Places, Shape
  <1>2. Shape' /\ Served'
    BY <1>1 DEF Places, Shape, Served
  <1>3. \A x, l : x \in Fresh(l) => x # c /\ x \in Fresh(l)'
    BY <1>1 DEF Fresh, Places, Shape
  <1>4. c \in Fresh(k)'
    BY <1>1 DEF Fresh, Places, Shape, Served
  <1>5. ASSUME NEW l \in Listeners, l # k PROVE QueuedAt(l)'
    <2>1. queue'[l] = queue[l] /\ at'[l] = at[l] /\ client_sock'[l] = client_sock[l]
      BY <1>1, <1>5 DEF Places, Shape
    <2> QED
      BY <2>1, <1>3, UnmovedAt DEF Places, Queued
  <1>6. /\ queue'[k] = Append(q, c) /\ Len(queue'[k]) = Len(q) + 1 /\ Len(q) \in Nat
        /\ \A i \in 1..Len(q) : queue'[k][i] = q[i]
        /\ queue'[k][Len(q) + 1] = c
    BY <1>1 DEF Places, Shape
  <1>7. QueuedAt(k)
    BY <1>1 DEF Places, Queued
  <1>8. /\ \A i \in 1..Len(q) : q[i] # c /\ q[i] \in Fresh(k)'
        /\ Once(q)
        /\ at[k] = "handshake" =>
             /\ client_sock[k] # c /\ client_sock[k] \in Fresh(k)'
             /\ \A i \in 1..Len(q) : q[i] # client_sock[k]
    BY <1>3, <1>7 DEF QueuedAt
  <1>9. \A i \in 1..Len(queue'[k]) : i \in 1..Len(q) \/ i = Len(q) + 1
    BY <1>6
  <1>10. QueuedAt(k)'
    BY <1>1, <1>4, <1>6, <1>8, <1>9 DEF QueuedAt, Once
  <1> QED
    BY <1>2, <1>5, <1>10 DEF Places, Queued

LEMMA AcceptKeeps == ASSUME Places, NEW k \in Listeners, Accept(k) PROVE Places'
  <1> DEFINE q == queue[k]
             c == Head(q)
  <1>1. /\ q # <<>> /\ q \in Seq(Clients) /\ c \in Clients
        /\ queue' = [queue EXCEPT ![k] = Tail(q)]
        /\ client_sock' = [client_sock EXCEPT ![k] = c]
        /\ at' = [at EXCEPT ![k] = "handshake"]
        /\ UNCHANGED <<conn_stream, handler, client>>
    BY DEF Accept, Goto, clients, Places, Shape
  <1>2. Shape' /\ Served'
    BY <1>1 DEF Places, Shape, Served
  <1>3. \A x, l : x \in Fresh(l) => x \in Fresh(l)'
    BY <1>1 DEF Fresh
  <1>4. ASSUME NEW l \in Listeners, l # k PROVE QueuedAt(l)'
    <2>1. queue'[l] = queue[l] /\ at'[l] = at[l] /\ client_sock'[l] = client_sock[l]
      BY <1>1, <1>4 DEF Places, Shape
    <2> QED
      BY <2>1, <1>3, UnmovedAt DEF Places, Queued
  <1>5. /\ Len(q) \in Nat \ {0} /\ c = q[1] /\ Len(Tail(q)) = Len(q) - 1
        /\ \A i \in 1..Len(Tail(q)) : Tail(q)[i] = q[i + 1]
    BY <1>1
  <1>6. /\ \A i \in 1..Len(q) : q[i] \in Fresh(k)'
        /\ Once(q)
    BY <1>3 DEF Places, Queued, QueuedAt
  <1>7. queue'[k] = Tail(q) /\ client_sock'[k] = c
    BY <1>1 DEF Places, Shape
  <1>8. 1 \in 1..Len(q) /\ \A i \in 1..Len(Tail(q)) : i + 1 \in 1..Len(q) /\ i + 1 # 1
    BY <1>5
  <1>9. /\ c \in Fresh(k)'
        /\ \A i \in 1..Len(Tail(q)) : Tail(q)[i] \in Fresh(k)'
    BY <1>5, <1>6, <1>8
  <1>10. \A i \in 1..Len(Tail(q)) : Tail(q)[i] # c
    BY <1>5, <1>6, <1>8 DEF Once
  <1>11. Once(Tail(q))
    BY <1>5, <1>6, <1>8 DEF Once
  <1>12. QueuedAt(k)'
    BY <1>7, <1>9, <1>10, <1>11 DEF QueuedAt
  <1> QED
    BY <1>2, <1>4, <1>12 DEF Places, Queued

(* The connection in the handshake is in no queue and in no other handshake.*)
LEMMA HandshakeDoneKeeps == ASSUME Places, NEW k \in Listeners, HandshakeDone(k) PROVE Places'
  <1> DEFINE c == client_sock[k]
  <1>1. /\ at[k] = "handshake" /\ at' = [at EXCEPT ![k] = "accept"]
        /\ conn_stream' = [conn_stream EXCEPT ![k] = c]
        /\ handler' \in {handler, [handler EXCEPT ![c] = "running"]}
        /\ UNCHANGED <<queue, client_sock, client>>
    BY DEF HandshakeDone, Goto, clients
  <1>2. c \in Fresh(k) /\ \A i \in 1..Len(queue[k]) : queue[k][i] # c
    BY <1>1 DEF Places, Queued, QueuedAt
  <1>3. Shape' /\ Served'
    BY <1>1, <1>2 DEF Places, Shape, Served, Fresh
  <1>4. \A x, l : x \in Fresh(l) /\ x # c => x \in Fresh(l)'
    BY <1>1 DEF Fresh, Places, Shape
  <1>5. \A x, l : x \in Fresh(l) /\ l # k => x \in Fresh(l)'
    BY <1>2, <1>4 DEF Fresh
  <1>6. ASSUME NEW l \in Listeners, l # k PROVE QueuedAt(l)'
    <2>1. queue'[l] = queue[l] /\ at'[l] = at[l] /\ client_sock'[l] = client_sock[l]
      BY <1>1, <1>6 DEF Places, Shape
    <2>2. \A x : x \in Fresh(l) => x \in Fresh(l)'
      BY <1>5, <1>6
    <2> QED
      BY <2>1, <2>2, UnmovedAt DEF Places, Queued
  <1>7. QueuedAt(k)'
    BY <1>1, <1>2, <1>4 DEF Places, Queued, QueuedAt, Shape
  <1> QED
    BY <1>3, <1>6, <1>7 DEF Places, Queued

LEMMA PlacesInductive == ASSUME Places, [Next]_vars PROVE Places'
  <1>0. ASSUME Shape', Served', UNCHANGED queue,
               \A l \in Listeners : at'[l] = "handshake" =>
                                       at[l] = "handshake" /\ client_sock'[l] = client_sock[l],
               \A c, l : c \in Fresh(l) => c \in Fresh(l)'
        PROVE  Places'
    <2>1. ASSUME NEW l \in Listeners PROVE QueuedAt(l)'
      BY <1>0, UnmovedAt DEF Places, Queued
    <2> QED
      BY <1>0, <2>1 DEF Places, Queued
  <1>1. ASSUME NEW l \in Listeners, Load(l) \/ AcceptFails(l) \/ HandshakeFails(l) PROVE Places'
    <2>1. /\ UNCHANGED <<queue, client_sock, conn_stream, handler, client>>
          /\ at' \in {[at EXCEPT ![l] = "accept"], [at EXCEPT ![l] = "ended"]}
      BY <1>1 DEF Load, AcceptFails, HandshakeFails, Goto, clients
    <2>2. Shape' /\ Served'
      BY <2>1 DEF Places, Shape, Served
    <2>3. \A x \in Listeners : at'[x] = "handshake" => at[x] = "handshake"
      BY <2>1 DEF Places, Shape
    <2>4. \A c, x : c \in Fresh(x) => c \in Fresh(x)'
      BY <2>1 DEF Fresh
    <2> QED
      BY <1>0, <2>1, <2>2, <2>3, <2>4
  <1>2. ASSUME NEW c \in Clients, Hello(c) \/ Send(c) \/ Leave(c) PROVE Places'
    <2>1. /\ UNCHANGED <<queue, at, client_sock, conn_stream, handler>>
          /\ client' \in {client, [client EXCEPT ![c] = "talking"], [client EXCEPT ![c] = "left"]}
      BY <1>2 DEF Hello, Send, Leave, listening
    <2>2. Shape' /\ Served' /\ \A x \in Clients : client[x] # "new" => client'[x] # "new"
      BY <2>1 DEF Places, Shape, Served
    <2>3. \A x, l : x \in Fresh(l) => x \in Fresh(l)'
      BY <2>1, <2>2 DEF Fresh
    <2> QED
      BY <1>0, <2>1, <2>2, <2>3
  <1>3. ASSUME NEW c \in Clients, Handle(c) PROVE Places'
    <2>1. /\ UNCHANGED <<queue, at, client_sock, conn_stream, client>>
          /\ handler[c] = "running"
          /\ handler' \in {handler, [handler EXCEPT ![c] = "ended"]}
      BY <1>3 DEF Handle, Echo, EndOfStream, End, listening, clients
    <2>2. Shape' /\ Served'
      BY <2>1 DEF Places, Shape, Served
    <2>3. \A x, l : x \in Fresh(l) => x \in Fresh(l)'
      BY <2>1 DEF Fresh, Places, Shape
    <2> QED
      BY <1>0, <2>1, <2>2, <2>3
  <1>4. CASE UNCHANGED vars
    <2>1. UNCHANGED <<queue, at, client_sock, conn_stream, client, handler>>
      BY <1>4 DEF vars, listening, clients
    <2>2. Shape' /\ Served' /\ \A x, l : x \in Fresh(l) => x \in Fresh(l)'
      BY <2>1 DEF Places, Shape, Served, Fresh
    <2> QED
      BY <1>0, <2>1, <2>2
  <1> QED
    BY <1>1, <1>2, <1>3, <1>4, ConnectKeeps, AcceptKeeps, HandshakeDoneKeeps DEF Next, Listen
LEMMA PlacesAlways == Spec => []Places
  <1>1. ASSUME Init PROVE Places
    <2>1. Shape /\ Served
      BY <1>1 DEF Init, Shape, Served
    <2>2. ASSUME NEW l \in Listeners PROVE QueuedAt(l)
      <3>1. queue[l] = <<>> /\ at[l] = "load" /\ Len(queue[l]) = 0
        BY <1>1 DEF Init
      <3> QED
        BY <3>1 DEF QueuedAt, Once
    <2> QED
      BY <2>1, <2>2 DEF Places, Queued
  <1> QED
    BY <1>1, PlacesInductive, PTL DEF Spec

-----------------------------------------------------------------------------
(* Why the process has a descriptor of c. *)
Used(c) == LET l == ListenerOf[c] IN
  \/ at[l] = "handshake" /\ client_sock[l] = c
  \/ handler[c] = "running"
  \/ handler[c] = "none" /\ conn_stream[l] = c

Leakless == fds \subseteq Clients /\ \A c \in fds : Used(c)

LEMMA AcceptLeakless ==
  ASSUME Places, Leakless, NEW k \in Listeners, Accept(k) PROVE Leakless'
  <1> DEFINE a == Head(queue[k])
  <1>1. /\ at[k] = "accept" /\ at' = [at EXCEPT ![k] = "handshake"]
        /\ client_sock' = [client_sock EXCEPT ![k] = a]
        /\ fds' = fds \cup {a} /\ UNCHANGED <<handler, conn_stream>>
        /\ a \in Clients /\ a = queue[k][1] /\ 1 \in 1..Len(queue[k])
    BY DEF Accept, Goto, Places, Shape
  <1>2. ListenerOf[a] = k
    BY <1>1 DEF Places, Queued, QueuedAt, Fresh
  <1> HIDE DEF a
  <1>3. at'[k] = "handshake" /\ client_sock'[k] = a
    BY <1>1 DEF Places, Shape
  <1>4. ASSUME NEW c \in fds', c # a PROVE Used(c)'
    <2>1. Used(c) /\ ListenerOf[c] \in Listeners
      BY <1>1, <1>4, TlsAssumption DEF Leakless
    <2>2. CASE ListenerOf[c] = k
      BY <1>1, <2>1, <2>2 DEF Used
    <2>3. CASE ListenerOf[c] # k
      BY <1>1, <2>1, <2>3 DEF Used, Places, Shape
    <2> QED
      BY <2>2, <2>3
  <1>5. \A c \in fds' : c = a => Used(c)'
    BY <1>2, <1>3 DEF Used
  <1> QED
    BY <1>1, <1>4, <1>5 DEF Leakless

LEMMA HandshakeFailsLeakless ==
  ASSUME Places, Leakless, NEW k \in Listeners, HandshakeFails(k) PROVE Leakless'
  <1>1. /\ at[k] = "handshake" /\ at' = [at EXCEPT ![k] = "accept"]
        /\ fds' = fds \ {client_sock[k]} /\ UNCHANGED <<handler, client_sock, conn_stream>>
    BY DEF HandshakeFails, Goto
  <1>2. ASSUME NEW c \in fds' PROVE Used(c)'
    BY <1>1, TlsAssumption DEF Leakless, Used, Places, Shape
  <1> QED
    BY <1>1, <1>2 DEF Leakless

(* The connection whose place conn_stream takes had a handler, or it is    *)
(* closed.                                                                 *)
LEMMA HandshakeDoneLeakless ==
  ASSUME Places, Leakless, NEW k \in Listeners, HandshakeDone(k) PROVE Leakless'
  <1> DEFINE a == client_sock[k]
  <1>1. /\ at[k] = "handshake" /\ at' = [at EXCEPT ![k] = "accept"]
        /\ conn_stream' = [conn_stream EXCEPT ![k] = a]
        /\ handler' \in {handler, [handler EXCEPT ![a] = "running"]}
        /\ fds' = Rebound(k) /\ UNCHANGED client_sock
    BY DEF HandshakeDone, Goto
  <1>2. /\ a \in Clients /\ ListenerOf[a] = k /\ handler[a] = "none"
    BY <1>1 DEF Places, Queued, QueuedAt, Fresh
  <1>3. fds' \subseteq fds
    BY <1>1 DEF Rebound
  <1>4. ASSUME NEW c \in fds' PROVE Used(c)'
    <2>1. Used(c) /\ c \in Clients /\ ListenerOf[c] \in Listeners
      BY <1>3, <1>4, TlsAssumption DEF Leakless
    <2>2. CASE c = a
      BY <1>1, <1>2, <2>2 DEF Used, Places, Shape
    <2>3. CASE c # a /\ ListenerOf[c] = k
      <3>1. handler[c] = "running" \/ (handler[c] = "none" /\ conn_stream[k] = c)
        BY <2>1, <2>3 DEF Used
      <3>2. ~(handler[c] = "none" /\ conn_stream[k] = c)
        BY <1>1, <1>4, <2>1, TlsAssumption DEF Rebound
      <3> QED
        BY <1>1, <2>1, <2>3, <3>1, <3>2 DEF Used, Places, Shape
    <2>4. CASE ListenerOf[c] # k
      BY <1>1, <1>2, <2>1, <2>4 DEF Used, Places, Shape
    <2> QED
      BY <2>2, <2>3, <2>4
  <1> QED
    BY <1>3, <1>4 DEF Leakless

LEMMA HandleLeakless ==
  ASSUME Places, Leakless, NEW a \in Clients, Handle(a) PROVE Leakless'
  <1>1. /\ UNCHANGED <<at, client_sock, conn_stream>>
        /\ \/ handler' = [handler EXCEPT ![a] = "ended"] /\ fds' = fds \ {a}
           \/ UNCHANGED <<handler, fds>>
    BY DEF Handle, Echo, EndOfStream, End, listening
  <1>2. ASSUME NEW c \in fds' PROVE Used(c)'
    BY <1>1 DEF Leakless, Used, Places, Shape
  <1> QED
    BY <1>1, <1>2 DEF Leakless

LEMMA LeaklessInductive == ASSUME Places, Leakless, [Next]_vars PROVE Leakless'
  <1>1. ASSUME NEW l \in Listeners, Load(l) \/ AcceptFails(l) PROVE Leakless'
    <2>1. /\ at[l] \in {"load", "accept"} /\ UNCHANGED <<fds, client_sock, conn_stream, handler>>
          /\ at' \in {[at EXCEPT ![l] = "accept"], [at EXCEPT ![l] = "ended"]}
      BY <1>1 DEF Load, AcceptFails, Goto
    <2>2. ASSUME NEW c \in fds PROVE Used(c)'
      BY <2>1, TlsAssumption DEF Leakless, Used, Places, Shape
    <2> QED
      BY <2>1, <2>2 DEF Leakless
  <1>2. ASSUME UNCHANGED <<at, client_sock, conn_stream, handler, fds>> PROVE Leakless'
    BY <1>2 DEF Leakless, Used
  <1>3. ASSUME NEW c \in Clients, Connect(c) \/ Hello(c) \/ Send(c) \/ Leave(c) PROVE Leakless'
    BY <1>2, <1>3 DEF Connect, Hello, Send, Leave, listening
  <1>4. CASE UNCHANGED vars
    BY <1>2, <1>4 DEF vars, listening
  <1> QED
    BY <1>1, <1>3, <1>4, AcceptLeakless, HandshakeFailsLeakless, HandshakeDoneLeakless,
       HandleLeakless DEF Next, Listen

(* However handshakes fail and clients stay silent or leave, every         *)
(* descriptor is in use, but for one of each listener.                     *)
THEOREM LeakFree == Spec => []NoLeak
  <1>1. Init => Leakless
    BY DEF Init, Leakless
  <1>2. Leakless => NoLeak
    BY DEF Leakless, Used, NoLeak
  <1> QED
    BY <1>1, <1>2, PlacesAlways, LeaklessInductive, PTL DEF Spec

-----------------------------------------------------------------------------
(* What TypeOK says beyond Shape. *)
Rest == /\ bound \subseteq Listeners
        /\ \A l \in Listeners : at[l] \in {"accept", "handshake"} => l \in bound
        /\ unread \in [Clients -> Nat] /\ sent \in [Clients -> 0..MaxSends]

Descriptors == IsFiniteSet(fds) /\ Cardinality(fds) <= MaxFds

LEMMA RestInductive == ASSUME Places, Rest, [Next]_vars PROVE Rest'
  <1> USE DEF Rest, Places, Shape, Goto
  <1>1. ASSUME NEW l \in Listeners, Listen(l) PROVE Rest'
    <2>1. UNCHANGED <<unread, sent>>
      BY <1>1 DEF Listen, Load, Accept, AcceptFails, HandshakeFails, HandshakeDone, clients
    <2>2. bound' \subseteq Listeners
          /\ \A k \in Listeners : at'[k] \in {"accept", "handshake"} => k \in bound'
      BY <1>1 DEF Listen, Load, Accept, AcceptFails, HandshakeFails, HandshakeDone
    <2> QED
      BY <2>1, <2>2
  <1>2. ASSUME NEW c \in Clients, Connect(c) \/ Hello(c) \/ Leave(c) \/ EndOfStream(c) PROVE Rest'
    BY <1>2 DEF Connect, Hello, Leave, EndOfStream, listening, clients
  <1>3. ASSUME NEW c \in Clients, Send(c) PROVE Rest'
    <2>1. UNCHANGED <<at, bound>> /\ sent[c] < MaxSends
          /\ sent' = [sent EXCEPT ![c] = @ + 1] /\ unread' = [unread EXCEPT ![c] = @ + 1]
      BY <1>3 DEF Send, listening
    <2>2. sent[c] + 1 \in 0..MaxSends
      BY <2>1, TlsAssumption
    <2> QED
      BY <2>1, <2>2
  <1>4. ASSUME NEW c \in Clients, Echo(c) PROVE Rest'
    BY <1>4 DEF Echo, listening, clients
  <1>5. CASE UNCHANGED vars
    BY <1>5 DEF vars, listening, clients
  <1> QED
    BY <1>1, <1>2, <1>3, <1>4, <1>5 DEF Next, Handle

LEMMA DescriptorsInductive == ASSUME Descriptors, [Next]_vars PROVE Descriptors'
  <1>1. \A S : S \subseteq fds => IsFiniteSet(S) /\ Cardinality(S) <= MaxFds
    BY FS_Subset, FS_CardinalityType, TlsAssumption DEF Descriptors
  <1>2. ASSUME NEW l \in Listeners, Accept(l) PROVE Descriptors'
    <2>1. fds' = fds \cup {Head(queue[l])} /\ Cardinality(fds) < MaxFds
      BY <1>2 DEF Accept
    <2>2. IsFiniteSet(fds') /\ \/ Cardinality(fds') = Cardinality(fds)
                               \/ Cardinality(fds') = Cardinality(fds) + 1
      BY <2>1, FS_AddElement DEF Descriptors
    <2>3. Cardinality(fds) \in Nat
      BY FS_CardinalityType DEF Descriptors
    <2> QED
      BY <2>1, <2>2, <2>3, TlsAssumption DEF Descriptors
  <1>3. CASE fds' \subseteq fds
    BY <1>1, <1>3 DEF Descriptors
  <1>4. ASSUME NEW l \in Listeners, Load(l) \/ AcceptFails(l) \/ HandshakeFails(l) \/ HandshakeDone(l)
        PROVE  fds' \subseteq fds
    BY <1>4 DEF Load, AcceptFails, HandshakeFails, HandshakeDone, Rebound
  <1>5. ASSUME NEW c \in Clients,
               Connect(c) \/ Hello(c) \/ Send(c) \/ Leave(c) \/ Echo(c) \/ EndOfStream(c)
        PROVE  fds' \subseteq fds
    BY <1>5 DEF Connect, Hello, Send, Leave, Echo, EndOfStream, End
  <1>6. UNCHANGED vars => fds' \subseteq fds
    BY DEF vars
  <1> QED
    BY <1>2, <1>3, <1>4, <1>5, <1>6 DEF Next, Listen, Handle

(* Threads, queues and descriptors refer to connections, and the process   *)
(* never has more descriptors than it may.                                 *)
THEOREM TypeCorrect == Spec => []TypeOK
  <1>1. Init => Rest
    BY TlsAssumption DEF Init, Rest
  <1>2. Init => Descriptors
    BY FS_EmptySet, TlsAssumption DEF Init, Descriptors
  <1>3. Init => Leakless
    BY DEF Init, Leakless
  <1>4. Places /\ Rest /\ Descriptors /\ Leakless => TypeOK
    BY TlsAssumption DEF Places, Shape, Queued, QueuedAt, Fresh, Rest, Descriptors, Leakless, TypeOK
  <1> QED
    BY <1>1, <1>2, <1>3, <1>4, PlacesAlways, RestInductive, DescriptorsInductive,
       LeaklessInductive, PTL DEF Spec
=============================================================================
