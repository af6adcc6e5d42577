------------------------- MODULE EchoServerProofs -------------------------
(***************************************************************************)
(* Proofs about EchoServer, for any number of clients and chunks.          *)
(***************************************************************************)
EXTENDS EchoServer, TLAPS

(* The part of the types the arguments below need. *)
Shape == /\ held \in [Conns -> SUBSET Procs]
         /\ handler \in [Conns -> {"none", "running", "ended"}]
         /\ queue["tcp"] \in Seq(TcpClients) /\ queue["kill"] \in Seq(KillClients)
         /\ DOMAIN queue = {"tcp", "kill"}
         /\ sock \in Conns \cup {Polling}

(* A listener that is ready stays ready until it is served. *)
ReadyPending == /\ "tcp" \in ready => queue["tcp"] # <<>>
                /\ "kill" \in ready => queue["kill"] # <<>>

(* Children that hold anything are alive. *)
HeldByLive == \A c \in Conns : \A k \in KillClients : k \in held[c] => handler[k] = "running"

Descriptors == Shape /\ ReadyPending /\ KillIsolation /\ MainKeepsLast /\ HeldByLive

(* The clients of a listener. *)
Listening(l) == IF l = "tcp" THEN TcpClients ELSE KillClients

LEMMA Names ==
  /\ TcpClients \cap KillClients = {} /\ Conns = TcpClients \cup KillClients
  /\ Main \notin Conns /\ Polling \notin Conns /\ Procs = {Main} \cup KillClients
  BY ConnAssumption DEF Conns, Procs

(* Binding client_sock again leaves the main process without a connection  *)
(* of the kill port.                                                       *)
LEMMA ReboundClean ==
  ASSUME Descriptors
  PROVE  /\ Rebound \in [Conns -> SUBSET Procs]
         /\ \A c \in Conns : Rebound[c] \subseteq held[c]
         /\ \A c \in Conns : \A k \in KillClients : k \in Rebound[c] => k \in held[c]
         /\ \A t \in TcpClients : Rebound[t] = held[t]
         /\ \A k \in KillClients : Rebound[k] \subseteq {k}
  <1>1. ASSUME NEW k \in KillClients PROVE Rebound[k] \subseteq {k}
    BY Names DEF Descriptors, Shape, KillIsolation, MainKeepsLast, Rebound
  <1> QED
    BY <1>1, Names DEF Descriptors, Shape, Rebound

LEMMA AcceptTcpKeeps == ASSUME Descriptors, AcceptTcp PROVE Descriptors'
  <1> DEFINE c == Head(queue["tcp"])
  <1>1. /\ "tcp" \in ready /\ ready' = ready \ {"tcp"}
        /\ sock' = c /\ held' = [Rebound EXCEPT ![c] = {Main}]
        /\ handler' = [handler EXCEPT ![c] = "running"]
        /\ queue' = [queue EXCEPT !["tcp"] = Tail(@)]
    BY DEF AcceptTcp, Turn, First
  <1>2. c \in TcpClients /\ Tail(queue["tcp"]) \in Seq(TcpClients)
    BY <1>1 DEF Descriptors, ReadyPending, Shape
  <1> HIDE DEF c
  <1>3. Shape'
    <2>1. queue'["tcp"] \in Seq(TcpClients) /\ queue'["kill"] \in Seq(KillClients)
          /\ DOMAIN queue' = {"tcp", "kill"}
      BY <1>1, <1>2 DEF Descriptors, Shape
    <2>2. held' \in [Conns -> SUBSET Procs]
      BY <1>1, ReboundClean, Names
    <2>3. handler' \in [Conns -> {"none", "running", "ended"}]
      BY <1>1 DEF Descriptors, Shape
    <2> QED
      BY <1>1, <1>2, <2>1, <2>2, <2>3, Names DEF Shape
  <1>4. ReadyPending'
    BY <1>1 DEF Descriptors, ReadyPending, Shape
  <1>5. \A k \in KillClients : held'[k] \subseteq {k}
    BY <1>1, <1>2, ReboundClean, Names
  <1>6. KillIsolation' /\ MainKeepsLast'
    BY <1>5, Names DEF KillIsolation, MainKeepsLast
  <1>7. HeldByLive'
    BY <1>1, <1>2, ReboundClean, Names DEF Descriptors, HeldByLive, Shape
  <1> QED
    BY <1>3, <1>4, <1>6, <1>7 DEF Descriptors

LEMMA AcceptKillKeeps == ASSUME Descriptors, AcceptKill PROVE Descriptors'
  <1> DEFINE k == Head(queue["kill"])
  <1>1. /\ "kill" \in ready /\ ready' = ready \ {"kill"}
        /\ sock' = k
        /\ held' = [c \in Conns |-> IF c = k THEN {Main, k}
                                    ELSE IF Main \in Rebound[c] THEN Rebound[c] \cup {k}
                                    ELSE Rebound[c]]
        /\ handler' = [handler EXCEPT ![k] = "running"]
        /\ queue' = [queue EXCEPT !["kill"] = Tail(@)]
    BY DEF AcceptKill, Turn, First
  <1>2. k \in KillClients /\ Tail(queue["kill"]) \in Seq(KillClients)
    BY <1>1 DEF Descriptors, ReadyPending, Shape
  <1> HIDE DEF k
  <1>3. Shape'
    <2>1. queue'["tcp"] \in Seq(TcpClients) /\ queue'["kill"] \in Seq(KillClients)
          /\ DOMAIN queue' = {"tcp", "kill"}
      BY <1>1, <1>2 DEF Descriptors, Shape
    <2>2. held' \in [Conns -> SUBSET Procs]
      BY <1>1, <1>2, ReboundClean, Names
    <2>3. handler' \in [Conns -> {"none", "running", "ended"}]
      BY <1>1 DEF Descriptors, Shape
    <2> QED
      BY <1>1, <1>2, <2>1, <2>2, <2>3, Names DEF Shape
  <1>4. ReadyPending'
    BY <1>1 DEF Descriptors, ReadyPending, Shape
  <1>5. \A j \in KillClients : held'[j] \subseteq (IF j = k THEN {Main, k} ELSE {j})
    BY <1>1, <1>2, ReboundClean, Names
  <1>6. KillIsolation' /\ MainKeepsLast'
    BY <1>1, <1>5, Names DEF KillIsolation, MainKeepsLast
  <1>7. HeldByLive'
    BY <1>1, <1>2, ReboundClean, Names DEF Descriptors, HeldByLive, Shape
  <1> QED
    BY <1>3, <1>4, <1>6, <1>7 DEF Descriptors

LEMMA EndKeeps ==
  ASSUME Descriptors, NEW c \in Conns, End(c), UNCHANGED mainVars
  PROVE  Descriptors'
  <1>1. held' \in [Conns -> SUBSET Procs] /\ \A x \in Conns : held'[x] \subseteq held[x]
    BY DEF Descriptors, Shape, End
  <1>2. handler' = [handler EXCEPT ![c] = "ended"]
    BY DEF End
  <1>3. Shape' /\ ReadyPending'
    BY <1>1, <1>2 DEF Descriptors, Shape, ReadyPending, mainVars
  <1>4. KillIsolation' /\ MainKeepsLast'
    BY <1>1, Names DEF Descriptors, KillIsolation, MainKeepsLast, mainVars
  <1>5. CASE c \in KillClients
    <2>1. \A x \in Conns : c \notin held'[x]
      BY <1>5 DEF End, Killable
    <2> QED
      BY <1>1, <1>2, <1>3, <1>4, <1>5, <2>1, Names DEF Descriptors, HeldByLive, Shape
  <1>6. CASE c \in TcpClients
    BY <1>1, <1>2, <1>3, <1>4, <1>6, Names DEF Descriptors, HeldByLive, Shape
  <1> QED
    BY <1>5, <1>6, Names

(* What StartRaises takes from the queue of a listener. *)
LEMMA StartRaisesTakes ==
  ASSUME Descriptors, NEW l \in {"tcp", "kill"}, StartRaises(l)
  PROVE  /\ l \in ready /\ queue[l] # <<>> /\ queue' = [queue EXCEPT ![l] = Tail(@)]
         /\ Head(queue[l]) \in Listening(l) /\ sock' = Head(queue[l]) /\ ready' = {}
         /\ held' = [Rebound EXCEPT ![Head(queue[l])] = {Main}]
         /\ UNCHANGED <<pollers, polls, clientVars, inbox, handler, data>>
  <1>1. l \in ready
    BY DEF StartRaises, First
  <1>2. queue[l] # <<>> /\ queue[l] \in Seq(Listening(l))
    BY <1>1 DEF Descriptors, ReadyPending, Shape, Listening
  <1>3. Head(queue[l]) \in Listening(l)
    BY <1>2
  <1>4. /\ queue' = [queue EXCEPT ![l] = Tail(@)] /\ sock' = Head(queue[l]) /\ ready' = {}
        /\ held' = [Rebound EXCEPT ![sock'] = {Main}]
        /\ UNCHANGED <<pollers, polls, clientVars, inbox, handler, data>>
    BY DEF StartRaises
  <1> QED
    BY <1>1, <1>2, <1>3, <1>4

LEMMA StartRaisesKeeps ==
  ASSUME Descriptors, NEW l \in {"tcp", "kill"}, StartRaises(l) PROVE Descriptors'
  <1> DEFINE c == Head(queue[l])
  <1>1. /\ queue[l] # <<>> /\ queue' = [queue EXCEPT ![l] = Tail(@)] /\ c \in Listening(l)
        /\ sock' = c /\ ready' = {} /\ held' = [Rebound EXCEPT ![c] = {Main}]
        /\ handler' = handler
    BY StartRaisesTakes
  <1>2. c \in Conns /\ queue[l] \in Seq(Listening(l)) /\ Tail(queue[l]) \in Seq(Listening(l))
    <2>1. queue[l] \in Seq(Listening(l))
      BY DEF Listening, Descriptors, Shape
    <2>2. Tail(queue[l]) \in Seq(Listening(l))
      BY <1>1, <2>1
    <2> QED
      BY <1>1, <2>1, <2>2, Names DEF Listening
  <1> HIDE DEF c
  <1>3. Shape'
    <2>1. queue'["tcp"] \in Seq(TcpClients) /\ queue'["kill"] \in Seq(KillClients)
          /\ DOMAIN queue' = {"tcp", "kill"}
      BY <1>1, <1>2 DEF Descriptors, Shape, Listening
    <2>2. held' \in [Conns -> SUBSET Procs]
      BY <1>1, <1>2, ReboundClean, Names
    <2> QED
      BY <1>1, <1>2, <2>1, <2>2 DEF Shape, Descriptors
  <1>4. ReadyPending'
    BY <1>1 DEF ReadyPending
  <1>5. \A k \in KillClients : held'[k] \subseteq (IF k = c THEN {Main} ELSE {k})
    BY <1>1, <1>2, ReboundClean, Names
  <1>6. KillIsolation' /\ MainKeepsLast'
    BY <1>1, <1>5, Names DEF KillIsolation, MainKeepsLast
  <1>7. HeldByLive'
    BY <1>1, <1>2, ReboundClean, Names DEF Descriptors, HeldByLive, Shape
  <1> QED
    BY <1>3, <1>4, <1>6, <1>7 DEF Descriptors

LEMMA ExitKeeps == ASSUME Descriptors, Exit PROVE Descriptors'
  <1>1. /\ sock' = Polling /\ ready' = {} /\ queue' = [l \in {"tcp", "kill"} |-> <<>>]
        /\ held' = [c \in Conns |-> held[c] \ {Main}]
        /\ handler' = [c \in Conns |-> IF handler[c] = "running" THEN "ended" ELSE handler[c]]
        /\ \A k \in KillClients : handler[k] # "running"
    BY DEF Exit
  <1>2. \A c \in Conns : held'[c] = {}
    BY <1>1, Names DEF Descriptors, Shape, HeldByLive
  <1>3. Shape'
    BY <1>1 DEF Descriptors, Shape
  <1> QED
    BY <1>1, <1>2, <1>3, Names
       DEF Descriptors, ReadyPending, KillIsolation, MainKeepsLast, HeldByLive

LEMMA DescriptorsInductive == ASSUME Descriptors, [Next]_vars PROVE Descriptors'
  <1>1. ASSUME UNCHANGED <<queue, ready, sock, handler, held>> PROVE Descriptors'
    BY <1>1 DEF Descriptors, Shape, ReadyPending, KillIsolation, MainKeepsLast, HeldByLive
  <1>2. ASSUME NEW c \in Conns, Connect(c) PROVE Descriptors'
    <2>1. /\ queue' = [queue EXCEPT ![Listener(c)] = Append(@, c)]
          /\ UNCHANGED <<ready, sock, handler, held>>
      BY <1>2 DEF Connect
    <2>2. /\ queue'["tcp"] \in Seq(TcpClients) /\ queue'["kill"] \in Seq(KillClients)
          /\ DOMAIN queue' = {"tcp", "kill"}
          /\ queue["tcp"] # <<>> => queue'["tcp"] # <<>>
          /\ queue["kill"] # <<>> => queue'["kill"] # <<>>
      <3>1. CASE c \in TcpClients
        <4>1. /\ queue'["tcp"] = Append(queue["tcp"], c) /\ queue'["kill"] = queue["kill"]
              /\ DOMAIN queue' = {"tcp", "kill"}
          BY <2>1, <3>1 DEF Descriptors, Shape, Listener
        <4> QED
          BY <3>1, <4>1 DEF Descriptors, Shape
      <3>2. CASE c \in KillClients
        <4>1. /\ queue'["kill"] = Append(queue["kill"], c) /\ queue'["tcp"] = queue["tcp"]
              /\ DOMAIN queue' = {"tcp", "kill"}
          BY <2>1, <3>2, Names DEF Descriptors, Shape, Listener
        <4> QED
          BY <3>2, <4>1 DEF Descriptors, Shape
      <3> QED
        BY <3>1, <3>2 DEF Conns
    <2> QED
      BY <2>1, <2>2 DEF Descriptors, Shape, ReadyPending, KillIsolation, MainKeepsLast, HeldByLive
  <1>3. CASE Select
    BY <1>3 DEF Select, Pending, Listeners, Descriptors, Shape, ReadyPending, KillIsolation,
                MainKeepsLast, HeldByLive
  <1>4. CASE AcceptPoll
    <2>1. /\ sock' = Polling /\ held' = Rebound /\ UNCHANGED <<queue, handler>>
          /\ ready' \subseteq ready
      BY <1>4 DEF AcceptPoll, Turn, First
    <2> QED
      BY <2>1, ReboundClean, Names
         DEF Descriptors, Shape, ReadyPending, KillIsolation, MainKeepsLast, HeldByLive
  <1>5. ASSUME NEW c \in Conns, Send(c) \/ Leave(c) PROVE Descriptors'
    BY <1>1, <1>5 DEF Send, Leave, mainVars
  <1>6. ASSUME NEW c \in Conns, Handle(c) \/ Timeout(c) PROVE Descriptors'
    <2>1. UNCHANGED mainVars /\ (End(c) \/ UNCHANGED <<handler, held>>)
      BY <1>6 DEF Handle, Timeout
    <2> QED
      BY <1>1, <2>1, EndKeeps DEF mainVars
  <1>7. CASE Poll \/ PollHandle \/ UNCHANGED vars
    BY <1>1, <1>7 DEF Poll, PollHandle, vars, mainVars
  <1>8. CASE LoopRaises
    BY <1>8 DEF LoopRaises, Descriptors, Shape, ReadyPending, KillIsolation, MainKeepsLast, HeldByLive
  <1>9. CASE StartRaises("poll")
    <2>1. /\ sock' = Polling /\ held' = Rebound /\ UNCHANGED <<queue, handler>> /\ ready' = {}
      BY <1>9 DEF StartRaises
    <2> QED
      BY <2>1, ReboundClean, Names
         DEF Descriptors, Shape, ReadyPending, KillIsolation, MainKeepsLast, HeldByLive
  <1> QED
    BY <1>2, <1>3, <1>4, <1>5, <1>6, <1>7, <1>8, <1>9, AcceptTcpKeeps, AcceptKillKeeps,
       StartRaisesKeeps, ExitKeeps DEF Next, MainStep, Listeners

LEMMA DescriptorsAlways == Spec => []Descriptors
  <1>1. Init => Descriptors
    BY Names DEF Init, Descriptors, Shape, ReadyPending, KillIsolation, MainKeepsLast, HeldByLive
  <1> QED
    BY <1>1, DescriptorsInductive, PTL DEF Spec

(* However many children are forked and in whatever order clients come and *)
(* go, no child inherits the connection of another one.                    *)
THEOREM Isolation == Spec => []KillIsolation
  <1>1. Descriptors => KillIsolation
    BY DEF Descriptors
  <1> QED
    BY <1>1, DescriptorsAlways, PTL

(* The main process holds at most the kill connection it accepted last. *)
THEOREM OnlyLast == Spec => []MainKeepsLast
  <1>1. Descriptors => MainKeepsLast
    BY DEF Descriptors
  <1> QED
    BY <1>1, DescriptorsAlways, PTL

-----------------------------------------------------------------------------
(* Each round of the loop takes its own connection before making another.  *)
PollRound == /\ polls \in {0, 1}
             /\ loop \in {"select", "accept", "poll", "ended", "gone"}
             /\ loop = "poll" => polls = 0
             /\ loop = "accept" => polls = IF "poll" \in ready THEN 1 ELSE 0

LEMMA PollRoundInductive == ASSUME PollRound, [Next]_vars PROVE PollRound'
  <1> USE DEF PollRound
  <1>1. CASE Select
    BY <1>1 DEF Select, Pending, Listeners
  <1>2. CASE AcceptTcp \/ AcceptKill
    BY <1>2 DEF AcceptTcp, AcceptKill, Turn, First
  <1>3. CASE AcceptPoll
    <2>1. loop = "accept" /\ ready = {"poll"} /\ polls' = polls - 1 /\ loop' = "poll"
      BY <1>3 DEF AcceptPoll, Turn, First
    <2> QED
      BY <2>1
  <1>4. CASE Poll
    BY <1>4 DEF Poll
  <1>5. CASE UNCHANGED <<polls, loop, ready>>
    BY <1>5
  <1>6. CASE LoopRaises \/ Exit
    BY <1>6 DEF LoopRaises, Exit
  <1>7. ASSUME NEW l \in Listeners, StartRaises(l) PROVE PollRound'
    <2>1. /\ loop = "accept" /\ loop' = "ended"
          /\ l = "poll" => ready = {"poll"}
          /\ polls' = IF l = "poll" THEN polls - 1 ELSE polls
      BY <1>7 DEF StartRaises, First
    <2> QED
      BY <2>1
  <1> QED
    BY <1>1, <1>2, <1>3, <1>4, <1>5, <1>6, <1>7
    DEF Next, MainStep, PollHandle, Connect, Send, Leave, Handle, Timeout, vars, mainVars

(* The loop never blocks on its own polling port. *)
THEOREM PollSafe == Spec => []PollNeverBlocks
  <1>1. Init => PollRound
    BY DEF Init, PollRound
  <1>2. PollRound => PollNeverBlocks
    BY DEF PollRound, PollNeverBlocks
  <1> QED
    BY <1>1, <1>2, PollRoundInductive, PTL DEF Spec

-----------------------------------------------------------------------------
(* What of the types Descriptors and PollRound do not say. *)
Typed ==
  /\ ready \subseteq Listeners
  /\ queue \in [{"tcp", "kill"} -> Seq(Conns)]
  /\ pollers \in 0..MaxPollers
  /\ client \in [Conns -> {"idle", "open", "done"}]
  /\ inbox \in [Conns -> Seq(Inputs)]
  /\ sent \in [Conns -> Nat] /\ \A c \in Conns : sent[c] \in 0..MaxChunks[c]
  /\ named \in [Conns -> BOOLEAN]
  /\ got \in [Conns -> Seq(Chunks)] /\ echoed \in [Conns -> Seq(Answers)]

LEMMA TypedHandle == ASSUME Typed, NEW c \in Conns, Handle(c) PROVE Typed'
  <1> DEFINE x == Head(inbox[c])
  <1>1. /\ inbox[c] # <<>> /\ inbox' = [inbox EXCEPT ![c] = Tail(@)]
        /\ named' = [named EXCEPT ![c] = @ \/ x \notin {"bytes", "reset"}]
        /\ got' = [got EXCEPT ![c] = IF x \in Chunks THEN Append(@, x) ELSE @]
        /\ UNCHANGED <<mainVars, clientVars>>
    BY DEF Handle
  <1>2. \/ UNCHANGED echoed
        \/ x \notin {"eof", "reset"} /\ Reply(c, x)
    BY DEF Handle, Ends
  <1>3. x \in Inputs /\ Tail(inbox[c]) \in Seq(Inputs)
    BY <1>1 DEF Typed
  <1> HIDE DEF x
  <1>4. named' \in [Conns -> BOOLEAN]
    <2>1. named[c] \in BOOLEAN
      BY DEF Typed
    <2> DEFINE n == named[c] \/ x \notin {"bytes", "reset"}
    <2>2. n \in BOOLEAN
      OBVIOUS
    <2>3. named' = [named EXCEPT ![c] = n]
      BY <1>1
    <2> HIDE DEF n
    <2> QED
      BY <2>2, <2>3 DEF Typed
  <1>5. got' \in [Conns -> Seq(Chunks)]
    <2>1. CASE x \in Chunks
      <3>1. Append(got[c], x) \in Seq(Chunks)
        BY <2>1 DEF Typed
      <3> QED
        BY <1>1, <2>1, <3>1 DEF Typed
    <2>2. CASE x \notin Chunks
      BY <1>1, <2>2 DEF Typed
    <2> QED
      BY <2>1, <2>2
  <1>6. echoed' \in [Conns -> Seq(Answers)]
    <2>1. CASE UNCHANGED echoed
      BY <2>1 DEF Typed
    <2>2. CASE x \notin {"eof", "reset"} /\ Reply(c, x)
      <3>1. PICK w \in BOOLEAN :
              echoed' = [echoed EXCEPT ![c] = Append(@, [chunk |-> x, whole |-> w])]
        BY <2>2 DEF Reply
      <3>2. [chunk |-> x, whole |-> w] \in Answers
        BY <1>3, <2>2 DEF Inputs, Answers
      <3>3. Append(echoed[c], [chunk |-> x, whole |-> w]) \in Seq(Answers)
        BY <3>2 DEF Typed
      <3> QED
        BY <3>1, <3>3 DEF Typed
    <2> QED
      BY <1>2, <2>1, <2>2
  <1>7. inbox' \in [Conns -> Seq(Inputs)]
    BY <1>1, <1>3 DEF Typed
  <1> QED
    BY <1>1, <1>4, <1>5, <1>6, <1>7 DEF Typed, mainVars, clientVars

LEMMA TypedInductive == ASSUME Typed, Descriptors, [Next]_vars PROVE Typed'
  <1>1. ASSUME NEW c \in Conns, Connect(c) PROVE Typed'
    <2>1. Listener(c) \in {"tcp", "kill"}
      BY DEF Listener
    <2>2. Append(queue[Listener(c)], c) \in Seq(Conns)
      BY <2>1 DEF Typed
    <2> QED
      BY <1>1, <2>1, <2>2 DEF Typed, Connect, data
  <1>2. ASSUME NEW c \in Conns, Send(c) PROVE Typed'
    <2>1. PICK x \in Chunks : inbox' = [inbox EXCEPT ![c] = Append(@, x)]
      BY <1>2 DEF Send
    <2>2. Append(inbox[c], x) \in Seq(Inputs)
      BY DEF Typed, Inputs
    <2>3. inbox' \in [Conns -> Seq(Inputs)]
      BY <2>1, <2>2 DEF Typed
    <2>4. sent' \in [Conns -> Nat] /\ \A d \in Conns : sent'[d] \in 0..MaxChunks[d]
      <3>1. sent[c] < MaxChunks[c] /\ sent' = [sent EXCEPT ![c] = sent[c] + 1]
        BY <1>2 DEF Send
      <3>2. MaxChunks[c] \in Nat /\ sent[c] \in Nat /\ sent[c] + 1 \in 0..MaxChunks[c]
        <4>1. MaxChunks[c] \in Nat
          BY ConnAssumption
        <4>2. sent[c] \in Nat
          BY DEF Typed
        <4> QED
          BY <3>1, <4>1, <4>2
      <3> QED
        BY <3>1, <3>2 DEF Typed
    <2> QED
      BY <1>2, <2>3, <2>4 DEF Typed, Send, mainVars, data
  <1>3. ASSUME NEW c \in Conns, Leave(c) PROVE Typed'
    <2>1. Append(inbox[c], "eof") \in Seq(Inputs) /\ <<"reset">> \in Seq(Inputs)
      BY DEF Typed, Inputs
    <2>2. inbox' \in [Conns -> Seq(Inputs)]
      BY <1>3, <2>1 DEF Typed, Leave
    <2> QED
      BY <1>3, <2>2 DEF Typed, Leave, mainVars, data
  <1>4. CASE Select
    BY <1>4 DEF Select, Typed, clientVars, data
  <1>5. ASSUME NEW l \in {"tcp", "kill"}, l \in ready, queue' = [queue EXCEPT ![l] = Tail(@)],
               ready' = ready \ {l}, UNCHANGED <<pollers, clientVars, inbox, data>>
        PROVE  Typed'
    <2>1. queue[l] # <<>>
      BY <1>5 DEF Descriptors, ReadyPending
    <2>2. Tail(queue[l]) \in Seq(Conns)
      BY <2>1 DEF Typed
    <2> QED
      BY <1>5, <2>2 DEF Typed, clientVars, data
  <1>6. CASE AcceptTcp
    BY <1>5, <1>6 DEF AcceptTcp, Turn, First
  <1>7. CASE AcceptKill
    BY <1>5, <1>7 DEF AcceptKill, Turn, First
  <1>8. CASE AcceptPoll
    <2>1. /\ ready' = ready \ {"poll"} /\ UNCHANGED <<queue, clientVars, inbox, data>>
          /\ pollers < MaxPollers /\ pollers' = pollers + 1
      BY <1>8 DEF AcceptPoll, Turn
    <2>2. pollers' \in 0..MaxPollers
      BY <2>1, ConnAssumption DEF Typed
    <2> QED
      BY <2>1, <2>2 DEF Typed, clientVars, data
  <1>9. ASSUME NEW c \in Conns, Timeout(c) PROVE Typed'
    BY <1>9 DEF Timeout, Typed, mainVars, clientVars, data
  <1>10. CASE Poll \/ PollHandle \/ UNCHANGED vars
    BY <1>10, ConnAssumption DEF Poll, PollHandle, Typed, vars, mainVars, clientVars, data
  <1>11. CASE LoopRaises
    BY <1>11 DEF LoopRaises, Typed, clientVars, data
  <1>12. CASE StartRaises("poll")
    <2>1. ready' = {} /\ UNCHANGED <<queue, pollers, clientVars, inbox, data>>
      BY <1>12 DEF StartRaises
    <2> QED
      BY <2>1 DEF Typed, clientVars, data
  <1>13. ASSUME NEW l \in {"tcp", "kill"}, StartRaises(l) PROVE Typed'
    <2>1. /\ queue[l] # <<>> /\ queue' = [queue EXCEPT ![l] = Tail(@)] /\ ready' = {}
          /\ UNCHANGED <<pollers, clientVars, inbox, data>>
      BY <1>13, StartRaisesTakes
    <2>2. Tail(queue[l]) \in Seq(Conns)
      BY <2>1 DEF Typed
    <2> QED
      BY <2>1, <2>2 DEF Typed, clientVars, data
  <1>14. CASE Exit
    <2>1. /\ ready' = {} /\ pollers' = 0 /\ queue' = [l \in {"tcp", "kill"} |-> <<>>]
          /\ UNCHANGED <<clientVars, inbox, data>>
      BY <1>14 DEF Exit
    <2>2. queue' \in [{"tcp", "kill"} -> Seq(Conns)] /\ pollers' \in 0..MaxPollers
      BY <2>1, ConnAssumption
    <2> QED
      BY <2>1, <2>2 DEF Typed, clientVars, data
  <1> QED
    BY <1>1, <1>2, <1>3, <1>4, <1>6, <1>7, <1>8, <1>9, <1>10, <1>11, <1>12, <1>13, <1>14, TypedHandle
       DEF Next, MainStep, Listeners

(* Whatever is accepted, forked and received in whatever order, the state  *)
(* keeps its shape; in particular no more than a full backlog ever waits   *)
(* on the polling port.                                                    *)
THEOREM TypeCorrect == Spec => []TypeOK
  <1>1. Init => Typed
    BY ConnAssumption DEF Init, Typed
  <1>2. Init => PollRound
    BY DEF Init, PollRound
  <1>3. Typed /\ Descriptors /\ PollRound => TypeOK
    <2>1. PollRound => polls \in 0..Backlog /\ loop \in {"select", "accept", "poll", "ended", "gone"}
      BY ConnAssumption DEF PollRound
    <2> QED
      BY <2>1 DEF Typed, Descriptors, Shape, TypeOK
  <1> QED
    BY <1>1, <1>2, <1>3, TypedInductive, PollRoundInductive, DescriptorsAlways, PTL DEF Spec

-----------------------------------------------------------------------------
(* A connection is accepted once: what waits for a listener has no handler *)
(* yet and waits there once, and a client that has not connected waits     *)
(* nowhere. Without this a handler could start again on a connection whose *)
(* last chunk was never answered.                                          *)
Waiting(l, c) == \E i \in 1..Len(queue[l]) : queue[l][i] = c

AcceptedOnce ==
  \A l \in {"tcp", "kill"} :
    /\ \A c \in Conns : Waiting(l, c) => client[c] # "idle" /\ handler[c] = "none"
    /\ \A i, j \in 1..Len(queue[l]) : queue[l][i] = queue[l][j] => i = j

Untouched == \A c \in Conns : client[c] = "idle" => handler[c] = "none"

InOrder == AcceptedOnce /\ Untouched /\ EchoInOrder
Known == Typed /\ Descriptors

LEMMA FrontAppend ==
  ASSUME NEW S, NEW s \in Seq(S), NEW x \in S
  PROVE  Append(s, x) # <<>> /\ Front(Append(s, x)) = s
  <1>1. Append(s, x) \in Seq(S) /\ Len(Append(s, x)) = Len(s) + 1
    OBVIOUS
  <1>2. SubSeq(Append(s, x), 1, Len(s)) = s
    OBVIOUS
  <1> QED
    BY <1>1, <1>2 DEF Front

(* What is sent back of a chunk answers it. *)
LEMMA ReplyAnswers ==
  ASSUME Typed, NEW c \in Conns, NEW x \in Chunks, Reply(c, x)
  PROVE  Answered(c)' = Append(Answered(c), x)
  <1> DEFINE e == echoed[c]
  <1>1. PICK w \in BOOLEAN : echoed' = [echoed EXCEPT ![c] = Append(e, [chunk |-> x, whole |-> w])]
    BY DEF Reply
  <1>2. e \in Seq(Answers) /\ echoed'[c] = Append(e, [chunk |-> x, whole |-> w])
    BY <1>1 DEF Typed
  <1>3. /\ Len(echoed'[c]) = Len(e) + 1 /\ Len(e) \in Nat
        /\ \A j \in 1..Len(e) : echoed'[c][j] = e[j]
        /\ echoed'[c][Len(e) + 1] = [chunk |-> x, whole |-> w]
    BY <1>2
  <1>4. Answered(c)' = [j \in 1..(Len(e) + 1) |-> IF j \in 1..Len(e) THEN e[j].chunk ELSE x]
    BY <1>3 DEF Answered
  <1>5. Answered(c) = [j \in 1..Len(e) |-> e[j].chunk]
    BY DEF Answered
  <1>6. Answered(c) \in Seq(Chunks)
    <2>1. \A j \in 1..Len(e) : e[j] \in Answers
      BY <1>2
    <2>2. \A j \in 1..Len(e) : e[j].chunk \in Chunks
      BY <2>1 DEF Answers
    <2> QED
      BY <1>3, <1>5, <2>2
  <1> HIDE DEF e
  <1> QED
    BY <1>3, <1>4, <1>5, <1>6

(* What waits first for a listener has no handler. *)
LEMMA HeadUnserved ==
  ASSUME Known, InOrder, NEW l \in {"tcp", "kill"}, queue[l] # <<>>
  PROVE  handler[Head(queue[l])] = "none"
  <1>1. queue[l] \in Seq(Conns)
    BY DEF Known, Typed
  <1>2. Head(queue[l]) \in Conns /\ Head(queue[l]) = queue[l][1] /\ 1 \in 1..Len(queue[l])
    BY <1>1
  <1> QED
    BY <1>2 DEF InOrder, AcceptedOnce, Waiting

(* Accepting the head of a queue gives a connection with no handler one,   *)
(* unless it cannot be started.                                            *)
LEMMA AcceptOnce ==
  ASSUME Known, InOrder, NEW l \in {"tcp", "kill"}, l \in ready,
         queue' = [queue EXCEPT ![l] = Tail(@)],
         handler' = [handler EXCEPT ![Head(queue[l])] = "running"] \/ UNCHANGED handler,
         UNCHANGED <<client, got, echoed>>
  PROVE  InOrder'
  <1> DEFINE q == queue[l]
             c == Head(q)
  <1>1. q # <<>> /\ q \in Seq(Conns)
    BY DEF Known, Descriptors, ReadyPending, Typed
  <1>2. /\ c \in Conns /\ c = q[1] /\ 1 \in 1..Len(q)
        /\ Tail(q) \in Seq(Conns) /\ Len(Tail(q)) = Len(q) - 1
        /\ \A i \in 1..Len(Tail(q)) : Tail(q)[i] = q[i + 1] /\ i + 1 \in 1..Len(q) /\ i + 1 # 1
    BY <1>1
  <1>3. client[c] # "idle" /\ handler[c] = "none"
    BY <1>2 DEF InOrder, AcceptedOnce, Waiting
  <1>4. queue'[l] = Tail(q) /\ \A m \in {"tcp", "kill"} : m # l => queue'[m] = queue[m]
    BY DEF Known, Typed
  <1>5. \A d \in Conns : d # c => handler'[d] = handler[d]
    BY <1>2 DEF Known, Descriptors, Shape
  <1>6. ASSUME NEW m \in {"tcp", "kill"}, m # l PROVE ~Waiting(m, c)
    BY <1>1, <1>2, <1>6, Names DEF Known, Descriptors, Shape, Waiting
  <1> HIDE DEF c
  <1>7. ASSUME NEW m \in {"tcp", "kill"}, NEW d \in Conns, Waiting(m, d)'
        PROVE  client'[d] # "idle" /\ handler'[d] = "none"
    <2>1. CASE m = l
      <3>1. PICK i \in 1..Len(Tail(q)) : Tail(q)[i] = d
        BY <1>4, <1>7, <2>1 DEF Waiting
      <3>2. i + 1 \in 1..Len(q) /\ q[i + 1] = d /\ i + 1 # 1
        BY <1>2, <3>1
      <3>3. d # c
        BY <1>2, <3>2 DEF InOrder, AcceptedOnce
      <3>4. Waiting(l, d)
        BY <3>2 DEF Waiting
      <3> QED
        BY <1>5, <3>3, <3>4 DEF InOrder, AcceptedOnce
    <2>2. CASE m # l
      <3>1. Waiting(m, d)
        BY <1>4, <1>7, <2>2 DEF Waiting
      <3> QED
        BY <1>5, <1>6, <2>2, <3>1 DEF InOrder, AcceptedOnce
    <2> QED
      BY <2>1, <2>2
  <1>8. ASSUME NEW m \in {"tcp", "kill"}, NEW i \in 1..Len(queue'[m]), NEW j \in 1..Len(queue'[m]),
               queue'[m][i] = queue'[m][j]
        PROVE  i = j
    <2>1. CASE m = l
      <3>1. i \in Int /\ j \in Int /\ q[i + 1] = q[j + 1] /\ i + 1 \in 1..Len(q) /\ j + 1 \in 1..Len(q)
        <4>1. /\ i \in 1..Len(Tail(q)) /\ j \in 1..Len(Tail(q))
              /\ Tail(q)[i] = Tail(q)[j]
          BY <1>4, <1>8, <2>1
        <4> QED
          BY <1>2, <4>1
      <3>2. i + 1 = j + 1
        BY <3>1 DEF InOrder, AcceptedOnce
      <3> QED
        BY <3>1, <3>2
    <2>2. CASE m # l
      BY <1>4, <1>8, <2>2 DEF InOrder, AcceptedOnce
    <2> QED
      BY <2>1, <2>2
  <1>9. AcceptedOnce'
    BY <1>7, <1>8 DEF AcceptedOnce
  <1>10. Untouched'
    BY <1>3, <1>5 DEF InOrder, Untouched
  <1>11. EchoInOrder'
    <2>1. \A d \in Conns : Answered(d)' = Answered(d) /\ got'[d] = got[d]
      BY DEF Answered
    <2>2. \A d \in Conns : handler[d] = "ended" => handler'[d] = "ended"
      BY <1>3, <1>5
    <2> QED
      BY <2>1, <2>2 DEF InOrder, EchoInOrder
  <1> QED
    BY <1>9, <1>10, <1>11 DEF InOrder

LEMMA ConnectOnce ==
  ASSUME Known, InOrder, NEW c \in Conns, Connect(c) PROVE InOrder'
  <1> DEFINE l == Listener(c)
             q == queue[l]
  <1>1. l \in {"tcp", "kill"} /\ q \in Seq(Conns)
    BY DEF Listener, Known, Typed
  <1>2. /\ client[c] = "idle" /\ queue' = [queue EXCEPT ![l] = Append(q, c)]
        /\ client' = [client EXCEPT ![c] = "open"] /\ UNCHANGED <<handler, got, echoed>>
    BY DEF Connect, data
  <1> HIDE DEF l
  <1>3. queue'[l] = Append(q, c) /\ \A m \in {"tcp", "kill"} : m # l => queue'[m] = queue[m]
    BY <1>1, <1>2 DEF Known, Typed
  <1>4. /\ Len(Append(q, c)) = Len(q) + 1 /\ Append(q, c)[Len(q) + 1] = c /\ Len(q) \in Nat
        /\ \A i \in 1..Len(q) : Append(q, c)[i] = q[i]
    BY <1>1
  <1>5. \A d \in Conns : client'[d] = IF d = c THEN "open" ELSE client[d]
    BY <1>2 DEF Known, Typed
  <1>6. ~Waiting(l, c) /\ handler[c] = "none"
    BY <1>1, <1>2 DEF InOrder, AcceptedOnce, Untouched
  <1>7. ASSUME NEW m \in {"tcp", "kill"}, NEW d \in Conns, Waiting(m, d)'
        PROVE  client'[d] # "idle" /\ handler'[d] = "none"
    <2>1. CASE d = c
      BY <1>2, <1>5, <1>6, <2>1
    <2>2. CASE d # c
      <3>1. Waiting(m, d)
        <4>1. CASE m = l
          <5>1. PICK i \in 1..(Len(q) + 1) : Append(q, c)[i] = d
            BY <1>3, <1>4, <1>7, <4>1 DEF Waiting
          <5>2. i \in 1..Len(q) /\ q[i] = d
            BY <1>4, <2>2, <5>1
          <5> QED
            BY <4>1, <5>2 DEF Waiting
        <4>2. CASE m # l
          BY <1>3, <1>7, <4>2 DEF Waiting
        <4> QED
          BY <4>1, <4>2
      <3> QED
        BY <1>2, <1>5, <2>2, <3>1 DEF InOrder, AcceptedOnce
    <2> QED
      BY <2>1, <2>2
  <1>8. ASSUME NEW m \in {"tcp", "kill"}, NEW i \in 1..Len(queue'[m]), NEW j \in 1..Len(queue'[m]),
               queue'[m][i] = queue'[m][j]
        PROVE  i = j
    <2>1. CASE m = l
      <3>1. \A k \in 1..Len(q) : q[k] # c
        BY <1>6 DEF Waiting
      <3>2. \A k, n \in 1..Len(q) : q[k] = q[n] => k = n
        BY <1>1 DEF InOrder, AcceptedOnce
      <3>3. /\ i \in 1..(Len(q) + 1) /\ j \in 1..(Len(q) + 1)
            /\ Append(q, c)[i] = Append(q, c)[j]
        BY <1>3, <1>4, <1>8, <2>1
      <3>4. CASE i \in 1..Len(q) /\ j \in 1..Len(q)
        BY <1>4, <3>2, <3>3, <3>4
      <3>5. CASE i \notin 1..Len(q) \/ j \notin 1..Len(q)
        BY <1>4, <3>1, <3>3, <3>5
      <3> QED
        BY <3>4, <3>5
    <2>2. CASE m # l
      BY <1>3, <1>8, <2>2 DEF InOrder, AcceptedOnce
    <2> QED
      BY <2>1, <2>2
  <1>9. AcceptedOnce'
    BY <1>7, <1>8 DEF AcceptedOnce
  <1>10. Untouched' /\ EchoInOrder'
    BY <1>2, <1>5 DEF InOrder, Untouched, EchoInOrder, Answered
  <1> QED
    BY <1>9, <1>10 DEF InOrder

(* A handler that ends or answers: only its own connection changes. *)
LEMMA HandleAnswers ==
  ASSUME Known, InOrder, NEW c \in Conns, Handle(c) PROVE InOrder'
  <1> DEFINE x == Head(inbox[c])
             g == got[c]
  <1>1. /\ handler[c] = "running" /\ inbox[c] # <<>> /\ UNCHANGED <<queue, client>>
        /\ got' = [got EXCEPT ![c] = IF x \in Chunks THEN Append(g, x) ELSE g]
    BY DEF Handle, mainVars, clientVars
  <1>2. \/ handler' = [handler EXCEPT ![c] = "ended"] /\ UNCHANGED echoed
        \/ x \notin {"eof", "reset"} /\ Reply(c, x) /\ UNCHANGED handler
    BY DEF Handle, Ends, End
  <1>3. x \in Inputs
    BY <1>1 DEF Known, Typed
  <1> HIDE DEF x
  <1>4. g \in Seq(Chunks) /\ Answered(c) = g
    BY <1>1 DEF InOrder, EchoInOrder, Known, Typed
  <1>5. \A d \in Conns : d # c => /\ got'[d] = got[d] /\ echoed'[d] = echoed[d]
                                  /\ handler'[d] = handler[d]
    BY <1>1, <1>2 DEF Reply, Known, Typed, Descriptors, Shape
  <1>6. handler'[c] # "none" /\ handler[c] # "none"
    BY <1>1, <1>2 DEF Known, Descriptors, Shape
  <1>7. AcceptedOnce' /\ Untouched'
    <2>1. \A l \in {"tcp", "kill"} : \A d \in Conns : Waiting(l, d)' <=> Waiting(l, d)
      BY <1>1 DEF Waiting
    <2>2. \A l \in {"tcp", "kill"} : ~Waiting(l, c)
      BY <1>6 DEF InOrder, AcceptedOnce
    <2>3. client[c] # "idle"
      BY <1>6 DEF InOrder, Untouched
    <2> QED
      BY <1>1, <1>5, <2>1, <2>2, <2>3 DEF InOrder, AcceptedOnce, Untouched
  <1>8. \/ Answered(c)' = got'[c]
        \/ handler'[c] = "ended" /\ got'[c] # <<>> /\ Answered(c)' = Front(got'[c])
    <2>1. CASE x \in Chunks
      <3>1. got'[c] = Append(g, x) /\ got'[c] # <<>> /\ Front(got'[c]) = g
        <4>1. got'[c] = Append(g, x)
          BY <1>1, <2>1 DEF Known, Typed
        <4> HIDE DEF g
        <4> QED
          BY <1>4, <2>1, <4>1, FrontAppend
      <3>2. CASE handler' = [handler EXCEPT ![c] = "ended"] /\ UNCHANGED echoed
        <4>1. Answered(c)' = Answered(c)
          BY <3>2 DEF Answered
        <4> QED
          BY <1>4, <3>1, <3>2, <4>1 DEF Known, Descriptors, Shape
      <3>3. CASE Reply(c, x)
        <4>1. Answered(c)' = Append(Answered(c), x)
          BY <3>3, ReplyAnswers, <2>1 DEF Known
        <4> QED
          BY <1>4, <3>1, <4>1
      <3> QED
        BY <1>2, <3>2, <3>3
    <2>2. CASE x \notin Chunks
      <3>1. x \in {"eof", "reset"}
        BY <1>3, <2>2 DEF Inputs
      <3>2. got'[c] = g /\ echoed' = echoed
        BY <1>1, <1>2, <2>2, <3>1 DEF Known, Typed
      <3> QED
        BY <1>4, <3>2 DEF Answered
    <2> QED
      BY <2>1, <2>2
  <1>9. EchoInOrder'
    <2>1. \A d \in Conns : d # c => Answered(d)' = Answered(d)
      BY <1>5 DEF Answered
    <2> QED
      BY <1>5, <1>8, <2>1 DEF InOrder, EchoInOrder
  <1> QED
    BY <1>7, <1>9 DEF InOrder

LEMMA InOrderInductive ==
  ASSUME Known, InOrder, [Next]_vars PROVE InOrder'
  <1>1. ASSUME UNCHANGED <<queue, client, handler, got, echoed>> PROVE InOrder'
    BY <1>1 DEF InOrder, AcceptedOnce, Waiting, Untouched, EchoInOrder, Answered
  <1>2. CASE AcceptTcp
    BY <1>2, AcceptOnce DEF AcceptTcp, Turn, First, clientVars, data
  <1>3. CASE AcceptKill
    BY <1>3, AcceptOnce DEF AcceptKill, Turn, First, clientVars, data
  <1>4. CASE Select \/ AcceptPoll \/ Poll \/ PollHandle \/ UNCHANGED vars
    BY <1>1, <1>4 DEF Select, AcceptPoll, Poll, PollHandle, vars, mainVars, clientVars, data
  <1>5. ASSUME NEW c \in Conns, Send(c) PROVE InOrder'
    BY <1>1, <1>5 DEF Send, mainVars, data
  <1>6. ASSUME NEW c \in Conns, Leave(c) PROVE InOrder'
    <2>1. /\ client[c] = "open" /\ client' = [client EXCEPT ![c] = "done"]
          /\ UNCHANGED <<queue, handler, got, echoed>>
      BY <1>6 DEF Leave, mainVars, data
    <2>2. \A d \in Conns : client'[d] = "idle" <=> client[d] = "idle"
      BY <2>1 DEF Known, Typed
    <2> QED
      BY <2>1, <2>2 DEF InOrder, AcceptedOnce, Waiting, Untouched, EchoInOrder, Answered
  <1>7. ASSUME NEW c \in Conns, Timeout(c) PROVE InOrder'
    <2>1. /\ handler[c] = "running" /\ handler' = [handler EXCEPT ![c] = "ended"]
          /\ UNCHANGED <<queue, client, got, echoed>>
      BY <1>7 DEF Timeout, End, mainVars, clientVars, data
    <2>2. \A d \in Conns : /\ d # c => handler'[d] = handler[d]
                           /\ handler'[c] = "ended"
      BY <2>1 DEF Known, Descriptors, Shape
    <2>3. \A l \in {"tcp", "kill"} : ~Waiting(l, c)
      BY <2>1 DEF InOrder, AcceptedOnce
    <2>4. \A l \in {"tcp", "kill"} : \A d \in Conns : Waiting(l, d)' <=> Waiting(l, d)
      BY <2>1 DEF Waiting
    <2>5. client[c] # "idle"
      BY <2>1 DEF InOrder, Untouched
    <2> QED
      BY <2>1, <2>2, <2>3, <2>4, <2>5 DEF InOrder, AcceptedOnce, Untouched, EchoInOrder, Answered
  <1>8. CASE LoopRaises \/ StartRaises("poll")
    BY <1>1, <1>8 DEF LoopRaises, StartRaises, clientVars, data
  <1>9. ASSUME NEW l \in {"tcp", "kill"}, StartRaises(l) PROVE InOrder'
    <2>1. /\ l \in ready /\ queue' = [queue EXCEPT ![l] = Tail(@)]
          /\ UNCHANGED <<client, handler, got, echoed>>
      BY <1>9, StartRaisesTakes DEF Known, clientVars, data
    <2> QED
      BY <2>1, AcceptOnce
  <1>10. CASE Exit
    <2>1. /\ queue' = [l \in {"tcp", "kill"} |-> <<>>] /\ UNCHANGED <<client, got, echoed>>
          /\ handler' = [c \in Conns |-> IF handler[c] = "running" THEN "ended" ELSE handler[c]]
      BY <1>10 DEF Exit, clientVars, data
    <2>2. \A c \in Conns : Answered(c)' = Answered(c)
      BY <2>1 DEF Answered
    <2>3. AcceptedOnce'
      BY <2>1 DEF AcceptedOnce, Waiting
    <2> QED
      BY <2>1, <2>2, <2>3 DEF InOrder, Untouched, EchoInOrder
  <1> QED
    BY <1>2, <1>3, <1>4, <1>5, <1>6, <1>7, <1>8, <1>9, <1>10, ConnectOnce, HandleAnswers
       DEF Next, MainStep, Listeners

LEMMA InOrderAlways == Spec => [](Known /\ InOrder)
  <1>1. Init => Typed
    BY ConnAssumption DEF Init, Typed
  <1>2. Init => InOrder
    BY DEF Init, InOrder, AcceptedOnce, Waiting, Untouched, EchoInOrder, Answered
  <1>3. Typed /\ Descriptors /\ InOrder /\ [Next]_vars => InOrder'
    BY InOrderInductive DEF Known
  <1> QED
    BY <1>1, <1>2, <1>3, TypedInductive, DescriptorsAlways, PTL DEF Spec, Known

(* What comes back on a connection answers what was received on it, chunk  *)
(* by chunk and in that order, whole or in part, with at most the last     *)
(* chunk unanswered: for any number of clients and chunks, and wherever an *)
(* exception ends the loop.                                                *)
THEOREM EchoedBack == Spec => []EchoInOrder
  <1>1. InOrder => EchoInOrder
    BY DEF InOrder
  <1> QED
    BY <1>1, InOrderAlways, PTL

-----------------------------------------------------------------------------
(* The main process holds no TCP connection whose thread has ended. *)
ThreadHolds == \A t \in TcpClients : Main \in held[t] => handler[t] # "ended"

LEMMA EndHolds ==
  ASSUME Known, ThreadHolds, NEW c \in Conns, End(c) PROVE ThreadHolds'
  <1>1. /\ handler' = [handler EXCEPT ![c] = "ended"] /\ handler \in [Conns -> {"none", "running", "ended"}]
        /\ held' = IF c \in KillClients THEN [x \in Conns |-> held[x] \ {c}]
                                         ELSE [held EXCEPT ![c] = @ \ {Main}]
        /\ held \in [Conns -> SUBSET Procs]
    BY DEF End, Killable, Known, Descriptors, Shape
  <1> QED
    BY <1>1, Names DEF ThreadHolds

(* Rebinding takes nothing from a TCP connection, and a listener adds Main *)
(* only to a connection that has no handler yet.                           *)
LEMMA TakeHolds ==
  ASSUME Known, InOrder, ThreadHolds, NEW l \in {"tcp", "kill"}, queue[l] # <<>>,
         handler' = [handler EXCEPT ![Head(queue[l])] = "running"] \/ UNCHANGED handler,
         \A t \in TcpClients : Main \in held'[t] => Main \in held[t] \/ t = Head(queue[l])
  PROVE  ThreadHolds'
  <1> DEFINE c == Head(queue[l])
  <1>1. handler[c] = "none"
    BY HeadUnserved
  <1>2. handler \in [Conns -> {"none", "running", "ended"}]
    BY DEF Known, Descriptors, Shape
  <1> HIDE DEF c
  <1>3. \A t \in TcpClients : handler'[t] = "ended" => handler[t] = "ended" /\ t # c
    BY <1>1, <1>2, Names DEF c
  <1> QED
    BY <1>3 DEF ThreadHolds, c

LEMMA ThreadHoldsInductive ==
  ASSUME Known, InOrder, ThreadHolds, [Next]_vars PROVE ThreadHolds'
  <1>1. ASSUME UNCHANGED <<handler, held>> PROVE ThreadHolds'
    BY <1>1 DEF ThreadHolds
  <1>2. CASE AcceptTcp
    <2>1. /\ queue["tcp"] # <<>> /\ handler' = [handler EXCEPT ![Head(queue["tcp"])] = "running"]
          /\ held' = [Rebound EXCEPT ![Head(queue["tcp"])] = {Main}]
      BY <1>2 DEF AcceptTcp, Turn, First, Known, Descriptors, ReadyPending
    <2>2. \A t \in TcpClients : Main \in held'[t] => Main \in held[t] \/ t = Head(queue["tcp"])
      BY <2>1, ReboundClean, Names DEF Known
    <2> QED
      BY <2>1, <2>2, TakeHolds
  <1>3. CASE AcceptKill
    <2> DEFINE k == Head(queue["kill"])
    <2>1. /\ queue["kill"] # <<>> /\ handler' = [handler EXCEPT ![k] = "running"]
          /\ held' = [c \in Conns |-> IF c = k THEN {Main, k}
                                      ELSE IF Main \in Rebound[c] THEN Rebound[c] \cup {k}
                                      ELSE Rebound[c]]
          /\ k \in KillClients
      BY <1>3 DEF AcceptKill, Turn, First, Known, Descriptors, ReadyPending, Shape
    <2>2. \A t \in TcpClients : Main \in held'[t] => Main \in held[t]
      <3> HIDE DEF k
      <3> QED
        BY <2>1, ReboundClean, Names DEF Known
    <2> QED
      BY <2>1, <2>2, TakeHolds
  <1>4. ASSUME NEW l \in {"tcp", "kill"}, StartRaises(l) PROVE ThreadHolds'
    <2>1. /\ queue[l] # <<>> /\ UNCHANGED handler /\ held' = [Rebound EXCEPT ![Head(queue[l])] = {Main}]
      BY <1>4, StartRaisesTakes DEF Known
    <2>2. \A t \in TcpClients : Main \in held'[t] => Main \in held[t] \/ t = Head(queue[l])
      BY <2>1, ReboundClean, Names DEF Known
    <2> QED
      BY <2>1, <2>2, TakeHolds
  <1>5. CASE AcceptPoll \/ StartRaises("poll")
    <2>1. held' = Rebound /\ UNCHANGED handler
      BY <1>5 DEF AcceptPoll, StartRaises
    <2> QED
      BY <2>1, ReboundClean, Names DEF Known, ThreadHolds
  <1>6. CASE Exit
    BY <1>6, Names DEF Exit, ThreadHolds
  <1>7. ASSUME NEW c \in Conns, Handle(c) \/ Timeout(c) PROVE ThreadHolds'
    <2>1. End(c) \/ UNCHANGED <<handler, held>>
      BY <1>7 DEF Handle, Timeout
    <2> QED
      BY <1>1, <2>1, EndHolds
  <1>8. ASSUME NEW c \in Conns, Connect(c) \/ Send(c) \/ Leave(c) PROVE ThreadHolds'
    BY <1>1, <1>8 DEF Connect, Send, Leave
  <1>9. CASE Select \/ Poll \/ PollHandle \/ LoopRaises \/ UNCHANGED vars
    BY <1>1, <1>9 DEF Select, Poll, PollHandle, LoopRaises, vars
  <1> QED
    BY <1>2, <1>3, <1>4, <1>5, <1>6, <1>7, <1>8, <1>9 DEF Next, MainStep, Listeners

(* What keeps a closed TCP connection open is a child that still runs. *)
THEOREM Leaks == Spec => []LeaksEndWithChildren
  <1>1. Init => ThreadHolds
    BY Names DEF Init, ThreadHolds
  <1>2. Known /\ InOrder /\ ThreadHolds /\ [Next]_vars => ThreadHolds'
    BY ThreadHoldsInductive
  <1>3. Known /\ ThreadHolds => LeaksEndWithChildren
    BY Names DEF Known, Descriptors, HeldByLive, Shape, ThreadHolds, LeaksEndWithChildren
  <1> QED
    BY <1>1, <1>2, <1>3, InOrderAlways, PTL DEF Spec
=============================================================================
