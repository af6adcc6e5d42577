---------------------------- MODULE EchoServer ----------------------------
(***************************************************************************)
(* tools/host/echo_servers.py: the TCP side of the echo servers.           *)
(*                                                                         *)
(* The main loop accepts connections of three listeners. A connection of   *)
(* the TCP port is served by a thread, one of the kill port by a child     *)
(* process made with fork, so a child also inherits every descriptor that  *)
(* is open in the main process. TCP ends a connection only when the last   *)
(* descriptor of it is closed: held[c] is the set of processes that have   *)
(* one. Connections of the kill port are closed in the main process when   *)
(* the variable client_sock is bound to the next connection, which is why  *)
(* the loop connects to its own polling port. An exception in the loop     *)
(* ends all three listeners.                                               *)
(*                                                                         *)
(* A client makes one connection; a connection is named by its client, and *)
(* the child that serves connection k is named k as well.                  *)
(***************************************************************************)
EXTENDS Integers, Sequences, SequencesExt

CONSTANTS TcpClients, KillClients,
          Main, Polling,  \* the main process; the connection of the loop to itself
          Backlog,        \* listen(5)
          MaxChunks,      \* bound: MaxChunks[c] chunks are sent on c
          MaxPollers      \* bound: polling threads at a time

Conns     == TcpClients \cup KillClients
Procs     == {Main} \cup KillClients
Listeners == {"tcp", "kill", "poll"}
Listener(c) == IF c \in TcpClients THEN "tcp" ELSE "kill"

(* What one recv() returns: text, bytes that are not UTF-8, text with one  *)
(* of the command words (kill, stop), the end of the stream, or an         *)
(* exception. What send() sends back of a chunk: all of it, or a part.     *)
Chunks  == {"text", "bytes", "command"}
Inputs  == Chunks \cup {"eof", "reset"}
Answers == [chunk : Chunks, whole : BOOLEAN]

ASSUME ConnAssumption ==
  /\ TcpClients \cap KillClients = {}
  /\ Main \notin Conns /\ Polling \notin Conns /\ Main # Polling
  /\ Backlog \in Nat \ {0} /\ MaxChunks \in [Conns -> Nat] /\ MaxPollers \in Nat \ {0}

VARIABLES
  loop,     \* where the main loop is: "select", "accept" or "poll"; "ended" after an
            \* exception in it, "gone" with the process
  ready,    \* listeners select() returned that are not accepted yet
  sock,     \* client_sock
  queue,    \* completed connections not accepted yet, of "tcp" and "kill"
  polls,    \* the same for the polling port: connections of the loop itself
  pollers,  \* running tcp_poll_handle threads
  client,   \* client[c]: "idle", "open", or "done" (nothing more is sent)
  inbox,    \* inbox[c]: what recv() will return
  sent,     \* chunks sent
  handler,  \* handler[c]: "none", "running" or "ended"
  named,    \* named[c]: data_str has been assigned
  held,     \* held[c]: processes with a descriptor of c
  got, echoed \* history: what was received and sent back on c

mainVars   == <<loop, ready, sock, queue, polls, pollers>>
clientVars == <<client, sent>>
data       == <<named, got, echoed>>
vars == <<mainVars, clientVars, inbox, handler, held, data>>

Init == /\ loop = "select" /\ ready = {} /\ sock = Polling
        /\ queue = [l \in {"tcp", "kill"} |-> <<>>]
        /\ polls = 0 /\ pollers = 0
        /\ client = [c \in Conns |-> "idle"]
        /\ inbox = [c \in Conns |-> <<>>]
        /\ sent = [c \in Conns |-> 0]
        /\ handler = [c \in Conns |-> "none"]
        /\ named = [c \in Conns |-> FALSE]
        /\ held = [c \in Conns |-> {}]
        /\ got = [c \in Conns |-> <<>>] /\ echoed = [c \in Conns |-> <<>>]

(***************************************************************************)
(* Clients.                                                                *)
(***************************************************************************)
Connect(c) ==
  /\ client[c] = "idle" /\ loop # "gone"
  /\ Len(queue[Listener(c)]) < Backlog
  /\ queue' = [queue EXCEPT ![Listener(c)] = Append(@, c)]
  /\ client' = [client EXCEPT ![c] = "open"]
  /\ UNCHANGED <<loop, ready, sock, polls, pollers, sent, inbox, handler, held, data>>

Send(c) ==
  /\ client[c] = "open" /\ sent[c] < MaxChunks[c] /\ handler[c] # "ended" /\ loop # "gone"
  /\ \E x \in Chunks : inbox' = [inbox EXCEPT ![c] = Append(@, x)]
  /\ sent' = [sent EXCEPT ![c] = @ + 1]
  /\ UNCHANGED <<mainVars, client, handler, held, data>>

(* The client ends the stream in order, or resets it and what is unread is *)
(* lost.                                                                   *)
Leave(c) ==
  /\ client[c] = "open" /\ handler[c] # "ended" /\ loop # "gone"
  /\ \/ inbox' = [inbox EXCEPT ![c] = Append(@, "eof")]
     \/ inbox' = [inbox EXCEPT ![c] = <<"reset">>]
  /\ client' = [client EXCEPT ![c] = "done"]
  /\ UNCHANGED <<mainVars, sent, handler, held, data>>

(***************************************************************************)
(* The main loop, EchoServer.run.                                          *)
(***************************************************************************)
(* Mutants: the polling port always counts as ready; the kill port never. *)
PendingAlways(l) == l = "poll" \/ queue[l] # <<>>
PendingNoKill(l) == IF l = "poll" THEN polls > 0 ELSE l = "tcp" /\ queue[l] # <<>>
Pending(l) == IF l = "poll" THEN polls > 0 ELSE queue[l] # <<>>

(* select() with a timeout of one second: it returns with nothing, too.    *)
Select ==
  /\ loop = "select"
  /\ ready' = {l \in Listeners : Pending(l)}
  /\ loop' = IF ready' = {} THEN "poll" ELSE "accept"
  /\ UNCHANGED <<sock, queue, polls, pollers, clientVars, inbox, handler, held, data>>

(* Mutant: the main process keeps its connections, as in a list. *)
ReboundNever == held

(* client_sock is bound to another connection: the last reference the main *)
(* process had to a connection of the kill port is gone. A thread keeps    *)
(* the socket it serves.                                                   *)
Rebound == [c \in Conns |-> IF c = sock /\ c \in KillClients THEN held[c] \ {Main} ELSE held[c]]

(* Listeners are served in the order of the arguments of select().         *)
First(l) == /\ loop = "accept"
            /\ CASE l = "tcp"  -> "tcp" \in ready
                 [] l = "kill" -> "kill" \in ready /\ "tcp" \notin ready
                 [] l = "poll" -> ready = {"poll"}

(* Mutant: only the first of the returned sockets is served. *)
TurnFirstOnly(l) == /\ loop = "accept"
                    /\ l \in ready
                    /\ ready' = {}
                    /\ loop' = "poll"

Turn(l) == /\ First(l)
           /\ ready' = ready \ {l}
           /\ loop' = IF ready' = {} THEN "poll" ELSE "accept"

AcceptTcp ==
  /\ Turn("tcp")
  /\ LET c == Head(queue["tcp"]) IN
       /\ sock' = c
       /\ held' = [Rebound EXCEPT ![c] = {Main}]
       /\ handler' = [handler EXCEPT ![c] = "running"]
  /\ queue' = [queue EXCEPT !["tcp"] = Tail(@)]
  /\ UNCHANGED <<polls, pollers, clientVars, inbox, data>>

(* fork(): the child k gets what the main process has open at this moment. *)
AcceptKill ==
  /\ Turn("kill")
  /\ LET k == Head(queue["kill"]) IN
       /\ sock' = k
       /\ held' = [c \in Conns |-> IF c = k THEN {Main, k}
                                   ELSE IF Main \in Rebound[c] THEN Rebound[c] \cup {k}
                                   ELSE Rebound[c]]
       /\ handler' = [handler EXCEPT ![k] = "running"]
  /\ queue' = [queue EXCEPT !["kill"] = Tail(@)]
  /\ UNCHANGED <<polls, pollers, clientVars, inbox, data>>

AcceptPoll ==
  /\ pollers < MaxPollers
  /\ Turn("poll")
  /\ sock' = Polling
  /\ held' = Rebound
  /\ polls' = polls - 1
  /\ pollers' = pollers + 1
  /\ UNCHANGED <<queue, clientVars, inbox, handler, data>>

(* Mutant: the loop does not connect to itself. *)
PollSkipped ==
  /\ loop = "poll"
  /\ loop' = "select"
  /\ UNCHANGED <<ready, sock, queue, polls, pollers, clientVars, inbox, handler, held, data>>

(* connect_ex() to the own polling port blocks while its backlog is full.  *)
Poll ==
  /\ loop = "poll"
  /\ polls < Backlog
  /\ polls' = polls + 1
  /\ loop' = "select"
  /\ UNCHANGED <<ready, sock, queue, pollers, clientVars, inbox, handler, held, data>>

(* accept() raises, or the polling socket cannot be made, for want of a    *)
(* descriptor, say: the exception leaves run().                            *)
LoopRaises ==
  /\ loop \in {"accept", "poll"}
  /\ loop' = "ended" /\ ready' = {}
  /\ UNCHANGED <<sock, queue, polls, pollers, clientVars, inbox, handler, held, data>>

(* So it does if the thread or the child cannot be started; client_sock is *)
(* the connection then.                                                    *)
StartRaises(l) ==
  /\ First(l)
  /\ loop' = "ended" /\ ready' = {}
  /\ IF l = "poll"
       THEN sock' = Polling /\ held' = Rebound /\ polls' = polls - 1 /\ UNCHANGED queue
       ELSE /\ sock' = Head(queue[l])
            /\ held' = [Rebound EXCEPT ![sock'] = {Main}]
            /\ queue' = [queue EXCEPT ![l] = Tail(@)]
            /\ UNCHANGED polls
  /\ UNCHANGED <<pollers, clientVars, inbox, handler, data>>

(* The main process ends, once multiprocessing has joined its children:    *)
(* its threads end with it, and what it has open is closed.                *)
Exit ==
  /\ loop = "ended" /\ \A k \in KillClients : handler[k] # "running"
  /\ loop' = "gone" /\ ready' = {} /\ sock' = Polling
  /\ queue' = [l \in {"tcp", "kill"} |-> <<>>] /\ polls' = 0 /\ pollers' = 0
  /\ handler' = [c \in Conns |-> IF handler[c] = "running" THEN "ended" ELSE handler[c]]
  /\ held' = [c \in Conns |-> held[c] \ {Main}]
  /\ UNCHANGED <<clientVars, inbox, data>>

MainStep == Select \/ AcceptTcp \/ AcceptKill \/ AcceptPoll \/ Poll \/ Exit

(***************************************************************************)
(* The handlers.                                                           *)
(***************************************************************************)
Killable(c) == c \in KillClients

(* Mutant: a thread leaves without client_sock.close(). *)
EndUnclosed(c) ==
  /\ handler' = [handler EXCEPT ![c] = "ended"]
  /\ held' = IF Killable(c) THEN [x \in Conns |-> held[x] \ {c}] ELSE held

(* A thread closes its socket; a child exits (or is killed) and everything *)
(* it inherited is closed with it.                                         *)
End(c) ==
  /\ handler' = [handler EXCEPT ![c] = "ended"]
  /\ held' = IF Killable(c) THEN [x \in Conns |-> held[x] \ {c}]
                            ELSE [held EXCEPT ![c] = @ \ {Main}]

(* Mutant: only what could be decoded is sent back. *)
ReplyDecoded(c, x) ==
  \E w \in BOOLEAN :
    echoed' = IF x = "bytes" THEN echoed
              ELSE [echoed EXCEPT ![c] = Append(@, [chunk |-> x, whole |-> w])]

(* send() may take a part only, and its result is not looked at.           *)
Reply(c, x) == \E w \in BOOLEAN :
  echoed' = [echoed EXCEPT ![c] = Append(@, [chunk |-> x, whole |-> w])]

(* recv() returned the chunk x: tcp_handle from there on. data_str keeps   *)
(* its old value when x cannot be decoded; without an old value its use,   *)
(* which only killable connections make, raises and the handler closes.    *)
Ends(c, x) == \/ x \in {"eof", "reset"}
              \/ Killable(c) /\ x = "command"
              \/ Killable(c) /\ x = "bytes" /\ ~named[c]

(* send() raises when the client has reset the connection meanwhile or     *)
(* does not read for the timeout: the last disjunct.                       *)
Handle(c) ==
  /\ handler[c] = "running" /\ inbox[c] # <<>>
  /\ LET x == Head(inbox[c]) IN
       /\ inbox' = [inbox EXCEPT ![c] = Tail(@)]
       /\ named' = [named EXCEPT ![c] = @ \/ x \notin {"bytes", "reset"}]
       /\ got' = [got EXCEPT ![c] = IF x \in Chunks THEN Append(@, x) ELSE @]
       /\ \/ /\ Ends(c, x)
             /\ End(c) /\ UNCHANGED echoed
          \/ /\ ~Ends(c, x)
             /\ Reply(c, x)
             /\ UNCHANGED <<handler, held>>
          \/ /\ ~Ends(c, x)
             /\ End(c) /\ UNCHANGED echoed
  /\ UNCHANGED <<mainVars, clientVars>>

(* Mutant: settimeout() is not called for connections of the kill port. *)
TimeoutThreadsOnly(c) ==
  /\ c \in TcpClients
  /\ handler[c] = "running" /\ inbox[c] = <<>>
  /\ End(c)
  /\ UNCHANGED <<mainVars, clientVars, inbox, data>>

(* recv() waited for the timeout of settimeout().                          *)
Timeout(c) ==
  /\ handler[c] = "running" /\ inbox[c] = <<>>
  /\ End(c)
  /\ UNCHANGED <<mainVars, clientVars, inbox, data>>

(* tcp_poll_handle: the loop has closed its end, the thread closes its own.*)
PollHandle ==
  /\ pollers > 0
  /\ pollers' = pollers - 1
  /\ UNCHANGED <<loop, ready, sock, queue, polls, clientVars, inbox, handler, held, data>>

Next == \/ MainStep
        \/ LoopRaises
        \/ \E l \in Listeners : StartRaises(l)
        \/ PollHandle
        \/ \E c \in Conns : Connect(c) \/ Send(c) \/ Leave(c) \/ Handle(c) \/ Timeout(c)

Spec == Init /\ [][Next]_vars

(* The main thread and every handler are scheduled, and recv() times out.  *)
(* Clients owe nothing.                                                    *)
Fairness == /\ WF_vars(MainStep) /\ WF_vars(PollHandle)
            /\ \A c \in Conns : WF_vars(Handle(c)) /\ WF_vars(Timeout(c))
FairSpec == Spec /\ Fairness

-----------------------------------------------------------------------------
(***************************************************************************)
(* Properties.                                                             *)
(***************************************************************************)

(* Connections are queued, served and ended in that order. *)
TypeOK ==
  /\ loop \in {"select", "accept", "poll", "ended", "gone"} /\ ready \subseteq Listeners
  /\ sock \in Conns \cup {Polling}
  /\ queue \in [{"tcp", "kill"} -> Seq(Conns)]
  /\ polls \in 0..Backlog /\ pollers \in 0..MaxPollers
  /\ client \in [Conns -> {"idle", "open", "done"}]
  /\ inbox \in [Conns -> Seq(Inputs)] /\ \A c \in Conns : sent[c] \in 0..MaxChunks[c]
  /\ handler \in [Conns -> {"none", "running", "ended"}]
  /\ named \in [Conns -> BOOLEAN] /\ held \in [Conns -> SUBSET Procs]
  /\ got \in [Conns -> Seq(Chunks)] /\ echoed \in [Conns -> Seq(Answers)]

(* A connection of the kill port is never inherited by the child of        *)
(* another one: killing or stopping its own child, and the next accept in  *)
(* the main process, are enough to end it.                                 *)
KillIsolation == \A k \in KillClients : held[k] \subseteq {Main, k}

(* The main process keeps at most one connection of the kill port, the one *)
(* it accepted last.                                                       *)
MainKeepsLast == \A k \in KillClients : Main \in held[k] => sock = k

(* A TCP connection whose thread has closed it is only kept open by        *)
(* children that are still serving a kill connection.                      *)
LeaksEndWithChildren ==
  \A t \in TcpClients : handler[t] = "ended" =>
    held[t] \subseteq {k \in KillClients : handler[k] = "running"}

(* The loop never waits for itself: when it connects to its polling port   *)
(* nothing is waiting there.                                               *)
PollNeverBlocks == loop = "poll" => polls = 0

(* The chunks that something was sent back of. *)
Answered(c) == [j \in 1..Len(echoed[c]) |-> echoed[c][j].chunk]

(* While a connection is served, every chunk that was received on it is    *)
(* answered before the next one is read, each with itself or a part of it. *)
(* At the end at most the last chunk has no answer: the command or the     *)
(* bytes that end a killable connection, or what could not be sent; an     *)
(* orderly end of the stream, a timeout or the end of the main process     *)
(* costs no answer.                                                        *)
EchoInOrder ==
  \A c \in Conns :
    \/ Answered(c) = got[c]
    \/ handler[c] = "ended" /\ got[c] # <<>> /\ Answered(c) = Front(got[c])

(* A connection that was made is accepted in the end, unless an exception  *)
(* has ended the loop; then the process ends, and with it the connection.  *)
Accepted == \A c \in Conns : client[c] # "idle" ~> handler[c] # "none" \/ loop = "gone"

(* Once the child of a kill connection is gone (killed, stopped, timed out *)
(* or its client left) the connection is closed, which the client of the   *)
(* kill server waits for. Needs the loop to poll itself, as long as it     *)
(* runs, and the main process to end when it does not.                     *)
KilledIsReset == \A k \in KillClients : handler[k] = "ended" ~> held[k] = {}

(* A TCP connection that its thread closed is closed for its client, too,  *)
(* given that the clients of the kill port do not talk for ever (MaxChunks)*)
(* and so time out: see LeaksEndWithChildren for what delays it.           *)
ClosedIsReleased == \A t \in TcpClients : handler[t] = "ended" ~> held[t] = {}
=============================================================================
