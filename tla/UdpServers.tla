---------------------------- MODULE UdpServers ----------------------------
(***************************************************************************)
(* tools/host/udp_server.py, the UDP and DTLS servers of the data files and*)
(* the DTLS echo server, and udp_handle of tools/host/echo_servers.py: the *)
(* threads that answer datagrams.                                          *)
(*                                                                         *)
(* An exception that is not caught ends the thread and no other one. The   *)
(* socket it has bound stays bound as long as its process lives. A server  *)
(* that is started again while it runs is a second process: it gets the    *)
(* sockets nobody holds, and its other threads end in bind(). mates[t] are *)
(* the threads whose sockets the process of t has.                         *)
(*                                                                         *)
(* The files belong to the rest of the system: present is the set of paths *)
(* that exist. What is Elsewhere (get_file takes any path: that of a log,  *)
(* which managers and logrotate remove, or of an entry of /proc) may be    *)
(* there or not whenever it is looked for. A path that is a folder is      *)
(* answered like one that does not exist.                                  *)
(***************************************************************************)
CONSTANTS Threads,
          Process,  \* Process[t]: the background server that thread t runs in
          Echoing,  \* the DTLS echo server
          Handler,  \* udp_handle of the echo servers
          Secure,   \* the DTLS servers, which wrap their socket
          Joined,   \* processes that end with their threads (run_server)
          Paths, NoPath,
          Elsewhere \* requested paths that are not of the service's files

VARIABLES
  doing,   \* doing[t]: "down", "recvfrom", "exists", "isfile", "open", "send" or "ended"
  want,    \* want[t]: the path requested last
  held,    \* the threads whose socket is bound
  mates,   \* mates[t]: the threads that the process of t has, or had, the sockets of
  loss,    \* history: loss[t]: what ended the thread: "none", "bind", "wrap", "send",
           \* "file", "empty", or "process", the end of its process
  present  \* read here, and left to the module that composes the parts

UdpInit == /\ doing = [t \in Threads |-> "down"]
           /\ want = [t \in Threads |-> NoPath]
           /\ held = {} /\ mates = [t \in Threads |-> {}]
           /\ loss = [t \in Threads |-> "none"]

process == <<held, mates>>

Goto(t, step) == doing' = [doing EXCEPT ![t] = step] /\ UNCHANGED <<process, loss>>

(* An exception leaves run() or udp_handle(). *)
Ends(t, cause) == /\ doing' = [doing EXCEPT ![t] = "ended"]
                  /\ loss' = [loss EXCEPT ![t] = cause]
                  /\ UNCHANGED process

(***************************************************************************)
(* The life of the processes.                                              *)
(***************************************************************************)
(* Mutant: the sockets are bound with SO_REUSEPORT. *)
FreeShared(t) == t \in Threads

Free(t) == t \notin held

(* A new process starts its threads. Any of those of udp_server.py may not *)
(* get its socket, or not wrap it, for want of a certificate, say; the     *)
(* others go on. udp_handle is only started with the sockets of its process*)
(* bound.                                                                  *)
Launch(processes) ==
  LET new == {t \in Threads : Process[t] \in processes /\ Free(t)} IN
  \E got \in SUBSET new : \E failed \in SUBSET (got \cap Secure) :
    /\ new \cap Handler \subseteq got
    /\ doing' = [t \in Threads |-> IF t \in got \ failed THEN "recvfrom"
                                   ELSE IF t \in new THEN "ended" ELSE doing[t]]
    /\ loss' = [t \in Threads |-> IF t \in failed THEN "wrap"
                                  ELSE IF t \in got THEN "none"
                                  ELSE IF t \in new THEN "bind" ELSE loss[t]]
    /\ want' = [t \in Threads |-> IF t \in new THEN NoPath ELSE want[t]]
    /\ held' = held \cup got
    /\ mates' = [t \in Threads |-> IF t \in got THEN {u \in got : Process[u] = Process[t]}
                                   ELSE mates[t]]

StopAll == /\ doing' = [t \in Threads |-> "down"]
           /\ want' = [t \in Threads |-> NoPath]
           /\ held' = {} /\ mates' = [t \in Threads |-> {}]
           /\ loss' = [t \in Threads |-> "none"]

(* run_server has joined all its threads. *)
Over(t) == Process[t] \in Joined /\ \A u \in mates[t] : doing[u] = "ended"

(* The process ends with its last thread, and releases its sockets. *)
Release(t) == /\ t \in held /\ Over(t)
              /\ held' = held \ mates[t]
              /\ UNCHANGED <<doing, want, mates, loss>>

(* The main thread of a process that does not wait for its threads raises, *)
(* and they end with it (EchoServer, LoopRaises).                          *)
Raises(p) == LET lost == {t \in held : Process[t] = p} IN
             /\ p \notin Joined /\ lost # {}
             /\ held' = held \ lost
             /\ doing' = [t \in Threads |-> IF t \in lost THEN "ended" ELSE doing[t]]
             /\ loss' = [t \in Threads |-> IF t \in lost THEN "process" ELSE loss[t]]
             /\ UNCHANGED <<want, mates>>

(***************************************************************************)
(* The threads.                                                            *)
(***************************************************************************)
(* What is found out about a path. *)
Found(path) == IF path \in Elsewhere THEN BOOLEAN ELSE {path \in present}

(* A request for a file. (One that cannot be decoded is ignored.)          *)
Request(t) ==
  /\ doing[t] = "recvfrom" /\ t \notin Echoing \cup Handler
  /\ \E path \in Paths : want' = [want EXCEPT ![t] = path]
  /\ Goto(t, "exists")

(* get_file tests whether the path exists, *)
Exists(t) ==
  /\ doing[t] = "exists"
  /\ \E found \in Found(want[t]) : Goto(t, IF found THEN "isfile" ELSE "send")
  /\ UNCHANGED want

(* whether it is a regular file,                                           *)
IsFile(t) ==
  /\ doing[t] = "isfile"
  /\ \E found \in Found(want[t]) : Goto(t, IF found THEN "open" ELSE "send")
  /\ UNCHANGED want

(* and opens and reads it: nothing catches the exception if it has gone.   *)
OpenFile(t) ==
  /\ doing[t] = "open"
  /\ \E found \in Found(want[t]) : IF found THEN Goto(t, "send") ELSE Ends(t, "file")
  /\ UNCHANGED want

(* send_file. *)
SendFile(t) ==
  /\ doing[t] = "send"
  /\ Goto(t, "recvfrom") \/ Ends(t, "send")
  /\ want' = [want EXCEPT ![t] = NoPath]

(* The echo threads send a datagram back, which changes nothing, (for      *)
(* "0 byte test" an empty one), or sendto() raises.                        *)
EchoFails(t) ==
  /\ doing[t] = "recvfrom" /\ t \in Echoing \cup Handler
  /\ Ends(t, "send")
  /\ UNCHANGED want

(* udp_handle closes its socket at an empty datagram, and the next         *)
(* recvfrom() raises.                                                      *)
EmptyDatagram(t) ==
  /\ doing[t] = "recvfrom" /\ t \in Handler
  /\ Ends(t, "empty")
  /\ UNCHANGED want

ThreadStep(t) == \/ Request(t) \/ Exists(t) \/ IsFile(t) \/ OpenFile(t) \/ SendFile(t)
                 \/ EchoFails(t) \/ EmptyDatagram(t)

-----------------------------------------------------------------------------
(* Threads are at a known step. *)
ThreadsOK ==
  /\ doing \in [Threads -> {"down", "recvfrom", "exists", "isfile", "open", "send", "ended"}]
  /\ want \in [Threads -> Paths \cup {NoPath}]
  /\ loss \in [Threads -> {"none", "bind", "wrap", "send", "file", "empty", "process"}]
  /\ held \subseteq Threads /\ mates \in [Threads -> SUBSET Threads]
  /\ \A t \in Threads : /\ (doing[t] = "ended") = (loss[t] # "none")
                        /\ doing[t] \in {"exists", "isfile", "open"} => want[t] # NoPath
=============================================================================
