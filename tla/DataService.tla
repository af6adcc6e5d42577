---------------------------- MODULE DataService ----------------------------
(***************************************************************************)
(* The container of the services as a whole: "server configure" (module    *)
(* ServerBoot) together with the threads that answer datagrams, which read *)
(* the files it makes (module UdpServers).                                 *)
(*                                                                         *)
(* The parts share the files, and the life of the processes: the threads   *)
(* of a background server start when it has bound its ports, and end with  *)
(* the container. A run by hand starts the servers again; bind() then fails*)
(* for every socket that the old process has, also for one whose thread    *)
(* was ended, and the new process only gets what the old one could not     *)
(* bind, if that.                                                          *)
(*                                                                         *)
(* get_file takes any path: one stands for all that are not of the files   *)
(* made here.                                                              *)
(***************************************************************************)
EXTENDS ServerBoot

CONSTANTS Threads, Process, Echoing, Handler, Secure, Joined,  \* see UdpServers
          Wanted  \* bound: the files that are requested

VARIABLES doing, want, held, mates, loss, \* see UdpServers
          byHand  \* history: runs by hand in this container: "run", "forced"

DataPath(f) == <<"files", f>>
PortsPath   == <<"api", 0>>
ForeignPath == <<"logs", 0>>
Paths       == {DataPath(f) : f \in Wanted} \cup {PortsPath, ForeignPath}

Present == {DataPath(f) : f \in {g \in FileIds : file[g] # "none"}}
           \cup {path \in {PortsPath} : ports # "none"}

Udp == INSTANCE UdpServers WITH NoPath <- <<>>, present <- Present, Elsewhere <- {ForeignPath}

ASSUME ThreadAssumption ==
  /\ Echoing \subseteq Threads /\ Handler \subseteq Threads \ Echoing
  /\ Secure \subseteq Threads \ Handler
  /\ Wanted \subseteq FileIds
  /\ Process \in [Threads -> Servers]

threads     == <<doing, want, held, mates, loss>>
serviceVars == <<vars, threads, byHand>>

ServiceInit == Init /\ Udp!UdpInit /\ byHand = {}

(* The processes that bind their ports in a step of ServerBoot: those that *)
(* serve from now on, and maybe others, of servers that do so already.     *)
Launched(processes) ==
  LET bound == {s \in Servers : starting'[s] < starting[s] /\ s \in serving'} IN
  serving' \ serving \subseteq processes /\ processes \subseteq bound

(* What a step of ServerBoot means for the threads. *)
Threaded(Step) ==
  /\ Step
  /\ IF up' THEN /\ \E processes \in SUBSET Servers : Launched(processes) /\ Udp!Launch(processes)
                 /\ byHand' = IF runs' > runs /\ live'
                                THEN byHand \cup {"run"} \cup {x \in {"forced"} : force'}
                                ELSE byHand
            ELSE Udp!StopAll /\ byHand' = {}

ThreadSteps(t) == /\ Udp!ThreadStep(t) \/ Udp!Release(t)
                  /\ UNCHANGED <<vars, byHand>>

(* A server has lost its last process, whose threads have all ended or     *)
(* whose main thread raised.                                               *)
ProcessEnds(s) ==
  /\ s \in serving
  /\ \/ s \in Joined /\ (\A t \in held : Process[t] # s) /\ UNCHANGED threads
     \/ Udp!Raises(s)
  /\ serving' = serving \ {s}
  /\ UNCHANGED <<run, disk, up, nginx, cron, rules, starting, managers, byHand>>

ServiceNext == \/ Threaded(Next)
               \/ \E s \in Servers : ProcessEnds(s)
               \/ \E t \in Threads : ThreadSteps(t)

ServiceSpec == ServiceInit /\ [][ServiceNext]_serviceVars

-----------------------------------------------------------------------------
(***************************************************************************)
(* Properties.                                                             *)
(***************************************************************************)

(* The state of both parts, and threads only run in a process that serves  *)
(* and on a socket that is bound.                                          *)
ServiceTypeOK ==
  /\ TypeOK /\ Udp!ThreadsOK /\ byHand \subseteq {"run", "forced"}
  /\ \A t \in Threads : doing[t] \notin {"down", "ended"} => Process[t] \in serving /\ t \in held

(* Over a file of the service that went away between test and open, a      *)
(* thread is only lost if the container was configured by hand since it was*)
(* started: with -f, which removes the folders, or, for ports.json, in any *)
(* way. Boots, stops and failures never cost a thread. Nothing of the kind *)
(* holds for the other files that can be requested.                        *)
FileLossCause ==
  \A t \in Threads : loss[t] = "file" /\ want[t] # ForeignPath =>
    (IF want[t] = PortsPath THEN "run" ELSE "forced") \in byHand

(* A thread that was ended after it had got its socket is only back after  *)
(* the container was stopped, whatever is run by hand, unless its process  *)
(* has ended: with its last thread, or by an exception in the main one.    *)
OnlyRestartRepairs ==
  [][\A t \in Threads :
       doing[t] = "ended" /\ loss[t] \notin {"bind", "process"} /\ doing'[t] # "ended" =>
         ~up' \/ Udp!Over(t)]_serviceVars
=============================================================================
