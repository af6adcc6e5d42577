--------------------------- MODULE IperfManager ---------------------------
(***************************************************************************)
(* tools/host/iperf3_manager.py: run by server_control.py and every three  *)
(* hours by cron, it replaces the iperf3 servers, one for each port, and   *)
(* their log file.                                                         *)
(*                                                                         *)
(* Nothing keeps a manager from running while another one does (module     *)
(* ServerBoot, OverlapCause). pkill sends its signals and returns; a server*)
(* that got one holds its port a little longer. "iperf3 -D" opens the log  *)
(* file and returns; the server binds its port in the background, or ends. *)
(* Besides, logrotate (nginx/conf/nginx_logrotate.conf, which the Dockerfile*)
(* installs for cron) puts the log file aside and makes a new one. No      *)
(* server is told: the ones that run go on writing to the old file.        *)
(***************************************************************************)
EXTENDS Naturals, Sequences, FiniteSets

CONSTANTS Ports,   \* the ports whose scheme begins with "iperf", in order
          MaxRuns, \* bound: runs of the manager
          MaxRotated \* bound: logrotate does not start with as many files put aside

PortIds  == 1..Len(Ports)
Managers == 1..MaxRuns

ASSUME PortsAssumption == Len(Ports) \in Nat \ {0} /\ MaxRuns \in Nat /\ MaxRotated \in Nat

VARIABLES
  at,      \* at[m]: "none", "kill", "look", "remove", "start" or "over"
  pos,     \* pos[m]: position in the loop of run_cmd
  server,  \* server[m][p]: the iperf3 that m started for port p: "none",
           \* "starting", "bound", "dying" (bound, and signalled) or "gone"
  writes,  \* writes[m][p]: the log file it has open
  log,     \* the log file at the path, 0 if there is none
  logs,    \* log files created so far
  rotating, \* logrotate has renamed the log file and not made the new one yet
  rotated, \* history: log files that logrotate put aside
  raced,   \* history: ports last refused because a dying server held them
  aborted, \* history: ports given up since then by a loop that broke off, or by a
           \* manager that logrotate took the log file from
  overlapped \* history: a manager was started while another one ran

servers == <<server, writes>>
files   == <<log, logs, rotating, rotated>>
causes  == <<raced, aborted, overlapped>>
vars    == <<at, pos, servers, files, causes>>

Each(value) == [m \in Managers |-> [p \in PortIds |-> value]]

Init == /\ at = [m \in Managers |-> "none"] /\ pos = [m \in Managers |-> 1]
        /\ server = Each("none") /\ writes = Each(0)
        /\ log = 0 /\ logs = 0 /\ rotating = FALSE /\ rotated = {}
        /\ raced = {} /\ aborted = {} /\ overlapped = FALSE

Goto(m, step) == at' = [at EXCEPT ![m] = step]
Active(m)     == at[m] \in {"kill", "look", "remove", "start"}

(* server_control.py or cron starts a manager. *)
Fire(m) ==
  /\ at[m] = "none" /\ \A o \in 1..m - 1 : at[o] # "none"
  /\ Goto(m, "kill")
  /\ overlapped' = (overlapped \/ \E o \in Managers : Active(o))
  /\ UNCHANGED <<pos, servers, files, raced, aborted>>

(***************************************************************************)
(* Iperf.clean.                                                            *)
(***************************************************************************)
(* Mutant: "pkill iperf3-server" matches nothing. *)
SignalledNone == server

(* A server that has not bound its port yet ends at once. *)
Signalled ==
  [m \in Managers |-> [p \in PortIds |->
     CASE server[m][p] = "bound"    -> "dying"
       [] server[m][p] = "starting" -> "gone"
       [] OTHER                     -> server[m][p]]]

Kill(m) ==
  /\ at[m] = "kill"
  /\ server' = Signalled
  /\ Goto(m, "look")
  /\ UNCHANGED <<pos, writes, files, causes>>

Look(m) ==
  /\ at[m] = "look"
  /\ Goto(m, IF log = 0 THEN "start" ELSE "remove")
  /\ UNCHANGED <<pos, servers, files, causes>>

(* os.remove raises if another manager or logrotate has taken the file away*)
(* meanwhile, and nothing catches it: this manager starts no server.       *)
RemoveLog(m) ==
  /\ at[m] = "remove"
  /\ Goto(m, IF log = 0 THEN "over" ELSE "start")
  /\ log' = 0
  /\ aborted' = IF log = 0 /\ rotating THEN PortIds ELSE aborted
  /\ UNCHANGED <<pos, servers, logs, rotating, rotated, raced, overlapped>>

(***************************************************************************)
(* Iperf.run_cmd.                                                          *)
(***************************************************************************)
(* Mutant: the loop ends before the last port. *)
NextPortEarly(m) == IF pos[m] + 1 >= Len(Ports) THEN Goto(m, "over") /\ UNCHANGED pos
                    ELSE pos' = [pos EXCEPT ![m] = @ + 1] /\ UNCHANGED at

NextPort(m) == IF pos[m] = Len(Ports) THEN Goto(m, "over") /\ UNCHANGED pos
               ELSE pos' = [pos EXCEPT ![m] = @ + 1] /\ UNCHANGED at

(* "iperf3 -s -p {port} --logfile {log_file} -D". *)
StartServer(m) ==
  /\ at[m] = "start"
  /\ server' = [server EXCEPT ![m][pos[m]] = "starting"]
  /\ log' = IF log = 0 THEN logs + 1 ELSE log
  /\ logs' = IF log = 0 THEN logs + 1 ELSE logs
  /\ writes' = [writes EXCEPT ![m][pos[m]] = log']
  /\ NextPort(m)
  /\ UNCHANGED <<rotating, rotated, causes>>

(* The command fails (no process, no log file): the loop is left with an   *)
(* AssertionError, and the script ends as if all were well.                *)
StartFails(m) ==
  /\ at[m] = "start"
  /\ aborted' = aborted \cup {p \in PortIds : p >= pos[m]}
  /\ Goto(m, "over")
  /\ UNCHANGED <<pos, servers, files, raced, overlapped>>

Manage(m) == Kill(m) \/ Look(m) \/ RemoveLog(m) \/ StartServer(m) \/ StartFails(m)

(***************************************************************************)
(* iperf3.                                                                 *)
(***************************************************************************)
Holders(p) == {m \in Managers : server[m][p] \in {"bound", "dying"}}

BindPort(m, p) ==
  /\ server[m][p] = "starting" /\ Holders(p) = {}
  /\ server' = [server EXCEPT ![m][p] = "bound"]
  /\ raced' = raced \ {p} /\ aborted' = aborted \ {p}
  /\ UNCHANGED <<at, pos, writes, files, overlapped>>

(* The port is in use: the server ends, which its log tells. *)
BindRefused(m, p) ==
  /\ server[m][p] = "starting" /\ Holders(p) # {}
  /\ server' = [server EXCEPT ![m][p] = "gone"]
  /\ raced' = IF \E o \in Holders(p) : server[o][p] = "dying" THEN raced \cup {p} ELSE raced
  /\ UNCHANGED <<at, pos, writes, files, aborted, overlapped>>

Exit(m, p) ==
  /\ server[m][p] = "dying"
  /\ server' = [server EXCEPT ![m][p] = "gone"]
  /\ UNCHANGED <<at, pos, writes, files, causes>>

Iperf3(m, p) == BindPort(m, p) \/ BindRefused(m, p) \/ Exit(m, p)

(***************************************************************************)
(* logrotate: weekly, create, notifempty.                                  *)
(***************************************************************************)
(* A log file no server has opened is empty, and left alone.               *)
Rename ==
  /\ ~rotating /\ Cardinality(rotated) < MaxRotated
  /\ log # 0 /\ \E m \in Managers, p \in PortIds : writes[m][p] = log
  /\ rotating' = TRUE /\ rotated' = rotated \cup {log} /\ log' = 0
  /\ UNCHANGED <<at, pos, servers, logs, causes>>

(* Another file that was made in the meantime is moved out of the way, or  *)
(* the creation given up.                                                  *)
Create ==
  /\ rotating /\ rotating' = FALSE
  /\ \/ /\ logs' = logs + 1 /\ log' = logs'
        /\ rotated' = IF log = 0 THEN rotated ELSE rotated \cup {log}
     \/ log # 0 /\ UNCHANGED <<log, logs, rotated>>
  /\ UNCHANGED <<at, pos, servers, causes>>

Next == \/ \E m \in Managers : Fire(m) \/ Manage(m) \/ \E p \in PortIds : Iperf3(m, p)
        \/ Rename \/ Create

Spec == Init /\ [][Next]_vars

-----------------------------------------------------------------------------
(***************************************************************************)
(* Properties.                                                             *)
(***************************************************************************)

(* Steps, servers and log files are known ones. *)
TypeOK ==
  /\ at \in [Managers -> {"none", "kill", "look", "remove", "start", "over"}]
  /\ pos \in [Managers -> PortIds]
  /\ server \in [Managers -> [PortIds -> {"none", "starting", "bound", "dying", "gone"}]]
  /\ log \in 0..logs /\ logs \in Nat
  /\ writes \in [Managers -> [PortIds -> 0..logs]]
  /\ rotating \in BOOLEAN /\ rotated \subseteq 1..logs
  /\ raced \subseteq PortIds /\ aborted \subseteq PortIds /\ overlapped \in BOOLEAN

Settled == /\ \E m \in Managers : at[m] = "over"
           /\ \A m \in Managers : ~Active(m)
           /\ \A m \in Managers, p \in PortIds : server[m][p] # "starting"

(* Once the managers and the servers they started have settled, a port only*)
(* has no server if the last one was started too early, while a server that*)
(* was killed still held the port, if a loop broke off before it, or if    *)
(* logrotate took the log file away between test and removal. This includes*)
(* managers that run at a time: the ones that kill the servers of another, *)
(* and the ones that end because another one removed the log file.         *)
LossCause ==
  Settled => \A p \in PortIds : \/ \E m \in Managers : server[m][p] = "bound"
                                \/ p \in raced \cup aborted

(* What a running server reports is found in the log file, or in one that  *)
(* logrotate has put aside, as long as managers run one after the other:   *)
(* they never remove a file that a server has open which they did not kill.*)
LogVisible ==
  ~overlapped => \A m \in Managers, p \in PortIds :
                   server[m][p] \in {"starting", "bound"} =>
                     writes[m][p] = log \/ writes[m][p] \in rotated
=============================================================================
