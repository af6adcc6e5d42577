------------------------ MODULE IperfManagerProofs ------------------------
(***************************************************************************)
(* Proofs about IperfManager, for any number of ports and of managers,     *)
(* which may all run at a time.                                            *)
(***************************************************************************)
EXTENDS IperfManager, TLAPS

LEMMA Ids ==
  /\ PortIds \subseteq Nat \ {0} /\ 1 \in PortIds /\ Len(Ports) \in PortIds
  /\ \A p \in PortIds : p # Len(Ports) => p + 1 \in PortIds
  BY PortsAssumption DEF PortIds

LEMMA NextPortTyped ==
  ASSUME TypeOK, NEW m \in Managers, at[m] = "start", NextPort(m)
  PROVE  /\ at' \in [Managers -> {"none", "kill", "look", "remove", "start", "over"}]
         /\ pos' \in [Managers -> PortIds]
  <1>1. CASE pos[m] = Len(Ports)
    BY <1>1 DEF TypeOK, NextPort, Goto
  <1>2. CASE pos[m] # Len(Ports)
    <2>1. pos[m] + 1 \in PortIds /\ pos' = [pos EXCEPT ![m] = pos[m] + 1] /\ at' = at
      BY <1>2, Ids DEF TypeOK, NextPort
    <2> QED
      BY <2>1 DEF TypeOK
  <1> QED
    BY <1>1, <1>2

LEMMA TypeInductive == ASSUME TypeOK, [Next]_vars PROVE TypeOK'
  <1> USE Ids DEF TypeOK, Goto
  <1>1. ASSUME NEW m \in Managers, Fire(m) PROVE TypeOK'
    BY <1>1 DEF Fire, servers, files
  <1>2. ASSUME NEW m \in Managers, Kill(m) PROVE TypeOK'
    <2>1. server' \in [Managers -> [PortIds -> {"none", "starting", "bound", "dying", "gone"}]]
      BY <1>2 DEF Kill, Signalled
    <2> QED
      BY <1>2, <2>1 DEF Kill, files, causes
  <1>3. ASSUME NEW m \in Managers, Look(m) \/ RemoveLog(m) PROVE TypeOK'
    <2>1. at' \in [Managers -> {"none", "kill", "look", "remove", "start", "over"}]
      BY <1>3 DEF Look, RemoveLog
    <2>2. /\ UNCHANGED <<pos, server, writes, logs, rotating, rotated, raced, overlapped>>
          /\ log' \in {0, log} /\ aborted' \in {aborted, PortIds}
      BY <1>3 DEF Look, RemoveLog, servers, files, causes
    <2> QED
      BY <2>1, <2>2
  <1>4. ASSUME NEW m \in Managers, StartServer(m) PROVE TypeOK'
    <2>1. log' \in 0..logs' /\ logs' \in Nat /\ logs <= logs'
      BY <1>4 DEF StartServer
    <2>2. \A x \in 0..logs : x \in 0..logs'
      BY <2>1
    <2>3. writes' = [writes EXCEPT ![m][pos[m]] = log']
      BY <1>4 DEF StartServer
    <2>4. writes' \in [Managers -> [PortIds -> 0..logs']]
      BY <2>1, <2>2, <2>3
    <2>5. server' \in [Managers -> [PortIds -> {"none", "starting", "bound", "dying", "gone"}]]
      BY <1>4 DEF StartServer
    <2>6. /\ at' \in [Managers -> {"none", "kill", "look", "remove", "start", "over"}]
          /\ pos' \in [Managers -> PortIds] /\ UNCHANGED <<rotating, rotated, causes>>
      BY <1>4, NextPortTyped DEF StartServer
    <2>7. 1..logs \subseteq 1..logs'
      BY <2>1
    <2> QED
      BY <2>1, <2>4, <2>5, <2>6, <2>7 DEF causes
  <1>5. ASSUME NEW m \in Managers, StartFails(m) PROVE TypeOK'
    BY <1>5 DEF StartFails, servers, files
  <1>6. ASSUME NEW m \in Managers, NEW p \in PortIds, Iperf3(m, p) PROVE TypeOK'
    <2>1. server' \in [Managers -> [PortIds -> {"none", "starting", "bound", "dying", "gone"}]]
      <3>1. \E x \in {"bound", "gone"} : server' = [server EXCEPT ![m][p] = x]
        BY <1>6 DEF Iperf3, BindPort, BindRefused, Exit
      <3> QED
        BY <3>1
    <2>2. UNCHANGED <<at, pos, writes, files, overlapped>>
      BY <1>6 DEF Iperf3, BindPort, BindRefused, Exit, causes
    <2>3. raced' \subseteq PortIds /\ aborted' \subseteq PortIds
      BY <1>6 DEF Iperf3, BindPort, BindRefused, Exit, causes
    <2> QED
      BY <2>1, <2>2, <2>3 DEF files
  <1>7. CASE UNCHANGED vars
    BY <1>7 DEF vars, servers, files, causes
  <1>8. CASE Rename
    <2>1. log \in 1..logs /\ log' = 0 /\ logs' = logs /\ rotating' = TRUE
          /\ rotated' = rotated \cup {log} /\ UNCHANGED <<at, pos, server, writes, causes>>
      BY <1>8 DEF Rename, servers
    <2> QED
      BY <2>1 DEF causes
  <1>9. CASE Create
    <2>1. /\ logs' \in {logs, logs + 1} /\ log' \in 0..logs' /\ rotating' = FALSE
          /\ rotated' \subseteq 1..logs' /\ UNCHANGED <<at, pos, server, writes, causes>>
      <3>1. CASE logs' = logs + 1 /\ log' = logs'
        <4>1. rotated' \in {rotated, rotated \cup {log}} /\ (log = 0 => rotated' = rotated)
          BY <1>9, <3>1 DEF Create
        <4>2. rotated' \subseteq 1..(logs + 1)
          BY <4>1
        <4> QED
          BY <1>9, <3>1, <4>2 DEF Create, servers
      <3>2. CASE UNCHANGED <<log, logs, rotated>>
        BY <1>9, <3>2 DEF Create, servers
      <3> QED
        BY <1>9, <3>1, <3>2 DEF Create
    <2>2. 0..logs \subseteq 0..logs' /\ logs' \in Nat
      BY <2>1
    <2>3. writes' \in [Managers -> [PortIds -> 0..logs']]
      BY <2>1, <2>2
    <2> QED
      BY <2>1, <2>2, <2>3 DEF causes
  <1> QED
    BY <1>1, <1>2, <1>3, <1>4, <1>5, <1>6, <1>7, <1>8, <1>9 DEF Next, Manage

(* Steps, servers and log files are known ones. *)
THEOREM TypeCorrect == Spec => []TypeOK
  <1>1. ASSUME Init PROVE TypeOK
    <2>1. at = [m \in Managers |-> "none"] /\ pos = [m \in Managers |-> 1]
      BY <1>1 DEF Init
    <2>2. server = [m \in Managers |-> [p \in PortIds |-> "none"]]
          /\ writes = [m \in Managers |-> [p \in PortIds |-> 0]]
      BY <1>1 DEF Init, Each
    <2>3. /\ pos \in [Managers -> PortIds]
          /\ at \in [Managers -> {"none", "kill", "look", "remove", "start", "over"}]
          /\ server \in [Managers -> [PortIds -> {"none", "starting", "bound", "dying", "gone"}]]
      BY <2>1, <2>2, Ids
    <2>4. log = 0 /\ logs = 0 /\ raced = {} /\ aborted = {} /\ overlapped = FALSE
      BY <1>1 DEF Init
    <2>5. writes \in [Managers -> [PortIds -> 0..logs]]
      BY <2>2, <2>4
    <2>6. log \in 0..logs /\ logs \in Nat /\ rotating = FALSE /\ rotated = {}
      BY <1>1, <2>4 DEF Init
    <2> QED
      BY <2>3, <2>4, <2>5, <2>6 DEF TypeOK
  <1> QED
    BY <1>1, TypeInductive, PTL DEF Spec

-----------------------------------------------------------------------------
(* Managers that will start a server for p, unless their loop breaks off. *)
Pending(p) == \E m \in Managers : \/ at[m] \in {"kill", "look"}
                                  \/ at[m] = "remove" /\ (log # 0 \/ rotating)
                                  \/ at[m] = "start" /\ pos[m] <= p

Alive(p) == \E m \in Managers : server[m][p] \in {"starting", "bound"}

FromFirst == \A m \in Managers : at[m] \notin {"start", "over"} => pos[m] = 1

(* Why a port is not lost, at any moment after the first manager began.    *)
Covered == (\E m \in Managers : at[m] # "none") =>
              \A p \in PortIds : Alive(p) \/ p \in raced \cup aborted \/ Pending(p)

LEMMA FromFirstInductive == ASSUME TypeOK, FromFirst, [Next]_vars PROVE FromFirst'
  <1> USE DEF TypeOK, FromFirst, Goto
  <1>1. ASSUME NEW m \in Managers, Fire(m) \/ Kill(m) \/ Look(m) \/ RemoveLog(m) PROVE FromFirst'
    BY <1>1 DEF Fire, Kill, Look, RemoveLog
  <1>2. ASSUME NEW m \in Managers, StartServer(m) \/ StartFails(m) PROVE FromFirst'
    BY <1>2 DEF StartServer, StartFails, NextPort
  <1>3. ASSUME NEW m \in Managers, NEW p \in PortIds, Iperf3(m, p) PROVE FromFirst'
    BY <1>3 DEF Iperf3, BindPort, BindRefused, Exit
  <1>4. CASE Rename \/ Create \/ UNCHANGED vars
    BY <1>4 DEF Rename, Create, vars
  <1> QED
    BY <1>1, <1>2, <1>3, <1>4 DEF Next, Manage

(* A manager that has just taken a step towards its first server covers    *)
(* every port.                                                             *)
LEMMA SelfCovers ==
  ASSUME TypeOK', NEW m \in Managers,
         \/ at'[m] \in {"kill", "look"}
         \/ at'[m] = "remove" /\ log' # 0
         \/ at'[m] = "start" /\ pos'[m] = 1
  PROVE  Covered'
  <1>1. ASSUME NEW p \in PortIds PROVE Pending(p)'
    BY <1>1, Ids DEF Pending
  <1> QED
    BY <1>1 DEF Covered

LEMMA StartServerCovers ==
  ASSUME TypeOK, Covered, NEW m \in Managers, StartServer(m)
  PROVE  Covered'
  <1>1. /\ server' = [server EXCEPT ![m][pos[m]] = "starting"] /\ UNCHANGED causes
        /\ at[m] = "start" /\ log' # 0 /\ pos[m] \in PortIds
    BY DEF StartServer, TypeOK
  <1>2. ASSUME NEW p \in PortIds, p # pos[m], Pending(p) PROVE Pending(p)'
    <2>1. PICK o \in Managers : \/ at[o] \in {"kill", "look"}
                                \/ at[o] = "remove" /\ (log # 0 \/ rotating)
                                \/ at[o] = "start" /\ pos[o] <= p
      BY <1>2 DEF Pending
    <2>2. CASE o # m
      <3>1. at'[o] = at[o] /\ pos'[o] = pos[o]
        BY <2>2 DEF StartServer, NextPort, Goto, TypeOK
      <3> QED
        BY <1>1, <2>1, <3>1 DEF Pending
    <2>3. CASE o = m
      <3>1. pos[m] <= p /\ p <= Len(Ports) /\ pos[m] # Len(Ports)
        BY <1>1, <1>2, <2>1, <2>3, PortsAssumption DEF PortIds
      <3>2. at'[m] = "start" /\ pos'[m] = pos[m] + 1
        BY <1>1, <3>1 DEF StartServer, NextPort, TypeOK
      <3>3. pos[m] + 1 <= p
        BY <1>1, <1>2, <3>1, Ids
      <3> QED
        BY <3>2, <3>3 DEF Pending
    <2> QED
      BY <2>2, <2>3
  <1>3. ASSUME NEW p \in PortIds PROVE Alive(p)' \/ p \in (raced \cup aborted)' \/ Pending(p)'
    <2>1. CASE p = pos[m]
      BY <1>1, <2>1 DEF Alive, TypeOK
    <2>2. CASE p # pos[m] /\ Alive(p)
      BY <1>1, <2>2 DEF Alive, TypeOK
    <2>3. Alive(p) \/ p \in raced \cup aborted \/ Pending(p)
      BY <1>1 DEF Covered
    <2> QED
      BY <1>1, <1>2, <2>1, <2>2, <2>3 DEF causes
  <1> QED
    BY <1>3 DEF Covered

LEMMA StartFailsCovers ==
  ASSUME TypeOK, Covered, NEW m \in Managers, StartFails(m)
  PROVE  Covered'
  <1>1. /\ at[m] = "start" /\ aborted' = aborted \cup {p \in PortIds : p >= pos[m]}
        /\ at' = [at EXCEPT ![m] = "over"] /\ UNCHANGED <<pos, server, log, rotating, raced>>
        /\ pos[m] \in PortIds
    BY DEF StartFails, Goto, servers, files, TypeOK
  <1>2. ASSUME NEW p \in PortIds PROVE Alive(p)' \/ p \in (raced \cup aborted)' \/ Pending(p)'
    <2>1. CASE p >= pos[m]
      BY <1>1, <2>1
    <2>2. CASE ~(p >= pos[m]) /\ Pending(p)
      <3>1. PICK o \in Managers : \/ at[o] \in {"kill", "look"}
                                  \/ at[o] = "remove" /\ (log # 0 \/ rotating)
                                  \/ at[o] = "start" /\ pos[o] <= p
        BY <2>2 DEF Pending
      <3>2. o # m
        BY <1>1, <2>2, <3>1, Ids
      <3> QED
        BY <1>1, <3>1, <3>2 DEF Pending, TypeOK
    <2>3. CASE Alive(p) \/ p \in raced \cup aborted
      BY <1>1, <2>3 DEF Alive
    <2> QED
      BY <1>1, <2>1, <2>2, <2>3 DEF Covered
  <1> QED
    BY <1>2 DEF Covered

LEMMA RemoveLogCovers ==
  ASSUME TypeOK, TypeOK', FromFirst, Covered, NEW m \in Managers, RemoveLog(m)
  PROVE  Covered'
  <1>1. CASE log # 0
    <2>1. at'[m] = "start" /\ pos'[m] = 1
      BY <1>1 DEF RemoveLog, FromFirst, TypeOK, Goto
    <2> QED
      BY <2>1, SelfCovers
  <1>2. CASE log = 0 /\ rotating
    <2>1. aborted' = PortIds
      BY <1>2 DEF RemoveLog
    <2> QED
      BY <2>1 DEF Covered
  <1>3. CASE log = 0 /\ ~rotating
    <2>1. /\ at[m] = "remove" /\ at' = [at EXCEPT ![m] = "over"]
          /\ UNCHANGED <<pos, server, log, rotating, raced, aborted>>
      BY <1>3 DEF RemoveLog, Goto, servers
    <2>2. ASSUME NEW p \in PortIds, Pending(p) PROVE Pending(p)'
      <3>1. PICK o \in Managers : at[o] \in {"kill", "look"} \/ (at[o] = "start" /\ pos[o] <= p)
        BY <1>3, <2>2 DEF Pending
      <3> QED
        BY <2>1, <3>1 DEF Pending, TypeOK
    <2> QED
      BY <2>1, <2>2 DEF Covered, Alive
  <1> QED
    BY <1>1, <1>2, <1>3

LEMMA IperfCovers ==
  ASSUME TypeOK, Covered, NEW m \in Managers, NEW q \in PortIds, Iperf3(m, q)
  PROVE  Covered'
  <1>1. UNCHANGED <<at, pos, log, rotating>>
    BY DEF Iperf3, BindPort, BindRefused, Exit, files
  <1>2. ASSUME NEW p \in PortIds, Pending(p) PROVE Pending(p)'
    BY <1>1, <1>2 DEF Pending
  <1>3. ASSUME NEW p \in PortIds, Alive(p) \/ p \in raced \cup aborted
        PROVE  Alive(p)' \/ p \in (raced \cup aborted)'
    <2>1. CASE BindPort(m, q)
      BY <1>3, <2>1 DEF BindPort, Alive, TypeOK
    <2>2. CASE Exit(m, q)
      BY <1>3, <2>2 DEF Exit, Alive, TypeOK, causes
    <2>3. CASE BindRefused(m, q)
      <3>1. /\ server[m][q] = "starting" /\ server' = [server EXCEPT ![m][q] = "gone"]
            /\ aborted' = aborted /\ raced \subseteq raced'
        BY <2>3 DEF BindRefused
      <3>2. PICK o \in Holders(q) : TRUE
        BY <2>3 DEF BindRefused
      <3>3. CASE \E h \in Holders(q) : server[h][q] = "dying"
        <4>1. q \in raced'
          BY <2>3, <3>3 DEF BindRefused
        <4> QED
          BY <1>3, <3>1, <4>1 DEF Alive, TypeOK
      <3>4. CASE ~\E h \in Holders(q) : server[h][q] = "dying"
        <4>1. o \in Managers /\ server[o][q] = "bound" /\ o # m
          BY <3>1, <3>2, <3>4 DEF Holders
        <4>2. server'[o][q] = "bound"
          BY <3>1, <4>1 DEF TypeOK
        <4> QED
          BY <1>3, <3>1, <4>1, <4>2 DEF Alive, TypeOK
      <3> QED
        BY <3>3, <3>4
    <2> QED
      BY <2>1, <2>2, <2>3 DEF Iperf3
  <1> QED
    BY <1>1, <1>2, <1>3 DEF Covered

LEMMA CoveredInductive ==
  ASSUME TypeOK, TypeOK', FromFirst, Covered, [Next]_vars PROVE Covered'
  <1>1. ASSUME NEW m \in Managers, Fire(m) \/ Kill(m) PROVE Covered'
    <2>1. at'[m] \in {"kill", "look"}
      BY <1>1 DEF Fire, Kill, Goto, TypeOK
    <2> QED
      BY <2>1, SelfCovers
  <1>2. ASSUME NEW m \in Managers, Look(m) PROVE Covered'
    <2>1. \/ at'[m] = "remove" /\ log' # 0
          \/ at'[m] = "start" /\ pos'[m] = 1
      BY <1>2 DEF Look, Goto, TypeOK, FromFirst, files
    <2> QED
      BY <2>1, SelfCovers
  <1>3. CASE UNCHANGED vars
    BY <1>3 DEF vars, servers, files, causes, Covered, Alive, Pending
  <1>4. CASE Rename \/ Create
    <2>1. /\ UNCHANGED <<at, pos, server, raced, aborted>>
          /\ log' # 0 \/ rotating'
      BY <1>4 DEF Rename, Create, servers, causes, TypeOK
    <2>2. ASSUME NEW p \in PortIds, Pending(p) PROVE Pending(p)'
      BY <2>1, <2>2 DEF Pending
    <2> QED
      BY <2>1, <2>2 DEF Covered, Alive
  <1> QED
    BY <1>1, <1>2, <1>3, <1>4, StartServerCovers, StartFailsCovers, RemoveLogCovers, IperfCovers
       DEF Next, Manage

(* However managers overlap, and whenever logrotate runs, a port is only   *)
(* lost because a server was started before the one it replaces let go of  *)
(* the port, because a loop broke off, or because logrotate took the log   *)
(* file from a manager.                                                    *)
THEOREM LossExplained == Spec => []LossCause
  <1>1. Init => FromFirst /\ Covered
    BY DEF Init, FromFirst, Covered
  <1>2. TypeOK /\ Covered => LossCause
    BY DEF LossCause, Settled, Covered, Alive, Pending, Active, TypeOK
  <1> QED
    BY <1>1, <1>2, TypeCorrect, FromFirstInductive, CoveredInductive, PTL DEF Spec

-----------------------------------------------------------------------------
(* As long as managers run one after the other, whoever has killed the     *)
(* servers is alone with the log file, but for logrotate.                  *)
OneByOne ==
  /\ \A m, o \in Managers : Active(m) /\ Active(o) => m = o
  /\ \A m \in Managers, p \in PortIds : server[m][p] \in {"starting", "bound"} =>
       /\ (writes[m][p] = log /\ log # 0) \/ writes[m][p] \in rotated
       /\ \A o \in Managers : at[o] \notin {"look", "remove"}

LEMMA OneByOneInductive ==
  ASSUME TypeOK, ~overlapped => OneByOne, [Next]_vars, ~overlapped' PROVE OneByOne'
  <1>0. OneByOne
    BY DEF Next, Manage, Iperf3, Fire, Kill, Look, RemoveLog, StartServer, StartFails, BindPort,
           BindRefused, Exit, Rename, Create, vars, causes, TypeOK
  <1> USE <1>0 DEF TypeOK, Goto, Active, OneByOne
  <1>1. ASSUME NEW m \in Managers, Fire(m) PROVE OneByOne'
    BY <1>1 DEF Fire, servers, files
  <1>2. ASSUME NEW m \in Managers, Kill(m) PROVE OneByOne'
    <2>1. \A o \in Managers, p \in PortIds : server'[o][p] \notin {"starting", "bound"}
      BY <1>2 DEF Kill, Signalled
    <2> QED
      BY <1>2, <2>1 DEF Kill
  <1>3. ASSUME NEW m \in Managers, Look(m) PROVE OneByOne'
    BY <1>3 DEF Look, servers, files
  <1>4. ASSUME NEW m \in Managers, RemoveLog(m) PROVE OneByOne'
    BY <1>4 DEF RemoveLog, servers
  <1>5. ASSUME NEW m \in Managers, StartServer(m) PROVE OneByOne'
    <2>1. /\ at[m] = "start" /\ server' = [server EXCEPT ![m][pos[m]] = "starting"]
          /\ writes' = [writes EXCEPT ![m][pos[m]] = log'] /\ log' # 0 /\ rotated' = rotated
          /\ log # 0 => log' = log
      BY <1>5 DEF StartServer
    <2>2. at' \in [Managers -> {"none", "kill", "look", "remove", "start", "over"}]
          /\ at'[m] \in {"start", "over"} /\ \A o \in Managers \ {m} : at'[o] = at[o]
      BY <1>5 DEF StartServer, NextPort
    <2>3. \A o \in Managers : Active(o)' => Active(o)
      BY <2>1, <2>2
    <2>4. \A o \in Managers : at'[o] \notin {"look", "remove"}
      BY <2>1, <2>2
    <2>5. ASSUME NEW o \in Managers, NEW p \in PortIds, server'[o][p] \in {"starting", "bound"}
          PROVE  writes'[o][p] = log' \/ writes'[o][p] \in rotated'
      BY <2>1, <2>5
    <2> QED
      BY <2>1, <2>3, <2>4, <2>5
  <1>6. ASSUME NEW m \in Managers, StartFails(m) PROVE OneByOne'
    BY <1>6 DEF StartFails, servers, files
  <1>7. ASSUME NEW m \in Managers, NEW p \in PortIds, Iperf3(m, p) PROVE OneByOne'
    <2>1. /\ UNCHANGED <<at, writes, log, rotated>>
          /\ \E x \in {"bound", "gone"} : server' = [server EXCEPT ![m][p] = x]
          /\ server[m][p] \in {"starting", "bound"} \/ server' = [server EXCEPT ![m][p] = "gone"]
      BY <1>7 DEF Iperf3, BindPort, BindRefused, Exit, files
    <2>2. \A o \in Managers, q \in PortIds :
            server'[o][q] \in {"starting", "bound"} => server[o][q] \in {"starting", "bound"}
      BY <2>1
    <2> QED
      BY <2>1, <2>2
  <1>8. CASE UNCHANGED vars
    BY <1>8 DEF vars, servers, files
  <1>9. CASE Rename \/ Create
    <2>1. UNCHANGED <<at, server, writes>> /\ rotated \subseteq rotated'
      BY <1>9 DEF Rename, Create, servers
    <2>2. log # 0 => log' = log \/ log \in rotated'
      BY <1>9 DEF Rename, Create
    <2> QED
      BY <2>1, <2>2
  <1> QED
    BY <1>1, <1>2, <1>3, <1>4, <1>5, <1>6, <1>7, <1>8, <1>9 DEF Next, Manage

(* What a server reports is found in the log file or in one that logrotate *)
(* has put aside, unless managers have overlapped.                         *)
THEOREM LogFound == Spec => []LogVisible
  <1>1. Init => OneByOne
    BY DEF Init, OneByOne, Active, Each
  <1>2. (~overlapped => OneByOne) => LogVisible
    BY DEF OneByOne, LogVisible
  <1> DEFINE IInv == ~overlapped => OneByOne
  <1>3. TypeOK /\ IInv /\ [Next]_vars => IInv'
    BY OneByOneInductive
  <1>4. IInv => LogVisible
    BY <1>2
  <1>5. Init => IInv
    BY <1>1
  <1> QED
    BY <1>3, <1>4, <1>5, TypeCorrect, PTL DEF Spec
=============================================================================
