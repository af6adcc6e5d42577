------------------------- MODULE DataServiceProofs ------------------------
(***************************************************************************)
(* Proofs about DataService, for any files, servers and threads, and any   *)
(* number of runs, stops, failures and requests. What ServerBootProofs     *)
(* shows of the boot is used here for a step of it at a time, since        *)
(* ProcessEnds is not a step of ServerBoot.                                *)
(***************************************************************************)
EXTENDS DataService, ServerBootProofs

BootInv == Typed /\ Phases /\ Ordered

LEMMA BootInductive ==
  ASSUME BootInv, Threaded(Next) \/ \E s \in Servers : ProcessEnds(s) PROVE BootInv'
  <1>1. ASSUME Next PROVE BootInv'
    BY <1>1, TypedInductive, PhasesInductive, OrderedInductive DEF BootInv
  <1>2. ASSUME NEW s \in Servers, ProcessEnds(s) PROVE BootInv'
    <2>1. /\ UNCHANGED <<run, disk, up, nginx, cron, rules, starting, managers>>
          /\ serving' \subseteq serving
      BY <1>2 DEF ProcessEnds
    <2>2. Typed'
      BY <2>1 DEF BootInv, Typed, TypeOK, Counted, run, disk
    <2>3. Phases'
      BY <2>1 DEF BootInv, Phases, run
    <2>4. Ordered'
      BY <2>1 DEF BootInv, Ordered, PublishedWhenServing, run, disk
    <2> QED
      BY <2>2, <2>3, <2>4 DEF BootInv
  <1> QED
    BY <1>1, <1>2 DEF Threaded

-----------------------------------------------------------------------------
(* What a step of the boot can do to the threads. *)

(* A server is only gone with the container. *)
LEMMA ServingGrows == ASSUME Next, up' PROVE serving \subseteq serving'
  BY DEF Next, Configure, ClearDataFolder, CheckFile, CreateFile, ClearPortConfig, OpenPortConfig,
         DumpPorts, ConfigureRules, RulesConfigured, StartServer, StartScript, AddCronEntry,
         RestartCron, Fail, Stop, Down, Boot, Recreate, Rerun, Bind, StartFails, CronFires,
         ManagerEnds, memory

(* While servers answer, a path only goes away by a run by hand, and that  *)
(* of a data file only with -f.                                            *)
LEMMA Removal ==
  ASSUME BootInv, Next, up', serving # {}, NEW path \in Present, path \notin Present'
  PROVE  at # "idle" /\ live /\ (path # PortsPath => force)
  <1>1. file \in [FileIds -> {"none", "part", "whole"}]
    BY DEF BootInv, Typed, TypeOK
  <1>2. ASSUME UNCHANGED <<file, ports>> PROVE FALSE
    BY <1>2 DEF Present
  <1>3. CASE ClearDataFolder
    <2>1. /\ at = "folder" /\ ports' = ports
          /\ file' = [f \in FileIds |-> IF force /\ Files[f] = Files[i] THEN "none" ELSE file[f]]
      BY <1>3 DEF ClearDataFolder
    <2>2. force
      BY <1>1, <1>2, <2>1
    <2>3. live
      BY <2>1 DEF BootInv, Ordered
    <2> QED
      BY <2>1, <2>2, <2>3
  <1>4. CASE CheckFile \/ CreateFile
    <2>1. /\ ports' = ports
          /\ \E x \in {"part", "whole"} : file' \in {file, [file EXCEPT ![i] = x]}
      BY <1>4 DEF CheckFile, CreateFile
    <2>2. \A f \in FileIds : file[f] # "none" => file'[f] # "none"
      BY <1>1, <2>1
    <2> QED
      BY <2>1, <2>2 DEF Present
  <1>5. CASE ClearPortConfig
    <2>1. at = "unpublish" /\ file' = file
      BY <1>5 DEF ClearPortConfig
    <2>2. path = PortsPath
      BY <2>1 DEF Present
    <2>3. live
      BY <2>1 DEF BootInv, Ordered
    <2> QED
      BY <2>1, <2>2, <2>3
  <1>6. CASE OpenPortConfig \/ DumpPorts
    <2>1. file' = file /\ ports' # "none"
      BY <1>6 DEF OpenPortConfig, DumpPorts
    <2> QED
      BY <2>1 DEF Present
  <1>7. CASE Recreate
    BY <1>7 DEF Recreate, memory
  <1> QED
    BY <1>2, <1>3, <1>4, <1>5, <1>6, <1>7
       DEF Next, Configure, ConfigureRules, RulesConfigured, StartServer, StartScript,
           AddCronEntry, RestartCron, Fail, Stop, Boot, Rerun, Bind, StartFails, CronFires,
           ManagerEnds, disk

(* The option of the run that goes on is that it was started with.         *)
LEMMA RunGoesOn ==
  ASSUME BootInv, Next, up', at' # "idle", live'
  PROVE  \/ runs' > runs
         \/ at # "idle" /\ live /\ force' = force
  <1>1. CASE Configure
    <2>1. at # "idle"
      BY <1>1 DEF Configure, ClearDataFolder, CheckFile, CreateFile, ClearPortConfig,
                  OpenPortConfig, DumpPorts, ConfigureRules, RulesConfigured, StartServer,
                  StartScript, AddCronEntry, RestartCron
    <2>2. UNCHANGED <<force, live>>
      BY <1>1 DEF Configure, ClearDataFolder, CheckFile, CreateFile, NextFile, ClearPortConfig,
                  OpenPortConfig, DumpPorts, ConfigureRules, RulesConfigured, StartServer,
                  StartScript, AddCronEntry, NextScript, RestartCron, Goto
    <2> QED
      BY <2>1, <2>2
  <1>2. CASE Rerun
    BY <1>2 DEF Rerun, Begin, BootInv, Typed, TypeOK
  <1>3. CASE Boot
    BY <1>3 DEF Boot, Begin
  <1>4. CASE UNCHANGED run
    BY <1>4 DEF run
  <1> QED
    BY <1>1, <1>2, <1>3, <1>4
       DEF Next, Fail, Stop, Recreate, Bind, StartFails, CronFires, ManagerEnds

-----------------------------------------------------------------------------
(* The threads. A thread that has tested a path of the service waits for   *)
(* one that is there, unless something in byHand may have removed it.      *)
Alive(t)    == doing[t] \notin {"down", "ended"}
Cause(path) == IF path = PortsPath THEN "run" ELSE "forced"
There(path) == path \in Present \cup {ForeignPath}

Threading ==
  /\ Udp!ThreadsOK
  /\ \A t \in Threads : Alive(t) => Process[t] \in serving /\ t \in held
  /\ at # "idle" /\ live => "run" \in byHand /\ (force => "forced" \in byHand)
  /\ \A t \in Threads : doing[t] \in {"isfile", "open"} =>
                           There(want[t]) \/ Cause(want[t]) \in byHand
  /\ FileLossCause

(* The sockets of a process are bound together and released together.      *)
Joint ==
  /\ \A t \in Threads : \A u \in mates[t] : Process[u] = Process[t]
  /\ \A t \in held : t \in mates[t] /\ \A u \in mates[t] : u \in held /\ mates[u] = mates[t]

(* A thread that had its socket and has lost it is one of a process that is*)
(* over.                                                                   *)
Bounden == \A t \in Threads :
  doing[t] = "ended" /\ loss[t] \notin {"bind", "process"} => t \in held \/ Udp!Over(t)

Inv == BootInv /\ Threading /\ Joint /\ Bounden

(* What a step of the boot means for the threads of the processes it starts.*)
Launches(new, got, failed, processes) ==
  /\ new = {t \in Threads : Process[t] \in processes /\ t \notin held}
  /\ got \subseteq new /\ failed \subseteq got
  /\ doing' = [t \in Threads |-> IF t \in got \ failed THEN "recvfrom"
                                 ELSE IF t \in new THEN "ended" ELSE doing[t]]
  /\ loss' = [t \in Threads |-> IF t \in failed THEN "wrap"
                                ELSE IF t \in got THEN "none"
                                ELSE IF t \in new THEN "bind" ELSE loss[t]]
  /\ want' = [t \in Threads |-> IF t \in new THEN <<>> ELSE want[t]]
  /\ held' = held \cup got
  /\ mates' = [t \in Threads |-> IF t \in got THEN {u \in got : Process[u] = Process[t]}
                                 ELSE mates[t]]

LEMMA LaunchFound ==
  ASSUME Threaded(Next), up'
  PROVE  /\ Next /\ byHand \subseteq byHand'
         /\ \E processes \in SUBSET Servers : \E new, got, failed :
              processes \subseteq serving' /\ Launches(new, got, failed, processes)
  <1>1. /\ Next /\ byHand \subseteq byHand'
        /\ \E processes \in SUBSET Servers : Launched(processes) /\ Udp!Launch(processes)
    BY DEF Threaded
  <1>2. PICK processes \in SUBSET Servers : Launched(processes) /\ Udp!Launch(processes)
    BY <1>1
  <1>3. processes \subseteq serving'
    BY <1>2 DEF Launched
  <1> DEFINE new == {t \in Threads : Process[t] \in processes /\ t \notin held}
  <1>4. \E got, failed : Launches(new, got, failed, processes)
    BY <1>2 DEF Udp!Launch, Udp!Free, Launches
  <1> QED
    BY <1>1, <1>3, <1>4

LEMMA LaunchThreading ==
  ASSUME Inv, Threaded(Next), up' PROVE Threading'
  <1>1. Next /\ serving \subseteq serving' /\ byHand \subseteq byHand'
    BY ServingGrows, LaunchFound
  <1>2. PICK processes \in SUBSET Servers : \E new, got, failed :
          processes \subseteq serving' /\ Launches(new, got, failed, processes)
    BY LaunchFound
  <1>3. PICK new, got, failed : processes \subseteq serving' /\ Launches(new, got, failed, processes)
    BY <1>2
  <1> USE DEF Launches
  <1>4. Udp!ThreadsOK'
    BY <1>3 DEF Inv, Threading, Udp!ThreadsOK
  <1>5. \A t \in Threads : Alive(t)' => Process[t] \in serving' /\ t \in held'
    BY <1>1, <1>3 DEF Inv, Threading, Alive
  <1>6. at' # "idle" /\ live' => "run" \in byHand' /\ (force' => "forced" \in byHand')
    <2>1. CASE runs' > runs /\ live'
      BY <2>1 DEF Threaded
    <2>2. CASE ~(runs' > runs) /\ live' /\ at' # "idle"
      BY <1>1, <2>2, RunGoesOn DEF Inv, Threading
    <2> QED
      BY <2>1, <2>2
  <1>7. ASSUME NEW t \in Threads, doing'[t] \in {"isfile", "open"}
        PROVE  There(want[t])' \/ Cause(want'[t]) \in byHand'
    <2>1. t \notin new /\ doing[t] = doing'[t] /\ want'[t] = want[t]
      BY <1>3, <1>7
    <2>2. serving # {}
      BY <1>7, <2>1 DEF Inv, Threading, Alive
    <2>3. CASE want[t] \in Present /\ want[t] \notin Present'
      <3>1. at # "idle" /\ live /\ (want[t] # PortsPath => force)
        BY <1>1, <2>2, <2>3, Removal DEF Inv
      <3> QED
        BY <1>1, <2>1, <3>1 DEF Inv, Threading, Cause
    <2>4. CASE want[t] \notin Present \/ want[t] \in Present'
      BY <1>1, <1>7, <2>1, <2>4 DEF Inv, Threading, There
    <2> QED
      BY <2>3, <2>4
  <1>8. FileLossCause'
    BY <1>1, <1>3 DEF Inv, Threading, FileLossCause, PortsPath, ForeignPath
  <1> QED
    BY <1>4, <1>5, <1>6, <1>7, <1>8 DEF Threading, Cause, PortsPath

LEMMA LaunchBounden ==
  ASSUME Inv, Threaded(Next), up' PROVE Joint' /\ Bounden'
  <1>1. PICK processes \in SUBSET Servers : \E new, got, failed :
          processes \subseteq serving' /\ Launches(new, got, failed, processes)
    BY LaunchFound
  <1>2. PICK new, got, failed : processes \subseteq serving' /\ Launches(new, got, failed, processes)
    BY <1>1
  <1> USE DEF Launches
  <1>3. Joint'
    <2>1. /\ held \subseteq Threads /\ new \subseteq Threads /\ held' = held \cup got
          /\ got \cap held = {} /\ got \subseteq Threads
          /\ mates \in [Threads -> SUBSET Threads]
      BY <1>2 DEF Inv, Threading, Udp!ThreadsOK
    <2>2. \A t \in Threads : mates'[t] = IF t \in got THEN {u \in got : Process[u] = Process[t]} ELSE mates[t]
      BY <1>2
    <2>3. \A t \in Threads : \A u \in mates'[t] : Process[u] = Process[t]
      BY <2>2 DEF Inv, Joint
    <2>4. ASSUME NEW t \in got
          PROVE  t \in mates'[t] /\ \A u \in mates'[t] : u \in held' /\ mates'[u] = mates'[t]
      <3>1. mates'[t] = {u \in got : Process[u] = Process[t]}
        BY <2>1, <2>2
      <3>2. \A u \in got : Process[u] = Process[t] => mates'[u] = {v \in got : Process[v] = Process[t]}
        BY <2>1, <2>2
      <3> QED
        BY <2>1, <3>1, <3>2
    <2>5. ASSUME NEW t \in held
          PROVE  t \in mates'[t] /\ \A u \in mates'[t] : u \in held' /\ mates'[u] = mates'[t]
      <3>1. mates'[t] = mates[t] /\ t \in mates[t] /\ \A u \in mates[t] : u \in held /\ mates[u] = mates[t]
        BY <2>1, <2>2 DEF Inv, Joint
      <3> QED
        BY <2>1, <2>2, <3>1
    <2> QED
      BY <2>1, <2>3, <2>4, <2>5 DEF Joint
  <1>4. ASSUME NEW t \in Threads, doing'[t] = "ended", loss'[t] \notin {"bind", "process"},
               t \notin held'
        PROVE  Udp!Over(t)'
    <2>1. t \notin new /\ t \notin held
      BY <1>2, <1>4
    <2>2. doing[t] = "ended" /\ loss[t] \notin {"bind", "process"} /\ mates'[t] = mates[t]
      BY <1>2, <1>4, <2>1
    <2>3. Udp!Over(t)
      BY <2>1, <2>2 DEF Inv, Bounden
    <2>4. \A u \in mates[t] : u \in Threads /\ Process[u] \notin processes
      BY <1>2, <2>1 DEF Inv, Joint, Threading, Udp!ThreadsOK
    <2> QED
      BY <1>2, <2>2, <2>3, <2>4 DEF Udp!Over
  <1> QED
    BY <1>3, <1>4 DEF Bounden

LEMMA StopKeeps ==
  ASSUME Inv, Threaded(Next), ~up' PROVE Threading' /\ Joint' /\ Bounden'
  <1>1. /\ doing' = [t \in Threads |-> "down"] /\ want' = [t \in Threads |-> <<>>]
        /\ held' = {} /\ mates' = [t \in Threads |-> {}]
        /\ loss' = [t \in Threads |-> "none"] /\ Next
    BY DEF Threaded, Udp!StopAll
  <1>2. BootInv'
    BY BootInductive DEF Inv
  <1>3. at' = "idle"
    BY <1>2 DEF BootInv, Phases
  <1> QED
    BY <1>1, <1>3 DEF Threading, Joint, Bounden, Alive, FileLossCause, Udp!ThreadsOK

LEMMA EndKeeps ==
  ASSUME Inv, NEW s \in Servers, ProcessEnds(s) PROVE Threading' /\ Joint' /\ Bounden'
  <1>1. UNCHANGED <<run, disk, byHand>> /\ serving' = serving \ {s}
    BY DEF ProcessEnds
  <1>2. Present' = Present /\ UNCHANGED <<at, live, force>>
    BY <1>1 DEF Present, run, disk
  <1>3. CASE (\A t \in held : Process[t] # s) /\ UNCHANGED threads
    <2>1. UNCHANGED <<doing, want, held, mates, loss>>
      BY <1>3 DEF threads
    <2>2. Threading'
      BY <1>1, <1>2, <1>3, <2>1 DEF Inv, Threading, Alive, There, FileLossCause, Udp!ThreadsOK
    <2> QED
      BY <2>1, <2>2 DEF Inv, Joint, Bounden, Udp!Over
  <1>4. CASE Udp!Raises(s)
    <2> DEFINE lost == {t \in held : Process[t] = s}
    <2>1. /\ held' = held \ lost
          /\ doing' = [t \in Threads |-> IF t \in lost THEN "ended" ELSE doing[t]]
          /\ loss' = [t \in Threads |-> IF t \in lost THEN "process" ELSE loss[t]]
          /\ UNCHANGED <<want, mates>>
      BY <1>4 DEF Udp!Raises
    <2>2. Udp!ThreadsOK'
      BY <2>1 DEF Inv, Threading, Udp!ThreadsOK
    <2>3. \A t \in Threads : Alive(t)' => Process[t] \in serving' /\ t \in held'
      BY <1>1, <2>1 DEF Inv, Threading, Alive
    <2>4. FileLossCause'
      BY <1>1, <2>1 DEF Inv, Threading, FileLossCause
    <2>5. \A t \in Threads : doing'[t] \in {"isfile", "open"} =>
                             There(want[t]) \/ Cause(want[t]) \in byHand
      BY <2>1 DEF Inv, Threading
    <2>6. Threading'
      BY <1>1, <1>2, <2>1, <2>2, <2>3, <2>4, <2>5 DEF Inv, Threading, There
    <2>7. Joint'
      BY <2>1 DEF Inv, Joint, Threading, Udp!ThreadsOK
    <2>8. ASSUME NEW t \in Threads, Udp!Over(t) PROVE Udp!Over(t)'
      BY <2>1, <2>8 DEF Udp!Over, Inv, Threading, Udp!ThreadsOK
    <2>9. Bounden'
      BY <2>1, <2>8 DEF Inv, Bounden
    <2> QED
      BY <2>6, <2>7, <2>9
  <1> QED
    BY <1>3, <1>4 DEF ProcessEnds

LEMMA PathsNamed == \A path \in Paths : path # <<>>
  BY DEF Paths, DataPath, PortsPath, ForeignPath

(* What a thread does, it does to itself. *)
Moves(t, step, path, cause) ==
  /\ doing' = [doing EXCEPT ![t] = step]
  /\ want' = [want EXCEPT ![t] = path]
  /\ loss' = [loss EXCEPT ![t] = cause]
  /\ UNCHANGED <<held, mates>>

Lawful(t, step, path, cause) ==
  /\ step \in {"recvfrom", "exists", "isfile", "open", "send", "ended"}
  /\ path \in Paths \cup {<<>>} /\ cause \in {"none", "send", "file", "empty"}
  /\ (step = "ended") = (cause # "none")
  /\ step \in {"exists", "isfile", "open"} => path # <<>>
  /\ step \in {"isfile", "open"} => There(path)
  /\ cause = "file" => doing[t] = "open" /\ path = want[t] /\ path \notin Present \ {ForeignPath}

LEMMA FoundThere ==
  ASSUME NEW path, NEW found \in Udp!Found(path)
  PROVE  /\ found \in BOOLEAN
         /\ found => There(path)
         /\ ~found => path \notin Present \ {ForeignPath}
  BY DEF Udp!Found, There

LEMMA ThreadMoves ==
  ASSUME Udp!ThreadsOK, NEW t \in Threads, Udp!ThreadStep(t)
  PROVE  Alive(t) /\ \E step, path, cause : Moves(t, step, path, cause) /\ Lawful(t, step, path, cause)
  <1> USE DEF Alive, Udp!ThreadsOK, Udp!Goto, Udp!Ends, Udp!process
  <1>1. CASE Udp!Request(t)
    <2>1. PICK path \in Paths : Moves(t, "exists", path, "none")
      BY <1>1 DEF Udp!Request, Moves
    <2>2. Lawful(t, "exists", path, "none")
      BY PathsNamed DEF Lawful
    <2> QED
      BY <1>1, <2>1, <2>2 DEF Udp!Request
  <1>2. CASE Udp!Exists(t) \/ Udp!IsFile(t)
    <2>1. PICK found \in Udp!Found(want[t]), step \in {"isfile", "open", "send"} :
            /\ Udp!Goto(t, step) /\ UNCHANGED want
            /\ step # "send" => found
      BY <1>2 DEF Udp!Exists, Udp!IsFile
    <2>2. doing[t] \in {"exists", "isfile"}
      BY <1>2 DEF Udp!Exists, Udp!IsFile
    <2>3. Moves(t, step, want[t], "none")
      BY <2>1, <2>2 DEF Moves
    <2>4. Lawful(t, step, want[t], "none")
      BY <2>1, <2>2, FoundThere DEF Lawful
    <2> QED
      BY <2>2, <2>3, <2>4
  <1>3. CASE Udp!OpenFile(t)
    <2>1. PICK found \in Udp!Found(want[t]) :
            (IF found THEN Udp!Goto(t, "send") ELSE Udp!Ends(t, "file")) /\ UNCHANGED want
      BY <1>3 DEF Udp!OpenFile
    <2>2. doing[t] = "open"
      BY <1>3 DEF Udp!OpenFile
    <2>3. CASE found
      <3>1. Moves(t, "send", want[t], "none")
        BY <2>1, <2>2, <2>3 DEF Moves
      <3>2. Lawful(t, "send", want[t], "none")
        BY DEF Lawful
      <3> QED
        BY <2>2, <3>1, <3>2
    <2>4. CASE ~found
      <3>1. Moves(t, "ended", want[t], "file")
        BY <2>1, <2>4 DEF Moves
      <3>2. Lawful(t, "ended", want[t], "file")
        BY <2>2, <2>4, FoundThere DEF Lawful
      <3> QED
        BY <2>2, <3>1, <3>2
    <2> QED
      BY <2>3, <2>4
  <1>4. CASE Udp!SendFile(t)
    <2>1. Moves(t, "recvfrom", <<>>, "none") \/ Moves(t, "ended", <<>>, "send")
      BY <1>4 DEF Udp!SendFile, Moves
    <2>2. Lawful(t, "recvfrom", <<>>, "none") /\ Lawful(t, "ended", <<>>, "send")
      BY DEF Lawful
    <2> QED
      BY <1>4, <2>1, <2>2 DEF Udp!SendFile
  <1>5. CASE Udp!EchoFails(t) \/ Udp!EmptyDatagram(t)
    <2>1. PICK cause \in {"send", "empty"} : Moves(t, "ended", want[t], cause)
      BY <1>5 DEF Udp!EchoFails, Udp!EmptyDatagram, Moves
    <2>2. Lawful(t, "ended", want[t], cause)
      BY DEF Lawful
    <2> QED
      BY <1>5, <2>1, <2>2 DEF Udp!EchoFails, Udp!EmptyDatagram
  <1> QED
    BY <1>1, <1>2, <1>3, <1>4, <1>5 DEF Udp!ThreadStep

LEMMA ThreadKeeps ==
  ASSUME Inv, NEW t \in Threads, Udp!ThreadStep(t), UNCHANGED <<vars, byHand>>
  PROVE  Threading' /\ Joint' /\ Bounden'
  <1>1. /\ UNCHANGED byHand /\ Present' = Present
        /\ UNCHANGED <<at, live, force, serving>>
    BY DEF Present, vars, run, disk, memory
  <1>2. /\ Alive(t)
        /\ \E step, path, cause : Moves(t, step, path, cause) /\ Lawful(t, step, path, cause)
    BY ThreadMoves DEF Inv, Threading
  <1>3. PICK step, path, cause : Moves(t, step, path, cause) /\ Lawful(t, step, path, cause)
    BY <1>2
  <1>4. Udp!ThreadsOK'
    BY <1>3 DEF Moves, Lawful, Inv, Threading, Udp!ThreadsOK
  <1>5. t \in held /\ held' = held /\ mates' = mates
    BY <1>2, <1>3 DEF Moves, Inv, Threading
  <1>6. \A u \in Threads : Alive(u)' => Process[u] \in serving /\ u \in held
    BY <1>2, <1>3 DEF Moves, Lawful, Inv, Threading, Udp!ThreadsOK, Alive
  <1>7. \A u \in Threads : doing'[u] \in {"isfile", "open"} =>
                            There(want'[u]) \/ Cause(want'[u]) \in byHand
    BY <1>3 DEF Moves, Lawful, Inv, Threading, Udp!ThreadsOK
  <1>8. FileLossCause'
    <2>1. cause = "file" /\ path # ForeignPath => Cause(path) \in byHand
      BY <1>3 DEF Lawful, Inv, Threading, There
    <2> QED
      BY <1>1, <1>3, <2>1
         DEF Moves, Inv, Threading, Udp!ThreadsOK, FileLossCause, Cause, PortsPath, ForeignPath
  <1>9. Threading'
    BY <1>1, <1>4, <1>5, <1>6, <1>7, <1>8 DEF Inv, Threading, Cause, There, PortsPath
  <1>10. ASSUME NEW u \in Threads, Udp!Over(u) PROVE Udp!Over(u)'
    BY <1>2, <1>3, <1>5, <1>10 DEF Moves, Alive, Udp!Over, Inv, Threading, Udp!ThreadsOK
  <1>11. Joint' /\ Bounden'
    BY <1>3, <1>5, <1>10 DEF Moves, Inv, Threading, Joint, Bounden, Udp!ThreadsOK
  <1> QED
    BY <1>9, <1>11

LEMMA ReleaseKeeps ==
  ASSUME Inv, NEW t \in Threads, Udp!Release(t), UNCHANGED <<vars, byHand>>
  PROVE  Threading' /\ Joint' /\ Bounden'
  <1>1. /\ UNCHANGED <<at, live, force, serving, byHand, doing, want, mates, loss>>
        /\ Present' = Present /\ t \in held /\ Udp!Over(t) /\ held' = held \ mates[t]
    BY DEF Udp!Release, Present, vars, run, disk, memory
  <1>2. \A u \in mates[t] : u \in held /\ mates[u] = mates[t] /\ doing[u] = "ended" /\ Process[u] = Process[t]
    BY <1>1 DEF Inv, Joint, Udp!Over
  <1>3. Threading'
    BY <1>1, <1>2 DEF Inv, Threading, Alive, There, FileLossCause, Udp!ThreadsOK
  <1>4. Joint'
    BY <1>1, <1>2 DEF Inv, Joint, Threading, Udp!ThreadsOK
  <1>5. Bounden'
    <2>1. \A u \in Threads : Udp!Over(u)' <=> Udp!Over(u)
      BY <1>1 DEF Udp!Over
    <2>2. \A u \in mates[t] : Udp!Over(u)
      BY <1>1, <1>2 DEF Udp!Over
    <2> QED
      BY <1>1, <2>1, <2>2 DEF Inv, Bounden
  <1> QED
    BY <1>3, <1>4, <1>5

-----------------------------------------------------------------------------
(* The theorems. *)
LEMMA InvAlways == ServiceSpec => []Inv
  <1>1. ASSUME ServiceInit PROVE Inv
    <2>1. BootInv
      BY <1>1, TypedInit, OrderedInit DEF ServiceInit, BootInv
    <2>2. /\ doing = [t \in Threads |-> "down"] /\ want = [t \in Threads |-> <<>>]
          /\ held = {} /\ mates = [t \in Threads |-> {}]
          /\ loss = [t \in Threads |-> "none"] /\ at = "idle"
      BY <1>1 DEF ServiceInit, Init, Udp!UdpInit
    <2> QED
      BY <2>1, <2>2 DEF Inv, Threading, Joint, Bounden, Alive, FileLossCause, Udp!ThreadsOK
  <1>2. ASSUME Inv, [ServiceNext]_serviceVars PROVE Inv'
    <2>1. CASE Threaded(Next) \/ \E s \in Servers : ProcessEnds(s)
      BY <1>2, <2>1, BootInductive, LaunchThreading, LaunchBounden, StopKeeps, EndKeeps DEF Inv
    <2>2. ASSUME NEW t \in Threads, ThreadSteps(t) PROVE Inv'
      <3>1. BootInv'
        BY <1>2, <2>2, TypedInductive, PhasesInductive, OrderedInductive
           DEF Inv, BootInv, ThreadSteps
      <3> QED
        BY <1>2, <2>2, <3>1, ThreadKeeps, ReleaseKeeps DEF Inv, ThreadSteps
    <2>3. CASE UNCHANGED serviceVars
      <3>1. BootInv'
        BY <1>2, <2>3, TypedInductive, PhasesInductive, OrderedInductive
           DEF Inv, BootInv, serviceVars
      <3>2. /\ UNCHANGED <<doing, want, held, mates, loss, byHand, at, live, force, serving>>
            /\ Present' = Present
        BY <2>3 DEF serviceVars, threads, vars, run, disk, memory, Present
      <3> QED
        BY <1>2, <3>1, <3>2
           DEF Inv, Threading, Joint, Bounden, Alive, There, FileLossCause, Udp!ThreadsOK, Udp!Over
    <2> QED
      BY <1>2, <2>1, <2>2, <2>3 DEF ServiceNext
  <1> QED
    BY <1>1, <1>2, PTL DEF ServiceSpec

HandsKnown == byHand \subseteq {"run", "forced"}

LEMMA HandsInductive == ASSUME HandsKnown, [ServiceNext]_serviceVars PROVE HandsKnown'
  BY DEF HandsKnown, ServiceNext, Threaded, ProcessEnds, ThreadSteps, serviceVars

(* A thread that answers or waits is one of a process that serves, however *)
(* often the container is stopped, fails to start or is configured again.  *)
THEOREM ServiceTypeCorrect == ServiceSpec => []ServiceTypeOK
  <1>1. ServiceInit => HandsKnown
    BY DEF ServiceInit, HandsKnown
  <1>2. Inv /\ HandsKnown => ServiceTypeOK
    <2>1. Inv => TypeOK
      BY DEF Inv, BootInv, Typed
    <2>2. Inv => Udp!ThreadsOK
      BY DEF Inv, Threading
    <2>3. Inv => \A t \in Threads : doing[t] \notin {"down", "ended"} =>
                                     Process[t] \in serving /\ t \in held
      BY DEF Inv, Threading, Alive
    <2> QED
      BY <2>1, <2>2, <2>3 DEF ServiceTypeOK, HandsKnown
  <1> QED
    BY <1>1, <1>2, HandsInductive, InvAlways, PTL DEF ServiceSpec

(* A thread is only lost over a file of the service because of a run by    *)
(* hand. Of files elsewhere nothing is claimed.                            *)
THEOREM LossByHand == ServiceSpec => []FileLossCause
  <1>1. Inv => FileLossCause
    BY DEF Inv, Threading
  <1> QED
    BY <1>1, InvAlways, PTL

(* What is run by hand never brings back a thread that was lost after it   *)
(* had got its socket, unless its process has ended.                       *)
THEOREM LostForGood == ServiceSpec => OnlyRestartRepairs
  <1> DEFINE Repair == \A t \in Threads :
               doing[t] = "ended" /\ loss[t] \notin {"bind", "process"} /\ doing'[t] # "ended" =>
                 ~up' \/ Udp!Over(t)
  <1>1. ASSUME Inv, [ServiceNext]_serviceVars PROVE [Repair]_serviceVars
    <2>1. ASSUME Threaded(Next), up', NEW t \in Threads, doing[t] = "ended",
                 loss[t] \notin {"bind", "process"}, doing'[t] # "ended"
          PROVE  Udp!Over(t)
      <3>1. t \notin held
        <4>1. PICK processes \in SUBSET Servers : \E new, got, failed :
                processes \subseteq serving' /\ Launches(new, got, failed, processes)
          BY <2>1, LaunchFound
        <4>2. PICK new, got, failed : Launches(new, got, failed, processes)
          BY <4>1
        <4> QED
          BY <2>1, <4>2 DEF Launches
      <3> QED
        BY <1>1, <2>1, <3>1 DEF Inv, Bounden
    <2>2. ASSUME NEW s \in Servers, ProcessEnds(s) PROVE Repair
      BY <2>2 DEF ProcessEnds, Udp!Raises, threads
    <2>3. ASSUME NEW u \in Threads, ThreadSteps(u) PROVE Repair
      <3>1. CASE Udp!ThreadStep(u)
        BY <1>1, <3>1, ThreadMoves DEF Moves, Alive, Inv, Threading, Udp!ThreadsOK
      <3>2. CASE Udp!Release(u)
        BY <3>2 DEF Udp!Release
      <3> QED
        BY <2>3, <3>1, <3>2 DEF ThreadSteps
    <2> QED
      BY <1>1, <2>1, <2>2, <2>3 DEF ServiceNext
  <1> QED
    BY <1>1, InvAlways, PTL DEF ServiceSpec, OnlyRestartRepairs
=============================================================================
