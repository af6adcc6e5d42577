-------------------------- MODULE ServerBootProofs ------------------------
(***************************************************************************)
(* Proofs about ServerBoot, for any files and servers and any number of    *)
(* runs, stops and failures.                                               *)
(***************************************************************************)
EXTENDS ServerBoot, Integers, TLAPS

LEMMA Constants ==
  /\ FileIds \subseteq Nat \ {0} /\ 1 \in FileIds /\ Len(Files) \in FileIds
  /\ \A f \in FileIds : f # Len(Files) => f + 1 \in FileIds
  /\ Len(Scripts) \in {1, 2}
  /\ \A j \in 1..Len(Scripts) : Scripts[j] \in Crons
  /\ \A j \in 1..Len(Services) : Services[j] \in Servers
  /\ "idle" \notin Steps /\ 1 \in 1..Len(Services) /\ 1 \in 1..Len(Scripts)
  BY BootAssumption DEF FileIds, Scripts, Crons, Servers, Steps

(* A run that waits for a script counts it. *)
Counted == at = "entry" => managers[Scripts[i]] > 0

Typed == TypeOK /\ Counted

LEMMA NextFileTyped ==
  ASSUME Typed, at \in {"check", "write"}, NextFile
  PROVE  /\ at' \in {"unpublish", "check", "folder"}
         /\ at' \in {"check", "folder"} => i' \in FileIds
         /\ i' \in Nat \ {0} /\ UNCHANGED <<force, live, last, runs>>
  <1>1. i \in FileIds
    BY DEF Typed, TypeOK
  <1>2. CASE i = Len(Files)
    BY <1>2 DEF NextFile, Goto
  <1>3. CASE i # Len(Files)
    BY <1>1, <1>3, Constants DEF NextFile, Goto
  <1> QED
    BY <1>2, <1>3

LEMMA FilesTyped ==
  ASSUME Typed, ClearDataFolder \/ CheckFile \/ CreateFile
  PROVE  Typed'
  <1>1. UNCHANGED <<ports, entries, up, nginx, cron, rules, starting, serving, managers>>
    BY DEF ClearDataFolder, CheckFile, CreateFile, memory
  <1>2. /\ at' \in {"unpublish", "check", "folder", "write"}
        /\ at' \in {"check", "folder", "write"} => i' \in FileIds
        /\ i' \in Nat \ {0} /\ UNCHANGED <<force, live, last, runs>>
    <2>1. CASE ClearDataFolder
      BY <2>1 DEF ClearDataFolder, Goto, Typed, TypeOK
    <2>2. CASE CheckFile
      BY <2>2, NextFileTyped DEF CheckFile, Goto, Typed, TypeOK
    <2>3. CASE CreateFile
      BY <2>3, NextFileTyped DEF CreateFile
    <2> QED
      BY <2>1, <2>2, <2>3
  <1>3. file' \in [FileIds -> {"none", "part", "whole"}] /\ cut' \subseteq FileIds
    BY DEF ClearDataFolder, CheckFile, CreateFile, Typed, TypeOK
  <1> QED
    BY <1>1, <1>2, <1>3 DEF Typed, TypeOK, Counted, Steps

LEMMA PortsTyped ==
  ASSUME Typed, ClearPortConfig \/ OpenPortConfig \/ DumpPorts \/ ConfigureRules \/ RulesConfigured
  PROVE  Typed'
  <1>1. /\ UNCHANGED <<force, live, last, runs, file, entries, cut>>
        /\ UNCHANGED <<up, nginx, cron, starting, serving, managers>>
    BY DEF ClearPortConfig, OpenPortConfig, DumpPorts, ConfigureRules, RulesConfigured, Goto,
           disk, memory
  <1>2. ports' \in {"none", "part", "whole"} /\ rules' \in {"none", "part", "done"}
    BY DEF ClearPortConfig, OpenPortConfig, DumpPorts, ConfigureRules, RulesConfigured,
           disk, memory, Typed, TypeOK
  <1>3. i' = 1 /\ at' \in {"publish", "dump", "rules", "shaping", "start", "initial"}
    BY DEF ClearPortConfig, OpenPortConfig, DumpPorts, ConfigureRules, RulesConfigured, Goto
  <1>4. /\ at' \in Steps \ {"folder", "check", "write", "entry"} /\ i' \in Nat \ {0}
        /\ at' = "start" => i' \in 1..Len(Services)
        /\ at' = "initial" => i' \in 1..Len(Scripts)
    BY <1>3, Constants DEF Steps
  <1> QED
    BY <1>1, <1>2, <1>4 DEF Typed, TypeOK, Counted

LEMMA StartTyped == ASSUME Typed, StartServer PROVE Typed'
  <1>1. /\ at = "start" /\ i \in 1..Len(Services)
        /\ starting' = [starting EXCEPT ![Services[i]] = @ + 1]
        /\ UNCHANGED <<force, live, last, runs, file, ports, entries, cut>>
        /\ UNCHANGED <<up, nginx, cron, rules, serving, managers>>
    BY DEF StartServer, Goto, disk, Typed, TypeOK
  <1>2. \/ at' = "initial" /\ i' = 1
        \/ at' = "start" /\ i' = i + 1 /\ i # Len(Services)
    BY DEF StartServer, Goto
  <1>3. at' = "start" => i' \in 1..Len(Services)
    BY <1>1, <1>2, BootAssumption
  <1>4. starting' \in [Servers -> Nat]
    BY <1>1, Constants DEF Typed, TypeOK
  <1>5. /\ at' \in Steps \ {"folder", "check", "write", "entry"} /\ i' \in Nat \ {0}
        /\ at' = "initial" => i' \in 1..Len(Scripts)
    BY <1>1, <1>2, Constants, BootAssumption DEF Steps
  <1> QED
    BY <1>1, <1>3, <1>4, <1>5 DEF Typed, TypeOK, Counted

LEMMA ScriptsTyped == ASSUME Typed, StartScript \/ AddCronEntry \/ RestartCron PROVE Typed'
  <1>1. CASE StartScript
    <2>1. /\ at' = "entry" /\ i' = i /\ i \in 1..Len(Scripts)
          /\ managers' = [managers EXCEPT ![Scripts[i]] = @ + 1]
          /\ UNCHANGED <<force, live, last, runs, file, ports, entries, cut>>
          /\ UNCHANGED <<up, nginx, cron, rules, starting, serving>>
      BY <1>1 DEF StartScript, Goto, disk, Typed, TypeOK
    <2>2. managers' \in [Crons -> Nat] /\ managers'[Scripts[i]] > 0
      BY <2>1, Constants DEF Typed, TypeOK
    <2> QED
      BY <2>1, <2>2 DEF Typed, TypeOK, Counted, Steps
  <1>2. CASE AddCronEntry
    <2>1. /\ at = "entry" /\ i \in 1..Len(Scripts)
          /\ managers' = [managers EXCEPT ![Scripts[i]] = @ - 1]
          /\ entries' = [entries EXCEPT ![Scripts[i]] = @ + 1]
          /\ UNCHANGED <<force, live, last, runs, file, ports, cut>>
          /\ UNCHANGED <<up, nginx, cron, rules, starting, serving>>
      BY <1>2 DEF AddCronEntry, NextScript, Goto, Typed, TypeOK
    <2>2. managers' \in [Crons -> Nat] /\ entries' \in [Crons -> Nat]
      BY <2>1, Constants DEF Typed, TypeOK, Counted
    <2>3. \/ at' = "cron" /\ i' = 1
          \/ at' = "initial" /\ i' = i + 1 /\ i # Len(Scripts)
      BY <1>2 DEF AddCronEntry, NextScript, Goto
    <2>4. i' \in Nat \ {0} /\ at' \in {"cron", "initial"}
          /\ (at' = "initial" => i' \in 1..Len(Scripts))
      BY <2>1, <2>3, Constants
    <2>5. Counted'
      BY <2>4 DEF Counted
    <2>6. at' \in Steps /\ at' \notin {"folder", "check", "write", "start", "entry"}
      BY <2>4 DEF Steps
    <2> QED
      BY <2>1, <2>2, <2>4, <2>5, <2>6 DEF Typed, TypeOK
  <1>3. CASE RestartCron
    BY <1>3 DEF RestartCron, disk, Typed, TypeOK, Counted, Steps
  <1> QED
    BY <1>1, <1>2, <1>3

LEMMA DownTyped ==
  ASSUME Down
  PROVE  /\ up' = FALSE /\ nginx' = FALSE /\ cron' = FALSE /\ rules' = "none"
         /\ starting' \in [Servers -> Nat] /\ serving' \subseteq Servers
         /\ managers' \in [Crons -> Nat]
  BY DEF Down

LEMMA FailTyped == ASSUME Typed, Fail \/ Stop PROVE Typed'
  <1>1. /\ at' = "idle" /\ i' = 1 /\ last' \in {"none", "failed"}
        /\ UNCHANGED <<force, live, runs, file, ports, entries>>
    BY DEF Fail, Stop
  <1>2. cut' \subseteq FileIds
    BY DEF Fail, Stop, Interrupted, Typed, TypeOK
  <1>3. CASE Down
    BY <1>1, <1>2, <1>3, DownTyped DEF Typed, TypeOK, Counted
  <1>4. CASE Fail /\ live
    <2>1. managers' = [s \in Crons |-> IF at = "entry" /\ s = Scripts[i]
                                       THEN managers[s] - 1 ELSE managers[s]]
          /\ UNCHANGED <<up, nginx, cron, rules, starting, serving>>
      BY <1>4 DEF Fail
    <2>2. managers' \in [Crons -> Nat]
      BY <2>1 DEF Typed, TypeOK, Counted
    <2> QED
      BY <1>1, <1>2, <2>1, <2>2 DEF Typed, TypeOK, Counted
  <1> QED
    BY <1>3, <1>4 DEF Fail, Stop

LEMMA BeginTyped == ASSUME Typed, Boot \/ Recreate \/ Rerun PROVE Typed'
  <1>1. CASE Recreate
    BY <1>1 DEF Recreate, run, memory, Typed, TypeOK, Counted
  <1>2. CASE Boot \/ Rerun
    <2>1. /\ at' \in {"folder", "rules"} /\ i' = 1
          /\ force' \in BOOLEAN /\ live' \in BOOLEAN /\ runs' = runs + 1 /\ runs < MaxRuns
          /\ up' \in BOOLEAN /\ UNCHANGED <<last, nginx, cron, rules, starting, serving, managers>>
          /\ UNCHANGED <<file, ports, entries, cut>>
      BY <1>2 DEF Boot, Rerun, Begin, disk, memory, Typed, TypeOK
    <2>2. runs' \in 0..MaxRuns
      BY <2>1, BootAssumption DEF Typed, TypeOK
    <2> QED
      BY <2>1, <2>2, Constants DEF Typed, TypeOK, Counted, Steps
  <1> QED
    BY <1>1, <1>2

LEMMA BackgroundTyped ==
  ASSUME Typed, \/ CronFires
                \/ \E s \in Servers : Bind(s) \/ StartFails(s)
                \/ \E s \in Crons : ManagerEnds(s)
  PROVE  Typed'
  <1>1. UNCHANGED <<at, i, force, live, last, runs, file, ports, entries, cut, up, nginx, cron, rules>>
    BY DEF CronFires, Bind, StartFails, ManagerEnds, run, disk
  <1>2. starting' \in [Servers -> Nat] /\ serving' \subseteq Servers
    BY DEF CronFires, Bind, StartFails, ManagerEnds, Typed, TypeOK
  <1>3. managers' \in [Crons -> Nat] /\ Counted'
    <2>1. CASE CronFires
      <3>1. managers' = [s \in Crons |-> managers[s] + entries[s]]
        BY <2>1 DEF CronFires
      <3>2. managers' \in [Crons -> Nat]
        BY <3>1 DEF Typed, TypeOK
      <3>3. ASSUME at = "entry" PROVE managers'[Scripts[i]] > 0
        BY <1>1, <3>1, <3>3, Constants DEF Typed, TypeOK, Counted
      <3> QED
        BY <1>1, <3>2, <3>3 DEF Counted
    <2>2. CASE \E s \in Servers : Bind(s) \/ StartFails(s)
      BY <1>1, <2>2 DEF Bind, StartFails, Typed, TypeOK, Counted
    <2>3. ASSUME NEW s \in Crons, ManagerEnds(s) PROVE managers' \in [Crons -> Nat] /\ Counted'
      BY <1>1, <2>3, Constants DEF ManagerEnds, ByConfigure, Typed, TypeOK, Counted
    <2> QED
      BY <2>1, <2>2, <2>3
  <1> QED
    BY <1>1, <1>2, <1>3 DEF Typed, TypeOK

LEMMA TypedInductive == ASSUME Typed, [Next]_vars PROVE Typed'
  <1>1. CASE UNCHANGED vars
    BY <1>1 DEF vars, run, disk, memory, Typed, TypeOK, Counted
  <1> QED
    BY <1>1, FilesTyped, PortsTyped, StartTyped, ScriptsTyped, FailTyped, BeginTyped,
       BackgroundTyped DEF Next, Configure

LEMMA TypedInit == ASSUME Init PROVE Typed
  <1>1. /\ file \in [FileIds -> {"none", "part", "whole"}] /\ entries \in [Crons -> Nat]
        /\ starting \in [Servers -> Nat] /\ managers \in [Crons -> Nat]
    BY DEF Init
  <1>2. at = "idle" /\ i \in Nat \ {0} /\ last = "none" /\ ports = "none" /\ rules = "none"
        /\ cut = {} /\ serving = {}
    BY DEF Init
  <1>3. /\ force \in BOOLEAN /\ live \in BOOLEAN
        /\ up \in BOOLEAN /\ nginx \in BOOLEAN /\ cron \in BOOLEAN
    BY DEF Init
  <1>4. runs \in 0..MaxRuns
    BY BootAssumption DEF Init
  <1> QED
    BY <1>1, <1>2, <1>3, <1>4 DEF Typed, TypeOK, Counted

LEMMA TypedAlways == Spec => []Typed
  BY TypedInit, TypedInductive, PTL DEF Spec

(* Positions are in range, states are known. *)
THEOREM TypeCorrect == Spec => []TypeOK
  <1>1. Typed => TypeOK
    BY DEF Typed
  <1> QED
    BY <1>1, TypedAlways, PTL

-----------------------------------------------------------------------------
(* The container: nginx and cron start together, at the end of a boot, and *)
(* a run is by hand if they are there.                                     *)
Phases == /\ nginx <=> cron
          /\ nginx => up
          /\ up /\ ~nginx => at # "idle" /\ ~live
          /\ at # "idle" => up /\ (live <=> nginx)
          /\ last \in {"ok", "failed"} => nginx

LEMMA PhasesInductive == ASSUME Typed, Phases, [Next]_vars PROVE Phases'
  <1> USE DEF Phases
  <1>1. ASSUME Configure, at' # "idle" PROVE Phases'
    <2>1. at # "idle" /\ UNCHANGED <<live, last, up, nginx, cron>>
      BY <1>1 DEF Configure, ClearDataFolder, CheckFile, CreateFile, NextFile, ClearPortConfig,
                  OpenPortConfig, DumpPorts, ConfigureRules, RulesConfigured, StartServer,
                  StartScript, AddCronEntry, NextScript, RestartCron, Goto, disk, memory
    <2> QED
      BY <1>1, <2>1
  <1>2. ASSUME Configure, at' = "idle" PROVE RestartCron
    BY <1>2, NextFileTyped
       DEF Configure, ClearDataFolder, CheckFile, CreateFile, ClearPortConfig, Typed, TypeOK,
           OpenPortConfig, DumpPorts, ConfigureRules, RulesConfigured, StartServer,
           StartScript, AddCronEntry, NextScript, Goto
  <1>3. CASE RestartCron
    BY <1>3 DEF RestartCron
  <1>4. CASE Fail \/ Stop
    BY <1>4, Constants DEF Fail, Stop, Down, Typed, TypeOK
  <1>5. CASE Boot \/ Recreate \/ Rerun
    BY <1>5 DEF Boot, Recreate, Rerun, Begin, run, disk, memory
  <1>6. ASSUME UNCHANGED <<at, live, last, up, nginx, cron>> PROVE Phases'
    BY <1>6
  <1>7. CASE CronFires \/ UNCHANGED vars
    BY <1>6, <1>7 DEF CronFires, vars, run, disk, memory
  <1>8. ASSUME NEW s \in Servers, Bind(s) \/ StartFails(s) PROVE Phases'
    BY <1>6, <1>8 DEF Bind, StartFails, run, disk
  <1>9. ASSUME NEW s \in Crons, ManagerEnds(s) PROVE Phases'
    BY <1>6, <1>9 DEF ManagerEnds, run, disk
  <1> QED
    BY <1>1, <1>2, <1>3, <1>4, <1>5, <1>7, <1>8, <1>9 DEF Next

-----------------------------------------------------------------------------
(* ports.json and the rules are done in order. *)
Ordered ==
  /\ WithServices /\ at \in {"rules", "shaping", "start", "initial", "entry", "cron"}
       => ports = "whole"
  /\ at \in {"start", "initial", "entry", "cron"} => rules = "done"
  /\ (at = "idle" /\ ~up) \/ (at # "idle" /\ ~live /\ at \notin {"start", "initial", "entry", "cron"})
       => serving = {} /\ \A s \in Servers : starting[s] = 0
  /\ PublishedWhenServing
  /\ (serving # {} \/ \E s \in Servers : starting[s] > 0)
       => rules = "done" \/ last = "failed" \/ (live /\ at = "shaping")

LEMMA OrderedInductive == ASSUME Typed, Phases, Ordered, [Next]_vars PROVE Ordered'
  <1> USE DEF Ordered, PublishedWhenServing
  <1>1. CASE ClearDataFolder \/ CheckFile \/ CreateFile
    <2>1. /\ UNCHANGED <<live, last, ports, up, nginx, rules, starting, serving>>
          /\ at \in {"folder", "check", "write"}
          /\ at' \in {"folder", "check", "write", "unpublish"}
      BY <1>1, NextFileTyped
         DEF ClearDataFolder, CheckFile, CreateFile, Goto, memory, Typed
    <2> QED
      BY <2>1
  <1>2. CASE ClearPortConfig \/ OpenPortConfig \/ DumpPorts
    BY <1>2 DEF ClearPortConfig, OpenPortConfig, DumpPorts, Goto, memory, disk, Phases
  <1>3. CASE ConfigureRules \/ RulesConfigured
    BY <1>3 DEF ConfigureRules, RulesConfigured, Goto, memory, disk, Phases
  <1>4. CASE StartServer
    BY <1>4 DEF StartServer, Goto, disk, Phases
  <1>5. CASE StartScript \/ AddCronEntry
    BY <1>5 DEF StartScript, AddCronEntry, NextScript, Goto, disk, Phases
  <1>6. CASE RestartCron
    BY <1>6 DEF RestartCron, disk, Phases
  <1>7. CASE Down /\ at' = "idle"
    BY <1>7 DEF Down
  <1>8. CASE Fail /\ live
    BY <1>8 DEF Fail, Phases, Steps
  <1>9. CASE Boot
    <2>1. /\ at' \in {"folder", "rules"} /\ (WithServices => at' = "folder") /\ ~up /\ ~nginx
          /\ UNCHANGED <<ports, nginx, rules, starting, serving>> /\ live' = FALSE
          /\ at = "idle"
      BY <1>9 DEF Boot, Begin, disk, Phases
    <2> QED
      BY <2>1
  <1>10. CASE Recreate
    BY <1>10 DEF Recreate, run, memory, Phases
  <1>11. CASE Rerun
    <2>1. /\ at' \in {"folder", "rules"} /\ (WithServices => at' = "folder") /\ live'
          /\ UNCHANGED <<ports, last, up, nginx, rules, starting, serving>>
          /\ at = "idle"
      BY <1>11 DEF Rerun, Begin, disk, memory, Phases
    <2> QED
      BY <2>1
  <1>12. ASSUME NEW s \in Servers, Bind(s) \/ StartFails(s) PROVE Ordered'
    <2>1. /\ starting[s] > 0 /\ starting' = [starting EXCEPT ![s] = @ - 1]
          /\ UNCHANGED <<at, live, last, ports, up, nginx, rules>>
          /\ serving' \in {serving, serving \cup {s}}
      BY <1>12 DEF Bind, StartFails, run, disk
    <2>2. \A x \in Servers : starting'[x] > 0 => starting[x] > 0
      BY <2>1 DEF Typed, TypeOK
    <2> QED
      BY <2>1, <2>2
  <1>13. ASSUME UNCHANGED <<at, live, last, ports, up, nginx, rules, starting, serving>> PROVE Ordered'
    BY <1>13
  <1>14. CASE CronFires \/ UNCHANGED vars
    BY <1>13, <1>14 DEF CronFires, vars, run, disk, memory
  <1>15. ASSUME NEW s \in Crons, ManagerEnds(s) PROVE Ordered'
    BY <1>13, <1>15 DEF ManagerEnds, run, disk
  <1> QED
    BY <1>1, <1>2, <1>3, <1>4, <1>5, <1>6, <1>7, <1>8, <1>9, <1>10, <1>11, <1>12, <1>14, <1>15
       DEF Next, Configure, Fail, Stop

LEMMA OrderedInit == ASSUME Init PROVE Phases /\ Ordered
  <1>1. /\ at = "idle" /\ last = "none" /\ ~up /\ ~nginx /\ ~cron
        /\ serving = {} /\ \A s \in Servers : starting[s] = 0
    BY DEF Init
  <1>2. \A s \in Servers : ~(starting[s] > 0)
    BY <1>1
  <1> QED
    BY <1>1, <1>2 DEF Phases, Ordered, PublishedWhenServing

LEMMA OrderedAlways == Spec => [](Typed /\ Phases /\ Ordered)
  BY OrderedInit, TypedAlways, PhasesInductive, OrderedInductive, PTL DEF Spec

(* nginx only hands out a complete ports.json, but for runs by hand.       *)
THEOREM Published == Spec => []PublishedWhenServing
  <1>1. Ordered => PublishedWhenServing
    BY DEF Ordered
  <1> QED
    BY <1>1, OrderedAlways, PTL

(* No server answers over links that are not shaped, but for runs by hand. *)
THEOREM Shaped == Spec => []ShapedWhenServing
  <1>1. Ordered => ShapedWhenServing
    BY DEF Ordered, ShapedWhenServing
  <1> QED
    BY <1>1, OrderedAlways, PTL
-----------------------------------------------------------------------------
(* The data files. Done is the part of the loop that is behind the run.    *)
Done(f) == \/ at \in {"folder", "check", "write"} /\ f < i
           \/ at \in Steps \ {"folder", "check", "write"}
           \/ Finished

Filed ==
  /\ \A f \in FileIds :
       /\ file[f] = "part" => f \in cut \/ (at = "write" /\ i = f)
       /\ file[f] = "whole" => f \notin cut
       /\ WithServices /\ Done(f) => file[f] # "none"
  /\ at = "write" => file[i] = "part"
  /\ at = "folder" => i = 1 \/ (i - 1 \in FileIds /\ Files[i - 1] # Files[i])

(* A folder is only cleared when the run has none of its files behind it.  *)
LEMMA FolderKept ==
  ASSUME Typed, Filed, at = "folder", NEW f \in FileIds, f < i
  PROVE  Files[f] # Files[i]
  <1>1. i \in FileIds /\ i \in Nat \ {0} /\ f \in Nat \ {0} /\ i # 1
    BY Constants DEF Typed, TypeOK
  <1>2. i - 1 \in FileIds /\ Files[i - 1] # Files[i] /\ i - 1 \in Nat
    BY <1>1 DEF Filed
  <1>3. CASE f = i - 1
    BY <1>2, <1>3
  <1>4. CASE f # i - 1
    <2>1. f < i - 1 /\ i - 1 < i
      BY <1>1, <1>2, <1>4
    <2>2. ASSUME Files[f] = Files[i] PROVE FALSE
      <3>1. Files[i - 1] = Files[f]
        BY <1>1, <1>2, <2>1, <2>2, FolderAssumption
      <3> QED
        BY <1>2, <2>2, <3>1
    <2> QED
      BY <2>2
  <1> QED
    BY <1>3, <1>4

LEMMA NextFileFiled ==
  ASSUME Typed, Filed, at \in {"check", "write"}, NextFile, file'[i] # "none",
         \A f \in FileIds : /\ file[f] # "none" => file'[f] # "none"
                            /\ file'[f] = "part" => f \in cut'
                            /\ file'[f] = "whole" => f \notin cut'
  PROVE  Filed'
  <1>1. i \in FileIds /\ i \in Nat \ {0} /\ FileIds = 1..Len(Files) /\ Len(Files) \in Nat
    BY Constants, BootAssumption DEF Typed, TypeOK, FileIds
  <1>2. \A f \in FileIds : f < i => file'[f] # "none" \/ ~WithServices
    BY <1>1 DEF Filed, Done
  <1>3. \A f \in FileIds : f <= i => file'[f] # "none" \/ ~WithServices
    BY <1>1, <1>2
  <1>4. CASE i = Len(Files)
    <2>1. at' = "unpublish"
      BY <1>4 DEF NextFile, Goto
    <2>2. \A f \in FileIds : f <= i
      BY <1>1, <1>4
    <2> QED
      BY <1>3, <2>1, <2>2 DEF Filed
  <1>5. CASE i # Len(Files)
    <2>1. /\ i' = i + 1 /\ at' \in {"check", "folder"}
          /\ at' = "folder" => Files[i + 1] # Files[i]
      BY <1>5 DEF NextFile, Goto
    <2>2. i' - 1 = i /\ \A f \in FileIds : f < i' => f <= i
      BY <1>1, <2>1
    <2>3. \A f \in FileIds : Done(f)' => f <= i
      BY <2>1, <2>2 DEF Done, Finished
    <2> QED
      BY <1>1, <1>3, <2>1, <2>2, <2>3 DEF Filed
  <1> QED
    BY <1>4, <1>5

LEMMA LoopFiled == ASSUME Typed, Filed, ClearDataFolder \/ CheckFile \/ CreateFile PROVE Filed'
  <1>1. CASE ClearDataFolder
    <2>1. /\ at = "folder" /\ at' = "check" /\ i' = i /\ cut' = cut
          /\ file' = [f \in FileIds |-> IF force /\ Files[f] = Files[i] THEN "none" ELSE file[f]]
      BY <1>1 DEF ClearDataFolder, Goto
    <2>2. \A f \in FileIds : f < i => file'[f] = file[f]
      BY <2>1, FolderKept
    <2>3. \A f \in FileIds : Done(f)' => f < i
      BY <2>1 DEF Done, Finished
    <2>4. \A f \in FileIds : f < i => Done(f)
      BY <2>1 DEF Done
    <2> QED
      BY <2>1, <2>2, <2>3, <2>4 DEF Filed
  <1>2. CASE CheckFile /\ (force \/ file[i] = "none")
    <2>1. /\ at = "check" /\ at' = "write" /\ i' = i /\ cut' = cut /\ i \in FileIds
          /\ file' = [file EXCEPT ![i] = "part"]
      BY <1>2 DEF CheckFile, Goto, Typed, TypeOK
    <2>2. \A f \in FileIds : Done(f)' => Done(f) /\ f < i
      BY <2>1 DEF Done, Finished
    <2>3. \A f \in FileIds : file'[f] = IF f = i THEN "part" ELSE file[f]
      BY <2>1 DEF Typed, TypeOK
    <2> QED
      BY <2>1, <2>2, <2>3 DEF Filed
  <1>3. CASE CheckFile /\ ~(force \/ file[i] = "none")
    <2>1. /\ at = "check" /\ NextFile /\ file' = file /\ cut' = cut /\ file[i] # "none"
      BY <1>3 DEF CheckFile
    <2>2. \A f \in FileIds : /\ file'[f] = "part" => f \in cut'
                             /\ file'[f] = "whole" => f \notin cut'
      BY <2>1 DEF Filed
    <2> QED
      BY <2>1, <2>2, NextFileFiled
  <1>4. CASE CreateFile
    <2>1. /\ at = "write" /\ NextFile /\ i \in FileIds
          /\ file' = [file EXCEPT ![i] = "whole"] /\ cut' = cut \ {i}
      BY <1>4 DEF CreateFile, Typed, TypeOK
    <2>2. \A f \in FileIds : file'[f] = IF f = i THEN "whole" ELSE file[f]
      BY <2>1 DEF Typed, TypeOK
    <2>3. \A f \in FileIds : /\ file[f] # "none" => file'[f] # "none"
                             /\ file'[f] = "part" => f \in cut'
                             /\ file'[f] = "whole" => f \notin cut'
      BY <2>1, <2>2 DEF Filed
    <2> QED
      BY <2>1, <2>2, <2>3, NextFileFiled
  <1> QED
    BY <1>1, <1>2, <1>3, <1>4

LEMMA FiledInductive == ASSUME Typed, Phases, Filed, [Next]_vars PROVE Filed'
  <1>1. ASSUME at \in Steps \ {"folder", "check", "write"}, UNCHANGED <<file, cut>>,
               at' \in Steps \ {"folder", "check", "write"} \/ at' = "idle"
        PROVE  Filed'
    <2>1. \A f \in FileIds : Done(f)
      BY <1>1 DEF Done
    <2> QED
      BY <1>1, <2>1, Constants DEF Filed, Steps
  <1>2. CASE \/ ClearPortConfig \/ OpenPortConfig \/ DumpPorts \/ ConfigureRules
             \/ RulesConfigured \/ StartServer
    <2>1. /\ at \in Steps \ {"folder", "check", "write"} /\ UNCHANGED <<file, cut>>
          /\ at' \in Steps \ {"folder", "check", "write"}
      BY <1>2 DEF ClearPortConfig, OpenPortConfig, DumpPorts, ConfigureRules, RulesConfigured,
                  StartServer, Goto, disk, Steps
    <2> QED
      BY <1>1, <2>1
  <1>3. CASE StartScript \/ AddCronEntry \/ RestartCron
    <2>1. /\ at \in Steps \ {"folder", "check", "write"} /\ UNCHANGED <<file, cut>>
          /\ at' \in Steps \ {"folder", "check", "write"} \/ at' = "idle"
      BY <1>3 DEF StartScript, AddCronEntry, NextScript, RestartCron, Goto, disk, Steps
    <2> QED
      BY <1>1, <2>1
  <1>4. CASE Fail \/ Stop
    <2>1. /\ at' = "idle" /\ last' # "ok" /\ UNCHANGED file
          /\ cut' = IF at = "write" THEN cut \cup {i} ELSE cut
      BY <1>4 DEF Fail, Stop, Interrupted
    <2>2. \A f \in FileIds : ~Done(f)'
      BY <2>1, Constants DEF Done, Finished
    <2> QED
      BY <2>1, <2>2 DEF Filed
  <1>5. CASE Boot \/ Rerun
    <2>1. /\ at = "idle" /\ UNCHANGED <<file, cut>> /\ i' = 1
          /\ at' = IF WithServices THEN "folder" ELSE "rules"
      BY <1>5 DEF Boot, Rerun, Begin, disk, Phases
    <2>2. \A f \in FileIds : WithServices => ~Done(f)'
      BY <2>1, Constants DEF Done, Finished, Steps
    <2> QED
      BY <2>1, <2>2 DEF Filed
  <1>6. ASSUME UNCHANGED <<at, i, last, file, cut>> PROVE Filed'
    BY <1>6 DEF Filed, Done, Finished
  <1>7. CASE Recreate \/ CronFires \/ UNCHANGED vars
    BY <1>6, <1>7 DEF Recreate, CronFires, vars, run, disk
  <1>8. ASSUME NEW s \in Servers, Bind(s) \/ StartFails(s) PROVE Filed'
    BY <1>6, <1>8 DEF Bind, StartFails, run, disk
  <1>9. ASSUME NEW s \in Crons, ManagerEnds(s) PROVE Filed'
    BY <1>6, <1>9 DEF ManagerEnds, run, disk
  <1> QED
    BY <1>2, <1>3, <1>4, <1>5, <1>7, <1>8, <1>9, LoopFiled DEF Next, Configure

(* However often the container was stopped, after a successful run every   *)
(* file is there, and whole if it was not cut off since it was last made.  *)
THEOREM Complete == Spec => []FilesComplete
  <1>1. Init => Filed
    BY DEF Init, Filed, Done, Finished, Steps
  <1>2. Typed /\ Filed => FilesComplete
    <2>1. ASSUME Typed, Filed, Finished, WithServices, NEW f \in FileIds
          PROVE  file[f] = IF f \in cut THEN "part" ELSE "whole"
      BY <2>1 DEF Filed, Done, Finished, Typed, TypeOK
    <2> QED
      BY <2>1 DEF FilesComplete
  <1> QED
    BY <1>1, <1>2, OrderedAlways, FiledInductive, PTL DEF Spec

-----------------------------------------------------------------------------
(* The crontab. Entries behind the run are there, and what cron started is *)
(* no more than its entries.                                               *)
Scheduled ==
  /\ at \in {"initial", "entry"} => \A j \in 1..Len(Scripts) : j < i => entries[Scripts[j]] > 0
  /\ at = "cron" => \A s \in Crons : entries[s] > 0
  /\ last = "ok" => \A s \in Crons : entries[s] > 0
  /\ \A s \in Crons :
       /\ managers[s] <= ByConfigure(s) + entries[s]
       /\ ~nginx => managers[s] = ByConfigure(s)

LEMMA ScriptsScheduled ==
  ASSUME Typed, Phases, Scheduled, StartScript \/ AddCronEntry PROVE Scheduled'
  <1> USE DEF Scheduled
  <1>1. CASE StartScript
    <2>1. /\ at = "initial" /\ at' = "entry" /\ UNCHANGED <<i, last, entries, nginx>>
          /\ managers' = [managers EXCEPT ![Scripts[i]] = @ + 1]
      BY <1>1 DEF StartScript, Goto, disk
    <2>2. \A s \in Crons : managers'[s] = (IF s = Scripts[i] THEN managers[s] + 1
                                                            ELSE managers[s])
                           /\ managers[s] \in Nat
      BY <2>1 DEF Typed, TypeOK
    <2>3. \A s \in Crons : ByConfigure(s)' = (IF s = Scripts[i] THEN 1 ELSE 0)
                           /\ ByConfigure(s) = 0
      BY <2>1 DEF ByConfigure
    <2>4. \A s \in Crons : managers'[s] - ByConfigure(s)' = managers[s] - ByConfigure(s)
                           /\ managers'[s] \in Nat /\ managers[s] \in Nat
                           /\ ByConfigure(s)' \in {0, 1} /\ ByConfigure(s) = 0
      BY <2>2, <2>3
    <2>5. \A s \in Crons : entries[s] \in Nat
      BY DEF Typed, TypeOK
    <2> QED
      BY <2>1, <2>4, <2>5
  <1>2. CASE AddCronEntry
    <2>1. /\ at = "entry" /\ i \in 1..Len(Scripts) /\ UNCHANGED <<last, nginx>>
          /\ managers' = [managers EXCEPT ![Scripts[i]] = @ - 1]
          /\ entries' = [entries EXCEPT ![Scripts[i]] = @ + 1]
          /\ \/ at' = "cron" /\ i = Len(Scripts)
             \/ at' = "initial" /\ i' = i + 1
      BY <1>2 DEF AddCronEntry, NextScript, Goto, Typed, TypeOK
    <2>2. /\ \A s \in Crons : /\ entries'[s] \in Nat /\ entries[s] \in Nat
                              /\ entries'[s] >= entries[s]
          /\ entries'[Scripts[i]] > 0
      BY <2>1, Constants DEF Typed, TypeOK
    <2>3. \A j \in 1..Len(Scripts) : j < i + 1 => entries'[Scripts[j]] > 0
      BY <2>1, <2>2, Constants
    <2>4. \A s \in Crons : \E j \in 1..Len(Scripts) : s = Scripts[j]
      BY DEF Crons
    <2>5. at' = "cron" => \A s \in Crons : entries'[s] > 0
      BY <2>1, <2>3, <2>4, Constants
    <2>6. \A s \in Crons : managers'[s] - ByConfigure(s)' = managers[s] - ByConfigure(s)
                           /\ managers'[s] \in Nat /\ managers[s] \in Nat
                           /\ ByConfigure(s)' = 0 /\ ByConfigure(s) \in {0, 1}
      BY <2>1 DEF Typed, TypeOK, Counted, ByConfigure
    <2> QED
      BY <2>1, <2>2, <2>3, <2>5, <2>6
  <1> QED
    BY <1>1, <1>2

LEMMA ScheduledInductive == ASSUME Typed, Phases, Scheduled, [Next]_vars PROVE Scheduled'
  <1>1. ASSUME at # "entry", at' \notin {"entry", "cron"}, at' = "initial" => i' = 1,
               last' = "ok" => last = "ok" \/ at = "cron",
               UNCHANGED <<entries, managers>>, ~nginx' => ~nginx
        PROVE  Scheduled'
    <2>1. \A s \in Crons : ByConfigure(s) = 0 /\ ByConfigure(s)' = 0
      BY <1>1 DEF ByConfigure
    <2>2. \A j \in 1..Len(Scripts) : ~(j < 1)
      BY Constants
    <2> QED
      BY <1>1, <2>1, <2>2 DEF Scheduled
  <1>2. CASE ClearDataFolder \/ CheckFile \/ CreateFile
    <2>1. /\ at \in {"folder", "check", "write"}
          /\ at' \in {"folder", "check", "write", "unpublish"}
          /\ UNCHANGED <<last, entries, managers, nginx>>
      BY <1>2, NextFileTyped DEF ClearDataFolder, CheckFile, CreateFile, Goto, memory, Typed
    <2> QED
      BY <1>1, <2>1
  <1>3. CASE \/ ClearPortConfig \/ OpenPortConfig \/ DumpPorts \/ ConfigureRules
             \/ RulesConfigured \/ StartServer
    <2>1. /\ at # "entry" /\ at' \notin {"entry", "cron"} /\ (at' = "initial" => i' = 1)
          /\ UNCHANGED <<last, entries, managers, nginx>>
      BY <1>3 DEF ClearPortConfig, OpenPortConfig, DumpPorts, ConfigureRules, RulesConfigured,
                  StartServer, Goto, disk, memory
    <2> QED
      BY <1>1, <2>1
  <1>4. CASE RestartCron
    BY <1>1, <1>4 DEF RestartCron, disk
  <1>5. CASE Down /\ at' = "idle" /\ last' # "ok" /\ UNCHANGED entries
    <2>1. \A s \in Crons : managers'[s] = 0 /\ ByConfigure(s)' = 0 /\ entries[s] \in Nat
      BY <1>5 DEF Down, ByConfigure, Typed, TypeOK
    <2> QED
      BY <1>5, <2>1 DEF Scheduled
  <1>6. CASE Fail /\ live
    <2>1. /\ at' = "idle" /\ last' # "ok" /\ UNCHANGED <<entries, nginx>>
          /\ managers' = [s \in Crons |-> IF at = "entry" /\ s = Scripts[i]
                                           THEN managers[s] - 1 ELSE managers[s]]
      BY <1>6 DEF Fail
    <2>2. \A s \in Crons : managers'[s] = managers[s] - ByConfigure(s) /\ ByConfigure(s)' = 0
                           /\ managers[s] \in Nat /\ entries[s] \in Nat
                           /\ ByConfigure(s) \in {0, 1}
      BY <2>1 DEF ByConfigure, Typed, TypeOK
    <2> QED
      BY <2>1, <2>2 DEF Scheduled
  <1>7. CASE Boot \/ Rerun
    <2>1. /\ at = "idle" /\ at' \in {"folder", "rules"}
          /\ UNCHANGED <<last, entries, managers, nginx>>
      BY <1>7 DEF Boot, Rerun, Begin, disk, memory, Phases
    <2> QED
      BY <1>1, <2>1
  <1>8. CASE Recreate
    <2>1. /\ at = "idle" /\ ~nginx /\ last # "ok" /\ UNCHANGED <<at, i, last, managers, nginx>>
          /\ entries' = [s \in Crons |-> 0]
      BY <1>8 DEF Recreate, run, memory, Phases
    <2>2. \A s \in Crons : ByConfigure(s) = 0 /\ ByConfigure(s)' = 0 /\ entries'[s] = 0
      BY <2>1 DEF ByConfigure
    <2> QED
      BY <2>1, <2>2 DEF Scheduled
  <1>9. CASE CronFires
    <2>1. /\ nginx /\ UNCHANGED <<at, i, last, entries, nginx>>
          /\ \A s \in Crons : managers'[s] = ByConfigure(s) + entries[s]
      BY <1>9 DEF CronFires, run, disk, Phases
    <2>2. \A s \in Crons : ByConfigure(s)' = ByConfigure(s) /\ ByConfigure(s) \in {0, 1}
                           /\ entries[s] \in Nat
      BY <2>1 DEF ByConfigure, Typed, TypeOK
    <2> QED
      BY <2>1, <2>2 DEF Scheduled
  <1>10. ASSUME NEW c \in Crons, ManagerEnds(c) PROVE Scheduled'
    <2>1. /\ managers[c] > ByConfigure(c) /\ managers' = [managers EXCEPT ![c] = @ - 1]
          /\ UNCHANGED <<at, i, last, entries, nginx>>
      BY <1>10 DEF ManagerEnds, run, disk
    <2>2. \A s \in Crons : ByConfigure(s)' = ByConfigure(s) /\ ByConfigure(s) \in {0, 1}
                           /\ entries[s] \in Nat /\ managers[s] \in Nat
      BY <2>1 DEF ByConfigure, Typed, TypeOK
    <2>3. nginx
      BY <1>10, <2>1, <2>2 DEF Scheduled
    <2>4. \A s \in Crons : managers'[s] <= managers[s] /\ managers'[s] \in Int
      BY <2>1, <2>2 DEF Typed, TypeOK
    <2> QED
      BY <2>1, <2>2, <2>3, <2>4 DEF Scheduled
  <1>11. ASSUME UNCHANGED <<at, i, last, entries, managers, nginx>> PROVE Scheduled'
    BY <1>11 DEF Scheduled, ByConfigure
  <1>12. ASSUME NEW s \in Servers, Bind(s) \/ StartFails(s) PROVE Scheduled'
    BY <1>11, <1>12 DEF Bind, StartFails, run, disk
  <1>13. CASE UNCHANGED vars
    BY <1>11, <1>13 DEF vars, run, disk, memory
  <1> QED
    BY <1>2, <1>3, <1>4, <1>5, <1>6, <1>7, <1>8, <1>9, <1>10, <1>12, <1>13, ScriptsScheduled
       DEF Next, Configure, Fail, Stop

LEMMA ScheduledAlways == Spec => [](Typed /\ Phases /\ Scheduled)
  <1>1. ASSUME Init PROVE Scheduled
    BY <1>1 DEF Init, Scheduled, ByConfigure
  <1> QED
    BY <1>1, OrderedAlways, ScheduledInductive, PTL DEF Spec

(* Every script is in the crontab of a container that has come up.         *)
THEOREM AllScheduled == Spec => []EveryScriptScheduled
  <1>1. Phases /\ Scheduled => EveryScriptScheduled
    BY DEF Phases, Scheduled, EveryScriptScheduled
  <1> QED
    BY <1>1, ScheduledAlways, PTL

(* Two processes of a script only run at a time because of an entry that is*)
(* there twice, or of a run by hand.                                       *)
THEOREM OverlapExplained == Spec => []OverlapCause
  <1>1. ASSUME Typed, Phases, Scheduled, NEW s \in Crons, managers[s] > 1
        PROVE  entries[s] > 1 \/ (live /\ at = "entry")
    <2>1. entries[s] \in Nat /\ managers[s] \in Nat /\ ByConfigure(s) \in {0, 1}
          /\ managers[s] <= ByConfigure(s) + entries[s]
      BY <1>1 DEF Typed, TypeOK, ByConfigure, Scheduled
    <2>2. CASE at = "entry"
      <3>1. nginx
        BY <1>1, <2>1 DEF Scheduled
      <3> QED
        BY <1>1, <2>2, <3>1 DEF Phases
    <2>3. CASE at # "entry"
      BY <1>1, <2>1, <2>3 DEF ByConfigure
    <2> QED
      BY <2>2, <2>3
  <1>2. Typed /\ Phases /\ Scheduled => OverlapCause
    BY <1>1 DEF OverlapCause
  <1> QED
    BY <1>2, ScheduledAlways, PTL
=============================================================================
