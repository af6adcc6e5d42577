---------------------------- MODULE ServerBoot ----------------------------
(***************************************************************************)
(* tools/host/server_control.py: "server configure", run by the entrypoint *)
(* of the container (docker/10-flake-env.sh) before nginx, and at any time *)
(* by hand; with file_manager.py and port_publisher.py, which it calls.    *)
(*                                                                         *)
(* What a stop of the container leaves (files, ports.json, the crontab) is *)
(* kept apart from what it takes with it (processes, the traffic rules).   *)
(* The traffic rules are one step here: module TrafficControl has them in  *)
(* detail. A file that was opened for writing and is not complete is       *)
(* "part".                                                                 *)
(***************************************************************************)
EXTENDS Naturals, Sequences

CONSTANTS Files,         \* the data files in the order of data_files.json: Files[f] is
                         \* the folder of file f, a data type (a key of the JSON object)
          Services,      \* the servers started in the background, in order
          WithServices,  \* the SERVICES environment variable
          MaxRuns        \* bound: runs of configure

FileIds == 1..Len(Files)
Servers == {Services[j] : j \in 1..Len(Services)}
Scripts == IF WithServices THEN <<"iperf", "pcap">> ELSE <<"pcap">>
Crons   == {Scripts[j] : j \in 1..Len(Scripts)}

ASSUME BootAssumption ==
  /\ Len(Files) \in Nat \ {0} /\ Len(Services) \in Nat \ {0}
  /\ WithServices \in BOOLEAN /\ MaxRuns \in Nat

(* The files of a data type follow each other. *)
ASSUME FolderAssumption ==
  \A f, g, h \in FileIds : f < g /\ g < h /\ Files[f] = Files[h] => Files[g] = Files[f]

VARIABLES
  \* the run of configure
  at, i,     \* the step it is at, the position in the loop of that step
  force,     \* the option -f
  live,      \* started by hand, nginx is running
  last,      \* how the last run in this container ended: "none", "ok", "failed"
  runs,      \* runs so far (bound)
  \* kept over a stop of the container
  file,      \* file[f]: "none", "part" or "whole"
  ports,     \* ports.json, the same
  entries,   \* entries[s]: lines of the crontab for script s
  cut,       \* history: files whose creation was interrupted
  \* gone with the container
  up, nginx, cron,  \* the container, nginx and cron are running
  rules,     \* the traffic rules: "none", "part" or "done"
  starting,  \* starting[s]: processes of server s that are not bound yet
  serving,   \* servers that are bound and answer
  managers   \* managers[s]: processes of script s

run    == <<at, i, force, live, last, runs>>
disk   == <<file, ports, entries, cut>>
memory == <<up, nginx, cron, rules, starting, serving, managers>>
vars   == <<run, disk, memory>>

Steps == {"folder", "check", "write", "unpublish", "publish", "dump", "rules", "shaping",
          "start", "initial", "entry", "cron"}

Init == /\ at = "idle" /\ i = 1 /\ force = FALSE /\ live = FALSE /\ last = "none" /\ runs = 0
        /\ file = [f \in FileIds |-> "none"] /\ ports = "none"
        /\ entries = [s \in Crons |-> 0] /\ cut = {}
        /\ up = FALSE /\ nginx = FALSE /\ cron = FALSE /\ rules = "none"
        /\ starting = [s \in Servers |-> 0] /\ serving = {}
        /\ managers = [s \in Crons |-> 0]

(* The run goes on at another step, at position j of its loop. *)
Goto(step, j) == at' = step /\ i' = j /\ UNCHANGED <<force, live, last, runs>>

(***************************************************************************)
(* Server.configure.                                                       *)
(***************************************************************************)
Begin(f, l) == /\ runs < MaxRuns
               /\ at' = (IF WithServices THEN "folder" ELSE "rules") /\ i' = 1
               /\ force' = f /\ live' = l /\ runs' = runs + 1

(* Mutant: the folder is always made anew. *)
ClearDataFolderAlways ==
  /\ at = "folder"
  /\ file' = [f \in FileIds |-> IF Files[f] = Files[i] THEN "none" ELSE file[f]]
  /\ Goto("check", i)
  /\ UNCHANGED <<ports, entries, cut, memory>>

(* rmtree of the folder before its first file. *)
ClearDataFolder ==
  /\ at = "folder"
  /\ file' = [f \in FileIds |-> IF force /\ Files[f] = Files[i] THEN "none" ELSE file[f]]
  /\ Goto("check", i)
  /\ UNCHANGED <<ports, entries, cut, memory>>

(* Mutant: the loop over the files starts again with its first one. *)
NextFileAgain == Goto("folder", 1)

NextFile == IF i = Len(Files) THEN Goto("unpublish", 1)
            ELSE Goto(IF Files[i + 1] = Files[i] THEN "check" ELSE "folder", i + 1)

(* check_file only asks whether the file exists; create_file opens it.     *)
CheckFile ==
  /\ at = "check"
  /\ IF force \/ file[i] = "none"
       THEN file' = [file EXCEPT ![i] = "part"] /\ Goto("write", i)
       ELSE NextFile /\ UNCHANGED file
  /\ UNCHANGED <<ports, entries, cut, memory>>

CreateFile ==
  /\ at = "write"
  /\ file' = [file EXCEPT ![i] = "whole"]
  /\ cut' = cut \ {i}
  /\ NextFile
  /\ UNCHANGED <<ports, entries, memory>>

ClearPortConfig ==
  /\ at = "unpublish"
  /\ ports' = "none"
  /\ Goto("publish", 1)
  /\ UNCHANGED <<file, entries, cut, memory>>

OpenPortConfig ==
  /\ at = "publish"
  /\ ports' = "part"
  /\ Goto("dump", 1)
  /\ UNCHANGED <<file, entries, cut, memory>>

(* Mutant: the result of json.dump is never written. *)
DumpPortsLost ==
  /\ at = "dump"
  /\ Goto("rules", 1)
  /\ UNCHANGED <<disk, memory>>

DumpPorts ==
  /\ at = "dump"
  /\ ports' = "whole"
  /\ Goto("rules", 1)
  /\ UNCHANGED <<file, entries, cut, memory>>

ConfigureRules ==
  /\ at = "rules"
  /\ rules' = "part"
  /\ Goto("shaping", 1)
  /\ UNCHANGED <<disk, up, nginx, cron, starting, serving, managers>>

(* Mutant: the services do not wait for the rules. *)
RulesConfiguredLate ==
  /\ at = "shaping"
  /\ Goto(IF WithServices THEN "start" ELSE "initial", 1)
  /\ UNCHANGED <<disk, memory>>

(* Mutant: cron is restarted before the scripts have been run. *)
RulesConfiguredThenCron ==
  /\ at = "shaping"
  /\ rules' = "done" /\ cron' = TRUE
  /\ Goto(IF WithServices THEN "start" ELSE "initial", 1)
  /\ UNCHANGED <<disk, up, nginx, starting, serving, managers>>

RulesConfigured ==
  /\ at = "shaping"
  /\ rules' = "done"
  /\ Goto(IF WithServices THEN "start" ELSE "initial", 1)
  /\ UNCHANGED <<disk, up, nginx, cron, starting, serving, managers>>

(* "python3 -u ... &": the shell returns 0 at once, whatever comes of it.  *)
StartServer ==
  /\ at = "start"
  /\ starting' = [starting EXCEPT ![Services[i]] = @ + 1]
  /\ IF i = Len(Services) THEN Goto("initial", 1) ELSE Goto("start", i + 1)
  /\ UNCHANGED <<disk, up, nginx, cron, rules, serving, managers>>

(* configure_cron: the initial start of a script, for which it waits ...   *)
StartScript ==
  /\ at = "initial"
  /\ managers' = [managers EXCEPT ![Scripts[i]] = @ + 1]
  /\ Goto("entry", i)
  /\ UNCHANGED <<disk, up, nginx, cron, rules, starting, serving>>

(* Mutant: the loop over the scripts ends one late. *)
NextScriptLate == IF i > Len(Scripts) THEN Goto("cron", 1) ELSE Goto("initial", i + 1)

NextScript == IF i = Len(Scripts) THEN Goto("cron", 1) ELSE Goto("initial", i + 1)

(* Mutant: the crontab is replaced by the new entry, as without crontab -l.*)
AddCronEntryOnly ==
  /\ at = "entry"
  /\ managers' = [managers EXCEPT ![Scripts[i]] = @ - 1]
  /\ entries' = [s \in Crons |-> IF s = Scripts[i] THEN 1 ELSE 0]
  /\ NextScript
  /\ UNCHANGED <<file, ports, cut, up, nginx, cron, rules, starting, serving>>

(* ... and its entry, appended to what "crontab -l" prints.                *)
AddCronEntry ==
  /\ at = "entry"
  /\ managers' = [managers EXCEPT ![Scripts[i]] = @ - 1]
  /\ entries' = [entries EXCEPT ![Scripts[i]] = @ + 1]
  /\ NextScript
  /\ UNCHANGED <<file, ports, cut, up, nginx, cron, rules, starting, serving>>

(* The end of configure(); the entrypoint goes on to start nginx.          *)
RestartCron ==
  /\ at = "cron"
  /\ cron' = TRUE /\ nginx' = TRUE
  /\ at' = "idle" /\ i' = 1 /\ last' = "ok"
  /\ UNCHANGED <<force, live, runs, disk, up, rules, starting, serving, managers>>

Configure == \/ ClearDataFolder \/ CheckFile \/ CreateFile
             \/ ClearPortConfig \/ OpenPortConfig \/ DumpPorts
             \/ ConfigureRules \/ RulesConfigured \/ StartServer
             \/ StartScript \/ AddCronEntry \/ RestartCron

(***************************************************************************)
(* Stops, failures, restarts.                                              *)
(***************************************************************************)
(* The creation of a file that is interrupted leaves what was written.     *)
Interrupted == cut' = IF at = "write" THEN cut \cup {i} ELSE cut

Down == /\ up' = FALSE /\ nginx' = FALSE /\ cron' = FALSE /\ rules' = "none"
        /\ starting' = [s \in Servers |-> 0] /\ serving' = {}
        /\ managers' = [s \in Crons |-> 0]

(* Mutant: a run by hand that fails reports success. *)
FailUnnoticed ==
  /\ at \in Steps
  /\ at' = "idle" /\ i' = 1 /\ last' = "ok"
  /\ Interrupted
  /\ IF live THEN /\ managers' = [s \in Crons |-> IF at = "entry" /\ s = Scripts[i]
                                                  THEN managers[s] - 1 ELSE managers[s]]
                  /\ UNCHANGED <<up, nginx, cron, rules, starting, serving>>
             ELSE Down
  /\ UNCHANGED <<force, live, runs, file, ports, entries>>

(* A step that is asserted fails: configure() ends with an AssertionError. *)
(* The entrypoint then ends the container; a run by hand ends alone.       *)
Fail ==
  /\ at \in Steps
  /\ at' = "idle" /\ i' = 1 /\ last' = IF live THEN "failed" ELSE "none"
  /\ Interrupted
  /\ IF live THEN /\ managers' = [s \in Crons |-> IF at = "entry" /\ s = Scripts[i]
                                                  THEN managers[s] - 1 ELSE managers[s]]
                  /\ UNCHANGED <<up, nginx, cron, rules, starting, serving>>
             ELSE Down
  /\ UNCHANGED <<force, live, runs, file, ports, entries>>

(* The container is stopped or killed at any moment ... *)
Stop == /\ up
        /\ at' = "idle" /\ i' = 1 /\ last' = "none"
        /\ Interrupted
        /\ Down
        /\ UNCHANGED <<force, live, runs, file, ports, entries>>

(* ... started again with its file system, *)
Boot == /\ ~up
        /\ Begin(FALSE, FALSE)
        /\ up' = TRUE
        /\ UNCHANGED <<last, disk, nginx, cron, rules, starting, serving, managers>>

(* ... or replaced by a new one, which only gets the volume of the files.  *)
Recreate == /\ ~up
            /\ ports' = "none" /\ entries' = [s \in Crons |-> 0]
            /\ UNCHANGED <<run, file, cut, memory>>

(* "server configure [-f]" in the running container.                       *)
Rerun == /\ nginx /\ at = "idle"
         /\ \E f \in BOOLEAN : Begin(f, TRUE)
         /\ UNCHANGED <<last, disk, memory>>

(***************************************************************************)
(* The background.                                                         *)
(***************************************************************************)
(* A server binds its ports. If another process of it has them already,    *)
(* bind() fails and the new process ends.                                  *)
Bind(s) == /\ starting[s] > 0
           /\ starting' = [starting EXCEPT ![s] = @ - 1]
           /\ serving' = serving \cup {s}
           /\ UNCHANGED <<run, disk, up, nginx, cron, rules, managers>>

(* A server does not come up, for want of a certificate, say. *)
StartFails(s) == /\ starting[s] > 0
                 /\ starting' = [starting EXCEPT ![s] = @ - 1]
                 /\ UNCHANGED <<run, disk, up, nginx, cron, rules, serving, managers>>

ByConfigure(s) == IF at = "entry" /\ s = Scripts[i] THEN 1 ELSE 0

(* "0 */3 * * *": every entry starts its script. The managers that cron    *)
(* started three hours before have ended.                                  *)
CronFires == /\ cron
             /\ \A s \in Crons : managers[s] = ByConfigure(s)
             /\ managers' = [s \in Crons |-> managers[s] + entries[s]]
             /\ UNCHANGED <<run, disk, up, nginx, cron, rules, starting, serving>>

ManagerEnds(s) == /\ managers[s] > ByConfigure(s)
                  /\ managers' = [managers EXCEPT ![s] = @ - 1]
                  /\ UNCHANGED <<run, disk, up, nginx, cron, rules, starting, serving>>

Next == \/ Configure \/ Fail \/ Stop \/ Boot \/ Recreate \/ Rerun
        \/ \E s \in Servers : Bind(s) \/ StartFails(s)
        \/ CronFires
        \/ \E s \in Crons : ManagerEnds(s)

Spec == Init /\ [][Next]_vars

(* The commands of configure() return, and a server binds its ports or ends.*)
FairSpec == /\ Spec /\ WF_vars(Configure)
            /\ \A s \in Servers : WF_vars(Bind(s) \/ StartFails(s))

-----------------------------------------------------------------------------
(***************************************************************************)
(* Properties.                                                             *)
(***************************************************************************)

(* Positions are in range, states are known. *)
TypeOK ==
  /\ at \in Steps \cup {"idle"} /\ i \in Nat \ {0}
  /\ at \in {"folder", "check", "write"} => i \in FileIds
  /\ at \in {"initial", "entry"} => i \in 1..Len(Scripts)
  /\ at = "start" => i \in 1..Len(Services)
  /\ force \in BOOLEAN /\ live \in BOOLEAN /\ last \in {"none", "ok", "failed"}
  /\ runs \in 0..MaxRuns
  /\ file \in [FileIds -> {"none", "part", "whole"}] /\ ports \in {"none", "part", "whole"}
  /\ entries \in [Crons -> Nat] /\ cut \subseteq FileIds
  /\ up \in BOOLEAN /\ nginx \in BOOLEAN /\ cron \in BOOLEAN
  /\ rules \in {"none", "part", "done"}
  /\ starting \in [Servers -> Nat] /\ serving \subseteq Servers
  /\ managers \in [Crons -> Nat]

Finished == at = "idle" /\ last = "ok"

(* However often the container was stopped before, after a successful run  *)
(* every file is there, and it is complete unless its creation was         *)
(* interrupted at some time and it was not made again since.               *)
FilesComplete ==
  (Finished /\ WithServices) =>
    \A f \in FileIds : file[f] = IF f \in cut THEN "part" ELSE "whole"

(* nginx never hands out a ports.json that is missing or incomplete, except*)
(* while a run by hand replaces it, or after such a run failed.            *)
PublishedWhenServing ==
  (nginx /\ WithServices) =>
    ports = "whole" \/ last = "failed" \/ (live /\ at \in {"publish", "dump"})

(* No server answers over links that are not shaped, with the same two     *)
(* exceptions: the rules are there before the first server starts.         *)
ShapedWhenServing ==
  serving # {} => rules = "done" \/ last = "failed" \/ (live /\ at = "shaping")

(* After a successful run cron restarts every script, and keeps doing so   *)
(* until the container stops, whatever later runs by hand do.              *)
EveryScriptScheduled ==
  last = "ok" => cron /\ \A s \in Crons : entries[s] > 0

(* Two processes of one script only run at a time when the crontab has an  *)
(* entry twice, or when cron fires during a run by hand.                   *)
OverlapCause ==
  \A s \in Crons : managers[s] > 1 => entries[s] > 1 \/ (live /\ at = "entry")

(* A container that is neither stopped nor ended by a failure gets through *)
(* its boot: nginx serves, no server is still starting, no run is going on.*)
ComesUp == up ~> ~up \/ (nginx /\ at = "idle" /\ \A s \in Servers : starting[s] = 0)
=============================================================================
