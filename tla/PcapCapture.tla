---------------------------- MODULE PcapCapture ----------------------------
(***************************************************************************)
(* tools/host/pcap_manager.py and tools/host/pcap_listener.py: how one     *)
(* (scheme, port) is captured. The manager, which cron starts every three  *)
(* hours, cleans up and starts a listener, which starts tcpdump and a      *)
(* "tail -f" of the file tcpdump writes, and first gets rid of the tail    *)
(* and the listener of the run before, found with ps and grep. Nothing     *)
(* keeps managers from running at a time (ServerBoot, OverlapCause).       *)
(*                                                                         *)
(* The state is the process table of the container (pid 1 is nginx) and    *)
(* the files. Processes are numbered in the order they start. A file is    *)
(* named by the tcpdump that created it: 0 stands for no file.             *)
(***************************************************************************)
EXTENDS Naturals, FiniteSets, FiniteSetsExt

CONSTANTS MaxRuns,     \* bound: runs of the manager
          MaxOverlaps, \* bound: runs that begin while another one is not over
          Calm,        \* bound: once runs have overlapped, no packets come, and listeners
                       \* in their loop neither read nor time out
          GrepSeen     \* ps always lists the grep of its own pipeline

ASSUME RunsAssumption ==
  MaxRuns \in Nat /\ MaxOverlaps \in Nat /\ Calm \in BOOLEAN /\ GrepSeen \in BOOLEAN

Runs  == 1..MaxRuns
Root  == 1
NoPid == 0
Pids  == 1..(4 * MaxRuns + 1)

VARIABLES
  up,       \* pid 1 is running, hence the container
  kind,     \* kind[p]: "none", "init", "listener", "tcpdump", "tail", or "shell" (that
            \* of a listener's "ps | grep")
  parent,   \* parent[p]
  life,     \* life[p]: "no" (not started, or reaped), "runs" or "zombie"
  signalled,\* tcpdumps that got a SIGTERM: they handle it, and end some time later
  manager,  \* manager[m]: "none", "logs", "mklogs", "rmtree", "dir", "mkdir", "tmp",
            \* "remove", "spawn" or "over"
  overlap,  \* history: a run began while another was not over: "no", "now" (the newest
            \* one did) or "past"
  overlaps, \* how many did (bound)
  at,       \* at[l]: where listener l is in its code
  dump, tail,    \* its pcap_process and listener_process
  victims,       \* what delete_pcap_processes read: <<tail_pid, parent_pid>>
  started, alarm,\* pcap_started; an alarm is pending when readline() returned
  writes,   \* writes[d]: the file tcpdump d has open
  follows,  \* follows[t]: the file tail t has open
  unread,   \* tails with output that was not read
  tmp,      \* the file at the tmp_log path
  filled,   \* files tcpdump has written to
  logdirs,  \* listener_log_dir (and pcap_log_dir with it) exists
  logdir,   \* the directory of the saved captures of this port exists
  errors    \* history: uncaught exceptions that ended a listener

procs  == <<up, kind, parent, life, signalled>>
mgr    == <<manager, overlap, overlaps>>
locals == <<dump, tail, victims, started, alarm>>
files  == <<writes, follows, unread, tmp, filled, logdirs, logdir>>
vars   == <<procs, mgr, at, locals, files, errors>>

Running(k) == {p \in Pids : kind[p] = k /\ life[p] = "runs"}
Busy(l)    == at[l] \notin {"loop", "spin"} /\ ~(at[l] = "await" /\ tmp = NoPid)

Init == /\ up = TRUE
        /\ kind = [p \in Pids |-> IF p = Root THEN "init" ELSE "none"]
        /\ parent = [p \in Pids |-> NoPid]
        /\ life = [p \in Pids |-> IF p = Root THEN "runs" ELSE "no"]
        /\ signalled = {}
        /\ manager = [m \in Runs |-> "none"] /\ overlap = "no" /\ overlaps = 0
        /\ at = [p \in Pids |-> "none"]
        /\ dump = [p \in Pids |-> NoPid] /\ tail = [p \in Pids |-> NoPid]
        /\ victims = [p \in Pids |-> <<>>]
        /\ started = [p \in Pids |-> FALSE] /\ alarm = [p \in Pids |-> FALSE]
        /\ writes = [p \in Pids |-> NoPid] /\ follows = [p \in Pids |-> NoPid]
        /\ unread = {} /\ tmp = NoPid /\ filled = {}
        /\ logdirs = FALSE /\ logdir = FALSE /\ errors = {}

(***************************************************************************)
(* Processes.                                                              *)
(***************************************************************************)
NewPid == Min({p \in Pids : kind[p] = "none"})

(* Process p of kind k starts as a child of q. *)
Fork(p, k, q) == /\ kind' = [kind EXCEPT ![p] = k]
                 /\ parent' = [parent EXCEPT ![p] = q]
                 /\ life' = [life EXCEPT ![p] = "runs"]
                 /\ UNCHANGED <<up, signalled>>

(* The processes in S die. They stay zombies while their parent, a         *)
(* listener, lives and has not polled them; pid 1 reaps and adopts.        *)
Die(S) == /\ life' = [p \in Pids |->
               IF p \in S /\ life[p] = "runs"
                 THEN IF parent[p] = Root \/ parent[p] \in S THEN "no" ELSE "zombie"
               ELSE IF life[p] = "zombie" /\ parent[p] \in S THEN "no"
               ELSE life[p]]
          /\ parent' = [p \in Pids |-> IF parent[p] \in S THEN Root ELSE parent[p]]
          /\ UNCHANGED <<kind, signalled>>

(* A tcpdump that ends writes what it had buffered, if anything.  *)
Flush(D) ==
  \E F \in SUBSET ({writes[d] : d \in D} \ {NoPid}) :
    /\ filled' = filled \cup F
    /\ unread' = unread \cup {t \in Running("tail") : follows[t] \in F}

(* Mutant: the tcpdump of the run before is not told to end. *)
PkilledNone == {}
(* What "pkill tcpdump" finds. It sends a SIGTERM, and does not wait.      *)
Pkilled == Running("tcpdump")

(***************************************************************************)
(* The manager.                                                            *)
(***************************************************************************)
Manages(m, step) == up /\ manager[m] = step
Then(m, step)    == manager' = [manager EXCEPT ![m] = step] /\ UNCHANGED <<overlap, overlaps>>

(* A run whose manager is not over, or whose listener or tcpdump is not    *)
(* where it waits for packets (or for a file that no one will open).       *)
SomeNotOver == \/ \E m \in Runs : manager[m] \notin {"none", "over"}
               \/ \E l \in Running("listener") : Busy(l)
               \/ \E d \in Running("tcpdump") : writes[d] = NoPid

Clean(m) ==
  /\ Manages(m, "none") /\ \A o \in Runs : o < m => manager[o] # "none"
  /\ IF SomeNotOver
       THEN overlaps < MaxOverlaps /\ overlaps' = overlaps + 1 /\ overlap' = "now"
       ELSE UNCHANGED overlaps /\ overlap' = IF overlap = "no" THEN "no" ELSE "past"
  /\ signalled' = signalled \cup Pkilled
  /\ manager' = [manager EXCEPT ![m] = "logs"]
  /\ UNCHANGED <<up, kind, parent, life, at, locals, files, errors>>

(* make_dir asks whether the directory exists, and makes it; os.makedirs   *)
(* raises if another manager has made it meanwhile, and this one ends.     *)
MakeDir(m, look, make, next) ==
  /\ \/ /\ Manages(m, look)
        /\ Then(m, IF logdirs THEN next ELSE make)
        /\ UNCHANGED logdirs
     \/ /\ Manages(m, make)
        /\ Then(m, IF logdirs THEN "over" ELSE next)
        /\ logdirs' = TRUE
  /\ UNCHANGED <<procs, at, locals, writes, follows, unread, tmp, filled, logdir, errors>>

(* The properties listener_log_dir and pcap_log_dir make what is removed.  *)
RemoveLogs(m) ==
  /\ Manages(m, "rmtree")
  /\ logdirs' = FALSE /\ logdir' = FALSE
  /\ Then(m, "dir")
  /\ UNCHANGED <<procs, at, locals, writes, follows, unread, tmp, filled, errors>>

(* Mutant: the capture of the run before is not removed. *)
GetTmpLogKept(m) ==
  /\ Manages(m, "tmp")
  /\ Then(m, "spawn")
  /\ UNCHANGED <<procs, at, locals, files, errors>>

GetTmpLog(m) ==
  /\ Manages(m, "tmp")
  /\ Then(m, IF tmp = NoPid THEN "spawn" ELSE "remove")
  /\ UNCHANGED <<procs, at, locals, files, errors>>

(* os.remove raises if another manager has removed the file.               *)
RemoveTmpLog(m) ==
  /\ Manages(m, "remove")
  /\ Then(m, IF tmp = NoPid THEN "over" ELSE "spawn")
  /\ tmp' = NoPid
  /\ UNCHANGED <<procs, at, locals, writes, follows, unread, filled, logdirs, logdir, errors>>

(* The shell that runs the command exits: the listener is a child of pid 1.*)
(* Without a directory for its log it is not started, and the command      *)
(* succeeds all the same, because of its "&".                              *)
ConfigurePcap(m) ==
  /\ Manages(m, "spawn")
  /\ IF logdirs THEN Fork(NewPid, "listener", Root) /\ at' = [at EXCEPT ![NewPid] = "open"]
                ELSE UNCHANGED <<procs, at>>
  /\ Then(m, "over")
  /\ UNCHANGED <<locals, files, errors>>

(***************************************************************************)
(* The listener.                                                           *)
(***************************************************************************)
(* The bound on what happens after an overlap. *)
Quiet == Calm => overlap = "no"

Active(l, where) == up /\ kind[l] = "listener" /\ life[l] = "runs" /\ at[l] = where
Goto(l, where) == at' = [at EXCEPT ![l] = where]

OpenPcapProcess(l) ==
  /\ Active(l, "open")
  /\ Fork(NewPid, "tcpdump", l)
  /\ dump' = [dump EXCEPT ![l] = NewPid]
  /\ Goto(l, "scan")
  /\ UNCHANGED <<mgr, tail, victims, started, alarm, files, errors>>

(* os.popen starts a shell. *)
StartPs(l) ==
  /\ Active(l, "scan")
  /\ Fork(NewPid, "shell", l)
  /\ Goto(l, "ps")
  /\ UNCHANGED <<mgr, locals, files, errors>>

Listed == Running("tail") \cup Running("shell")

(* Mutants: one more line is asked for; the columns are off by one.        *)
PreviousRunMissed(greps) == Cardinality(Listed) + greps > 3
VictimsShifted(t) == <<parent[t], NoPid>>

(* ps | grep lists the tails, the shell of the pipeline and usually its    *)
(* grep, and those of other listeners that look for the same at that time; *)
(* only with more than two lines is the first one taken to be the tail of  *)
(* the run before: its PID and PPID columns are read.                      *)
PreviousRun(greps) == Cardinality(Listed) + greps > 2

Victims(t) == <<t, parent[t]>>

ScanPs(l) ==
  /\ Active(l, "ps")
  /\ \E greps \in (IF GrepSeen THEN 1 ELSE 0)..Cardinality(Running("shell")) :
       victims' = [victims EXCEPT ![l] =
                     IF PreviousRun(greps) /\ Listed # {} THEN Victims(Min(Listed)) ELSE <<>>]
  /\ Goto(l, "read")
  /\ UNCHANGED <<procs, mgr, dump, tail, started, alarm, files, errors>>

(* The shell ends, and is reaped. *)
ReadPs(l) ==
  /\ Active(l, "read")
  /\ life' = [p \in Pids |-> IF kind[p] = "shell" /\ parent[p] = l THEN "no" ELSE life[p]]
  /\ Goto(l, IF victims[l] = <<>> THEN "await" ELSE "killtail")
  /\ UNCHANGED <<up, kind, parent, signalled, mgr, locals, files, errors>>

(* An exception nobody catches ends the listener; its children live on.    *)
Crash(l, error) == /\ Die({l})
                   /\ errors' = errors \cup {error}
                   /\ UNCHANGED <<up, at>>

(* os.kill(p, SIGTERM): raises ProcessLookupError if p is gone. A tail, a  *)
(* shell and a listener (which only installs a handler for SIGALRM) leave  *)
(* SIGTERM to the kernel, so that nothing of their own runs after it.      *)
(* SIGTERM to pid 1 shuts nginx down, and the container with it.           *)
KillPid(l, p, next) ==
  \/ /\ life[p] = "no"
     /\ Crash(l, "ProcessLookupError")
  \/ /\ life[p] # "no"
     /\ Die({p} \ {Root})
     /\ up' = (p # Root)
     /\ Goto(l, next)
     /\ UNCHANGED errors

(* Mutant: only the listener of the run before is signalled. *)
KillTailSkipped(l) ==
  /\ Active(l, "killtail")
  /\ Goto(l, "killparent")
  /\ UNCHANGED <<procs, mgr, locals, files, errors>>

KillTail(l) ==
  /\ Active(l, "killtail")
  /\ KillPid(l, victims[l][1], "killparent")
  /\ UNCHANGED <<mgr, locals, files>>

KillParent(l) ==
  /\ Active(l, "killparent")
  /\ KillPid(l, victims[l][2], "await")
  /\ UNCHANGED <<mgr, locals, files>>

AwaitTmpLog(l) ==
  /\ Active(l, "await")
  /\ tmp # NoPid
  /\ Goto(l, "tail")
  /\ UNCHANGED <<procs, mgr, locals, files, errors>>

StartTail(l) ==
  /\ Active(l, "tail")
  /\ Fork(NewPid, "tail", l)
  /\ tail' = [tail EXCEPT ![l] = NewPid]
  /\ follows' = [follows EXCEPT ![NewPid] = tmp]
  /\ unread' = IF tmp \in filled THEN unread \cup {NewPid} ELSE unread
  /\ Goto(l, "loop")
  /\ UNCHANGED <<mgr, dump, victims, started, alarm, writes, tmp, filled, logdirs, logdir,
                 errors>>

(* listener_process.poll() reaps the tail and run() returns.               *)
RunEnded(l) ==
  /\ Active(l, "loop")
  /\ life[tail[l]] # "runs"
  /\ Die({l})
  /\ UNCHANGED <<up, mgr, at, locals, files, errors>>

(* The directory of the capture is made at the first output; os.makedirs   *)
(* raises if it is there already. (It makes pcap_log_dir, too, if that is  *)
(* missing; listener_log_dir it does not.)                                 *)
GetLogFile(l) ==
  /\ logdir' = TRUE
  /\ IF ~started[l] /\ logdir
       THEN Crash(l, "FileExistsError")
       ELSE UNCHANGED <<procs, at, errors>>

(* readline() returned output within the second: the alarm stays pending.  *)
ReadLine(l) ==
  /\ Active(l, "loop") /\ Quiet
  /\ life[tail[l]] = "runs" /\ tail[l] \in unread
  /\ \/ unread' = unread \ {tail[l]}
     \/ unread' = unread
  /\ alarm' = [alarm EXCEPT ![l] = TRUE]
  /\ started' = [started EXCEPT ![l] = TRUE]
  /\ GetLogFile(l)
  /\ UNCHANGED <<mgr, dump, tail, victims, writes, follows, tmp, filled, logdirs>>

(* The second passed: TimeoutError is swallowed and there is no output.    *)
ReadTimeout(l) ==
  /\ Active(l, "loop") /\ Quiet
  /\ life[tail[l]] = "runs" /\ tail[l] \notin unread
  /\ alarm' = [alarm EXCEPT ![l] = FALSE]
  /\ UNCHANGED <<procs, mgr, at, dump, tail, victims, started, files, errors>>

(* The alarm of the iteration before fires after raise_timeout was         *)
(* installed again and before the try statement is reached.                *)
StrayAlarm(l) ==
  /\ Active(l, "loop") /\ Quiet
  /\ life[tail[l]] = "runs" /\ alarm[l]
  /\ Crash(l, "TimeoutError")
  /\ UNCHANGED <<mgr, locals, files>>

(* No output for the timeout: "Capture done", kill_listener is entered.    *)
CaptureDone(l) ==
  /\ Active(l, "loop") /\ Quiet
  /\ life[tail[l]] = "runs" /\ started[l] /\ tail[l] \notin unread
  /\ Goto(l, "spin")
  /\ UNCHANGED <<procs, mgr, locals, files, errors>>

(* while tcpdump_pid is not None: os.kill(...). Nothing assigns to         *)
(* tcpdump_pid, and a child that has ended and is not polled keeps its pid.*)
KillListener(l) ==
  /\ Active(l, "spin")
  /\ life[dump[l]] # "no"
  /\ signalled' = signalled \cup {dump[l]}
  /\ UNCHANGED <<up, kind, parent, life, mgr, at, locals, files, errors>>

(***************************************************************************)
(* tcpdump -w: opens (and truncates) the file, and writes a block now and  *)
(* then, until it has handled a SIGTERM. A tail that no listener reads any *)
(* more may find its pipe broken, and end.                                 *)
(***************************************************************************)
TcpdumpOpens(d) ==
  /\ up /\ d \in Running("tcpdump") /\ writes[d] = NoPid
  /\ tmp' = IF tmp = NoPid THEN d ELSE tmp
  /\ writes' = [writes EXCEPT ![d] = tmp']
  /\ filled' = filled \ {tmp'}
  /\ UNCHANGED <<procs, mgr, at, locals, follows, unread, logdirs, logdir, errors>>

TcpdumpWrites(d) ==
  /\ up /\ d \in Running("tcpdump") /\ writes[d] # NoPid
  /\ Quiet
  /\ filled' = filled \cup {writes[d]}
  /\ unread' = unread \cup {t \in Running("tail") : follows[t] = writes[d]}
  /\ UNCHANGED <<procs, mgr, at, locals, writes, follows, tmp, logdirs, logdir, errors>>

TcpdumpEnds(d) ==
  /\ up /\ d \in Running("tcpdump") /\ d \in signalled
  /\ Flush({d})
  /\ Die({d})
  /\ UNCHANGED <<up, mgr, at, locals, writes, follows, tmp, logdirs, logdir, errors>>

TailEnds(t) ==
  /\ up /\ t \in Running("tail") /\ parent[t] = Root
  /\ Die({t})
  /\ UNCHANGED <<up, mgr, at, locals, files, errors>>

ManagerStep(m) == \/ Clean(m) \/ MakeDir(m, "logs", "mklogs", "rmtree") \/ RemoveLogs(m)
                  \/ MakeDir(m, "dir", "mkdir", "tmp") \/ GetTmpLog(m) \/ RemoveTmpLog(m)
                  \/ ConfigurePcap(m)
ListenerStep(l) == \/ OpenPcapProcess(l) \/ StartPs(l) \/ ScanPs(l) \/ ReadPs(l)
                   \/ KillTail(l) \/ KillParent(l) \/ AwaitTmpLog(l) \/ StartTail(l)
                   \/ RunEnded(l) \/ ReadLine(l) \/ ReadTimeout(l) \/ StrayAlarm(l)
                   \/ CaptureDone(l) \/ KillListener(l)

Next == \/ \E m \in Runs : ManagerStep(m)
        \/ \E l \in Pids : ListenerStep(l)
        \/ \E p \in Pids : TcpdumpOpens(p) \/ TcpdumpWrites(p) \/ TcpdumpEnds(p) \/ TailEnds(p)

Spec == Init /\ [][Next]_vars

-----------------------------------------------------------------------------
(***************************************************************************)
(* Properties.                                                             *)
(***************************************************************************)

(* The process table and the files only refer to processes. *)
TypeOK ==
  /\ up \in BOOLEAN
  /\ kind \in [Pids -> {"none", "init", "listener", "tcpdump", "tail", "shell"}]
  /\ parent \in [Pids -> Pids \cup {NoPid}] /\ life \in [Pids -> {"no", "runs", "zombie"}]
  /\ signalled \subseteq Pids
  /\ manager \in [Runs -> {"none", "logs", "mklogs", "rmtree", "dir", "mkdir", "tmp",
                           "remove", "spawn", "over"}]
  /\ overlap \in {"no", "now", "past"} /\ overlaps \in 0..MaxOverlaps
  /\ at \in [Pids -> {"none", "open", "scan", "ps", "read", "killtail", "killparent",
                      "await", "tail", "loop", "spin"}]
  /\ dump \in [Pids -> Pids \cup {NoPid}] /\ tail \in [Pids -> Pids \cup {NoPid}]
  /\ victims \in [Pids -> {<<>>} \cup (Pids \X Pids)]
  /\ started \in [Pids -> BOOLEAN] /\ alarm \in [Pids -> BOOLEAN]
  /\ writes \in [Pids -> Pids \cup {NoPid}] /\ follows \in [Pids -> Pids \cup {NoPid}]
  /\ unread \subseteq Pids /\ tmp \in Pids \cup {NoPid} /\ filled \subseteq Pids
  /\ logdirs \in BOOLEAN /\ logdir \in BOOLEAN
  /\ errors \subseteq {"ProcessLookupError", "FileExistsError", "TimeoutError"}

(* Tcpdumps that go on capturing: no one has told them to end.             *)
Capturing == Running("tcpdump") \ signalled

(* The port is never captured twice for good while runs do not overlap:    *)
(* whatever became of the listener of the run before, its tcpdump has been *)
(* told to end before the next starts. It may end as late as it likes, as  *)
(* it never writes to the file of the next. After an overlap the next run  *)
(* of its own makes up for it.                                             *)
OneTcpdump ==
  overlap # "now" =>
    \A d \in Capturing : \A e \in Running("tcpdump") \ {d} :
      e \in signalled /\ (writes[d] # NoPid => writes[e] # writes[d])

(* A listener reads the file its own tcpdump writes, never what an earlier *)
(* run left at the same path.                                              *)
ReadsOwnCapture ==
  \A l \in Running("listener") : at[l] \in {"loop", "spin"} =>
    \/ follows[tail[l]] = writes[dump[l]] /\ writes[dump[l]] = dump[l]
    \/ overlap # "no"

(* When a listener starts to wait for packets, no other one is left, be it *)
(* one that waits, or one that spins in kill_listener. Once everything has *)
(* settled there is one, unless an exception has ended a listener.         *)
NewestOnly ==
  up /\ overlap = "no" =>
    /\ \A l, m \in Running("listener") : at[l] \in {"await", "tail", "loop"} => m >= l
    /\ \/ SomeNotOver \/ \A m \in Runs : manager[m] = "none"
       \/ errors # {}
       \/ Running("listener") # {}

(* pid 1 only gets a SIGTERM after a listener was ended by an exception in *)
(* its loop and so left its tail to pid 1, or by the signal of another one *)
(* that was started at the same time and did not know of its tail. (An     *)
(* exception while it gets rid of the old listener is harmless in this     *)
(* respect, and so are runs that do not overlap.)                          *)
InitKilledByOrphan ==
  ~up => errors \cap {"FileExistsError", "TimeoutError"} # {} \/ overlap # "no"

(* pcap_listener.py:44 "Deleting Previous PCAP processses.": only the      *)
(* processes of the run before are signalled.                              *)
InitSpared == up
=============================================================================
