------------------------ MODULE PcapCaptureProofs -------------------------
(***************************************************************************)
(* Proofs about PcapCapture, for any number of runs and of overlaps.       *)
(*                                                                         *)
(*   Inv       one run captures at a time                                  *)
(*   Table     numbers, parents and children         TypeCorrect           *)
(*   Fresh     which file a tcpdump writes           SingleCapture         *)
(*   Captured  the file a starting listener reads    OwnCapture            *)
(*   Hunt      how it gets rid of the old listener   RootSpared            *)
(*   Served    each run starts a listener            OneListener           *)
(*                                                                         *)
(* each of which uses those before it.                                     *)
(***************************************************************************)
EXTENDS PcapCapture, FiniteSetTheorems, TLAPS

Tabled ==
  /\ kind \in [Pids -> {"none", "init", "listener", "tcpdump", "tail", "shell"}]
  /\ life \in [Pids -> {"no", "runs", "zombie"}]
  /\ at \in [Pids -> {"none", "open", "scan", "ps", "read", "killtail", "killparent",
                      "await", "tail", "loop", "spin"}]
  /\ manager \in [Runs -> {"none", "logs", "mklogs", "rmtree", "dir", "mkdir", "tmp",
                           "remove", "spawn", "over"}]

(* The stages a run is in before its tcpdump is told to end. *)
Handling == {m \in Runs : manager[m] \notin {"none", "over"}}
Opening  == {l \in Running("listener") : at[l] = "open"}

(* A run is a manager, then the listener it starts, then the tcpdump that  *)
(* this one starts. Unless runs overlap there is one of them in all.       *)
OneRun ==
  overlap # "now" =>
    /\ \A m, o \in Handling : m = o
    /\ \A l, k \in Opening : l = k
    /\ \A d, e \in Capturing : d = e
    /\ Handling = {} \/ Opening = {}
    /\ Handling = {} \/ Capturing = {}
    /\ Opening = {} \/ Capturing = {}

Inv == Tabled /\ OneRun

(* Steps that start no listener and no tcpdump. *)
LEMMA FewerKeep ==
  ASSUME OneRun, overlap' = overlap, Handling' \subseteq Handling, Opening' \subseteq Opening,
         Capturing' \subseteq Capturing
  PROVE  OneRun'
  BY DEF OneRun

(* No process lives again after others have died. *)
LEMMA DieKeeps ==
  ASSUME Tabled, NEW S, Die(S), at' \in [Pids -> {"none", "open", "scan", "ps", "read",
           "killtail", "killparent", "await", "tail", "loop", "spin"}],
         \A p \in Pids : at'[p] = "open" => at[p] = "open",
         manager' = manager, overlap' = overlap, OneRun
  PROVE  Tabled' /\ OneRun'
  <1>1. /\ kind' = kind /\ life' \in [Pids -> {"no", "runs", "zombie"}]
        /\ signalled' = signalled
        /\ \A p \in Pids : life'[p] = "runs" => life[p] = "runs"
    BY DEF Die, Tabled
  <1>2. /\ Handling' \subseteq Handling /\ Opening' \subseteq Opening
        /\ Capturing' \subseteq Capturing
    BY <1>1 DEF Handling, Opening, Capturing, Running
  <1> QED
    BY <1>1, <1>2, FewerKeep DEF Tabled

(* Nor after a shell or a tail was started. *)
LEMMA HelperKeeps ==
  ASSUME Tabled, NEW p, NEW q, NEW k \in {"shell", "tail"}, Fork(p, k, q), NEW l, NEW where
           \in {"ps", "loop"}, Goto(l, where), manager' = manager, overlap' = overlap, OneRun
  PROVE  Tabled' /\ OneRun'
  <1>1. Tabled'
    BY DEF Tabled, Fork, Goto
  <1>2. /\ Handling' \subseteq Handling /\ Opening' \subseteq Opening
        /\ Capturing' \subseteq Capturing
    BY DEF Handling, Opening, Capturing, Running, Tabled, Fork, Goto
  <1> QED
    BY <1>1, <1>2, FewerKeep

-----------------------------------------------------------------------------
(* The manager. *)
LEMMA CleanKeeps == ASSUME Inv, NEW m \in Runs, Clean(m) PROVE Inv'
  <1>1. /\ manager' = [manager EXCEPT ![m] = "logs"] /\ at' = at /\ kind' = kind /\ life' = life
        /\ signalled' = signalled \cup Running("tcpdump")
    BY DEF Clean, Pkilled
  <1>2. Tabled'
    BY <1>1 DEF Inv, Tabled
  <1>3. OneRun'
    <2>1. CASE SomeNotOver
      BY <2>1 DEF Clean, OneRun
    <2>2. CASE ~SomeNotOver
      <3>1. Handling' = {m}
        BY <1>1, <2>2 DEF SomeNotOver, Handling, Inv, Tabled
      <3>2. Opening' = {}
        BY <1>1, <2>2 DEF SomeNotOver, Busy, Opening, Running
      <3>3. Capturing' = {}
        BY <1>1 DEF Capturing, Running
      <3> QED
        BY <3>1, <3>2, <3>3 DEF OneRun
    <2> QED
      BY <2>1, <2>2
  <1> QED
    BY <1>2, <1>3 DEF Inv

LEMMA ManagerKeeps ==
  ASSUME Inv, NEW m \in Runs,
         \/ MakeDir(m, "logs", "mklogs", "rmtree") \/ RemoveLogs(m)
         \/ MakeDir(m, "dir", "mkdir", "tmp") \/ GetTmpLog(m) \/ RemoveTmpLog(m)
  PROVE  Inv'
  <1>1. /\ manager[m] \notin {"none", "over"}
        /\ UNCHANGED <<kind, life, signalled, at, overlap>>
    BY DEF MakeDir, RemoveLogs, GetTmpLog, RemoveTmpLog, Manages, Then, procs
  <1>2. PICK step \in {"mklogs", "rmtree", "dir", "mkdir", "tmp", "remove", "spawn", "over"} :
          manager' = [manager EXCEPT ![m] = step]
    BY DEF MakeDir, RemoveLogs, GetTmpLog, RemoveTmpLog, Manages, Then
  <1>3. Tabled'
    BY <1>1, <1>2 DEF Inv, Tabled
  <1>4. /\ Handling' \subseteq Handling /\ Opening' = Opening
        /\ Capturing' = Capturing
    BY <1>1, <1>2 DEF Handling, Opening, Capturing, Running, Inv, Tabled
  <1> QED
    BY <1>1, <1>3, <1>4, FewerKeep DEF Inv

(* The manager hands over to the listener. *)
LEMMA SpawnKeeps == ASSUME Inv, NEW m \in Runs, ConfigurePcap(m) PROVE Inv'
  <1>1. /\ manager[m] \notin {"none", "over"}
        /\ manager' = [manager EXCEPT ![m] = "over"] /\ overlap' = overlap
    BY DEF ConfigurePcap, Manages, Then
  <1>2. \/ UNCHANGED <<kind, life, signalled, at>>
        \/ \E p : /\ signalled' = signalled
                  /\ kind' = [kind EXCEPT ![p] = "listener"]
                  /\ life' = [life EXCEPT ![p] = "runs"]
                  /\ at' = [at EXCEPT ![p] = "open"]
    BY DEF ConfigurePcap, Fork, procs
  <1>3. Tabled'
    BY <1>1, <1>2 DEF Inv, Tabled
  <1>4. m \in Handling /\ Handling' \subseteq Handling \ {m}
    BY <1>1 DEF Handling, Inv, Tabled
  <1>5. Capturing' \subseteq Capturing
    BY <1>2 DEF Capturing, Running, Inv, Tabled
  <1>6. Opening' \subseteq Opening \/ \E p : Opening' \subseteq Opening \cup {p}
    BY <1>2 DEF Opening, Running, Inv, Tabled
  <1>7. OneRun'
    BY <1>1, <1>4, <1>5, <1>6 DEF OneRun, Inv
  <1> QED
    BY <1>3, <1>7 DEF Inv

-----------------------------------------------------------------------------
(* The listener hands over to tcpdump. *)
LEMMA OpenKeeps == ASSUME Inv, NEW l \in Pids, OpenPcapProcess(l) PROVE Inv'
  <1>1. /\ l \in Opening /\ manager' = manager /\ overlap' = overlap
        /\ at' = [at EXCEPT ![l] = "scan"]
    BY DEF OpenPcapProcess, Active, Goto, Opening, Running, mgr
  <1>2. PICK p : /\ kind' = [kind EXCEPT ![p] = "tcpdump"] /\ signalled' = signalled
                 /\ life' = [life EXCEPT ![p] = "runs"]
    BY DEF OpenPcapProcess, Fork
  <1>3. Tabled'
    BY <1>1, <1>2 DEF Inv, Tabled
  <1>4. Handling' = Handling
    BY <1>1 DEF Handling
  <1>5. Opening' \subseteq Opening \ {l}
    BY <1>1, <1>2 DEF Opening, Running, Inv, Tabled
  <1>6. Capturing' \subseteq Capturing \cup {p}
    BY <1>2 DEF Capturing, Running, Inv, Tabled
  <1>7. OneRun'
    BY <1>1, <1>4, <1>5, <1>6 DEF OneRun, Inv
  <1> QED
    BY <1>3, <1>7 DEF Inv

LEMMA ListenerKeeps == ASSUME Inv, NEW l \in Pids, ListenerStep(l) PROVE Inv'
  <1>1. CASE StartPs(l)
    BY <1>1, HelperKeeps DEF StartPs, Inv, mgr
  <1>2. CASE StartTail(l)
    BY <1>2, HelperKeeps DEF StartTail, Inv, mgr
  <1>3. CASE ScanPs(l) \/ AwaitTmpLog(l) \/ CaptureDone(l) \/ ReadTimeout(l)
    <2>1. UNCHANGED <<kind, life, signalled, manager, overlap>>
      BY <1>3 DEF ScanPs, AwaitTmpLog, CaptureDone, ReadTimeout, procs, mgr
    <2>2. \/ at' = at
          \/ \E where \in {"read", "tail", "spin"} : at' = [at EXCEPT ![l] = where]
      BY <1>3 DEF ScanPs, AwaitTmpLog, CaptureDone, ReadTimeout, Goto
    <2>3. Tabled'
      BY <2>1, <2>2 DEF Inv, Tabled
    <2>4. /\ Handling' = Handling /\ Opening' \subseteq Opening
          /\ Capturing' = Capturing
      BY <2>1, <2>2 DEF Handling, Opening, Capturing, Running, Inv, Tabled
    <2> QED
      BY <2>1, <2>3, <2>4, FewerKeep DEF Inv
  <1>4. CASE ReadPs(l)
    <2>1. /\ UNCHANGED <<kind, signalled, manager, overlap>>
          /\ life' \in [Pids -> {"no", "runs", "zombie"}]
          /\ \A p \in Pids : life'[p] = "runs" => life[p] = "runs"
      BY <1>4 DEF ReadPs, mgr, Inv, Tabled
    <2>2. \E where \in {"await", "killtail"} : at' = [at EXCEPT ![l] = where]
      BY <1>4 DEF ReadPs, Goto
    <2>3. Tabled'
      BY <2>1, <2>2 DEF Inv, Tabled
    <2>4. /\ Handling' = Handling /\ Opening' \subseteq Opening
          /\ Capturing' \subseteq Capturing
      BY <2>1, <2>2 DEF Handling, Opening, Capturing, Running, Inv, Tabled
    <2> QED
      BY <2>1, <2>3, <2>4, FewerKeep DEF Inv
  <1>5. CASE KillTail(l) \/ KillParent(l)
    <2>1. UNCHANGED <<manager, overlap>> /\ \E S : Die(S)
      BY <1>5 DEF KillTail, KillParent, KillPid, Crash, mgr
    <2>2. at' = at \/ \E where \in {"killparent", "await"} : at' = [at EXCEPT ![l] = where]
      BY <1>5 DEF KillTail, KillParent, KillPid, Crash, Goto
    <2> QED
      BY <2>1, <2>2, DieKeeps DEF Inv, Tabled
  <1>6. CASE RunEnded(l) \/ StrayAlarm(l)
    <2>1. UNCHANGED <<at, manager, overlap>> /\ \E S : Die(S)
      BY <1>6 DEF RunEnded, StrayAlarm, Crash, mgr
    <2> QED
      BY <2>1, DieKeeps DEF Inv, Tabled
  <1>7. CASE ReadLine(l)
    <2>1. UNCHANGED <<at, manager, overlap>>
      BY <1>7 DEF ReadLine, GetLogFile, Crash, mgr
    <2>2. (\E S : Die(S)) \/ UNCHANGED <<kind, life, signalled>>
      BY <1>7 DEF ReadLine, GetLogFile, Crash, procs
    <2>3. CASE \E S : Die(S)
      BY <2>1, <2>3, DieKeeps DEF Inv, Tabled
    <2>4. CASE UNCHANGED <<kind, life, signalled>>
      BY <2>1, <2>4 DEF Inv, Tabled, OneRun, Handling, Opening, Capturing, Running
    <2> QED
      BY <2>2, <2>3, <2>4
  <1>8. CASE KillListener(l)
    <2>1. UNCHANGED <<kind, life, at, manager, overlap>> /\ signalled \subseteq signalled'
      BY <1>8 DEF KillListener, mgr
    <2>2. Handling' = Handling /\ Opening' = Opening /\ Capturing' \subseteq Capturing
      BY <2>1 DEF Handling, Opening, Capturing, Running
    <2> QED
      BY <2>1, <2>2, FewerKeep DEF Inv, Tabled
  <1> QED
    BY <1>1, <1>2, <1>3, <1>4, <1>5, <1>6, <1>7, <1>8, OpenKeeps DEF ListenerStep

-----------------------------------------------------------------------------
LEMMA InvAlways == Spec => []Inv
  <1>1. ASSUME Init PROVE Inv
    <2>1. /\ manager = [m \in Runs |-> "none"] /\ at = [p \in Pids |-> "none"]
          /\ kind = [p \in Pids |-> IF p = Root THEN "init" ELSE "none"]
          /\ life = [p \in Pids |-> IF p = Root THEN "runs" ELSE "no"]
      BY <1>1 DEF Init
    <2>2. Tabled
      BY <2>1 DEF Tabled
    <2>3. Handling = {} /\ Opening = {} /\ Capturing = {}
      BY <2>1 DEF Handling, Opening, Capturing, Running
    <2> QED
      BY <2>2, <2>3 DEF Inv, OneRun
  <1>2. ASSUME Inv, [Next]_vars PROVE Inv'
    <2>1. ASSUME NEW m \in Runs, ManagerStep(m) PROVE Inv'
      BY <1>2, <2>1, CleanKeeps, ManagerKeeps, SpawnKeeps DEF ManagerStep
    <2>2. ASSUME NEW l \in Pids, ListenerStep(l) PROVE Inv'
      BY <1>2, <2>2, ListenerKeeps
    <2>3. CASE UNCHANGED vars \/ \E p \in Pids : TcpdumpOpens(p) \/ TcpdumpWrites(p)
      <3>1. UNCHANGED <<kind, life, signalled, at, manager, overlap>>
        BY <2>3 DEF TcpdumpOpens, TcpdumpWrites, vars, procs, mgr
      <3> QED
        BY <1>2, <3>1 DEF Inv, Tabled, OneRun, Handling, Opening, Capturing, Running
    <2>4. ASSUME NEW p \in Pids, TcpdumpEnds(p) \/ TailEnds(p) PROVE Inv'
      <3>1. Die({p}) /\ UNCHANGED <<at, manager, overlap>>
        BY <2>4 DEF TcpdumpEnds, TailEnds, mgr
      <3> QED
        BY <1>2, <3>1, DieKeeps DEF Inv, Tabled
    <2> QED
      BY <1>2, <2>1, <2>2, <2>3, <2>4 DEF Next
  <1> QED
    BY <1>1, <1>2, PTL DEF Spec

(***************************************************************************)
(* The process table.                                                      *)
(***************************************************************************)
Waits == {"loop", "spin"}

Listeners == {l \in Pids : kind[l] = "listener"}
Capturers == {l \in Listeners : at[l] # "open"}
Scanners  == {l \in Listeners : at[l] \notin {"open", "scan"}}
Readers   == {l \in Listeners : at[l] \in Waits}
Over      == {m \in Runs : manager[m] = "over"}

Upto(n) == \A p \in Pids : kind[p] # "none" <=> p <= n

(* Processes are numbered one after the other: pid 1, for each run at most *)
(* one listener, and for each listener at most a tcpdump, a shell, a tail. *)
Numbered ==
  /\ Cardinality(Listeners) <= Cardinality(Over)
  /\ \E n \in Nat \ {0} :
       /\ Upto(n)
       /\ n <= 1 + Cardinality(Over) + Cardinality(Capturers) + Cardinality(Scanners)
                 + Cardinality(Readers)

(* Number p is the next one. *)
Unused(p) == /\ p \in Pids /\ p # Root /\ kind[p] = "none"
           /\ \A q \in Pids : kind[q] # "none" <=> q < p

LEMMA Smaller ==
  ASSUME NEW B, IsFiniteSet(B), NEW A \in SUBSET B
  PROVE  /\ IsFiniteSet(A) /\ Cardinality(A) \in Nat /\ Cardinality(B) \in Nat
         /\ Cardinality(A) <= Cardinality(B)
         /\ A # B => Cardinality(A) + 1 <= Cardinality(B)
  <1>1. /\ IsFiniteSet(A) /\ Cardinality(A) <= Cardinality(B)
        /\ Cardinality(B) = Cardinality(A) => B = A
    BY FS_Subset
  <1>2. Cardinality(A) \in Nat /\ Cardinality(B) \in Nat
    BY <1>1, FS_CardinalityType
  <1> QED
    BY <1>1, <1>2

LEMMA RunsFinite == IsFiniteSet(Runs) /\ Cardinality(Runs) = MaxRuns
  <1>1. MaxRuns \in Nat
    BY RunsAssumption
  <1>2. /\ IsFiniteSet(1..MaxRuns)
        /\ Cardinality(1..MaxRuns) = IF 1 > MaxRuns THEN 0 ELSE MaxRuns - 1 + 1
    BY <1>1, FS_Interval
  <1> QED
    BY <1>1, <1>2 DEF Runs

LEMMA PidsFinite == IsFiniteSet(Pids)
  BY RunsAssumption, FS_Interval DEF Pids

(* How many processes there can be. *)
LEMMA Sizes ==
  /\ Cardinality(Over) \in Nat /\ Cardinality(Over) <= MaxRuns
  /\ \A m \in Runs : manager[m] # "over" => Cardinality(Over) + 1 <= MaxRuns
  /\ IsFiniteSet(Listeners) /\ Cardinality(Listeners) \in Nat
  /\ \A S \in SUBSET Listeners :
       /\ IsFiniteSet(S) /\ Cardinality(S) \in Nat /\ Cardinality(S) <= Cardinality(Listeners)
       /\ S # Listeners => Cardinality(S) + 1 <= Cardinality(Listeners)
  <1>1. Over \in SUBSET Runs /\ \A m \in Runs : manager[m] # "over" => Over # Runs
    BY DEF Over
  <1>2. Listeners \in SUBSET Pids
    BY DEF Listeners
  <1>3. IsFiniteSet(Listeners) /\ Cardinality(Listeners) \in Nat
    BY <1>2, PidsFinite, Smaller
  <1>4. \A S \in SUBSET Listeners :
          /\ IsFiniteSet(S) /\ Cardinality(S) \in Nat /\ Cardinality(S) <= Cardinality(Listeners)
          /\ S # Listeners => Cardinality(S) + 1 <= Cardinality(Listeners)
    BY <1>3, Smaller
  <1>5. /\ Cardinality(Over) \in Nat /\ Cardinality(Over) <= MaxRuns
        /\ Over # Runs => Cardinality(Over) + 1 <= MaxRuns
    BY <1>1, RunsFinite, Smaller
  <1> QED
    BY <1>1, <1>3, <1>4, <1>5

(* A process that is about to be started gets the next number. *)
LEMMA NextNumber ==
  ASSUME Numbered,
         \/ \E m \in Runs : manager[m] = "spawn"
         \/ \E l \in Listeners : at[l] \in {"open", "scan", "tail"}
  PROVE  Unused(NewPid)
  <1>1. PICK n \in Nat \ {0} : Upto(n) /\ n <= 1 + Cardinality(Over) + Cardinality(Capturers)
                                               + Cardinality(Scanners) + Cardinality(Readers)
    BY DEF Numbered
  <1> DEFINE o == Cardinality(Over)
             k == Cardinality(Listeners)
             c == Cardinality(Capturers)
             s == Cardinality(Scanners)
             r == Cardinality(Readers)
  <1>2. /\ Capturers \in SUBSET Listeners /\ Scanners \in SUBSET Listeners
        /\ Readers \in SUBSET Listeners
    BY DEF Capturers, Scanners, Readers
  <1>3. /\ o \in Nat /\ k \in Nat /\ c \in Nat /\ s \in Nat /\ r \in Nat /\ MaxRuns \in Nat
        /\ o <= MaxRuns /\ k <= o /\ c <= k /\ s <= k /\ r <= k
    BY <1>2, Sizes, RunsAssumption DEF Numbered
  <1>4. o + 1 <= MaxRuns \/ c + 1 <= k \/ s + 1 <= k \/ r + 1 <= k
    <2>1. CASE \E m \in Runs : manager[m] = "spawn"
      BY <2>1, Sizes
    <2>2. ASSUME NEW l \in Listeners, at[l] \in {"open", "scan", "tail"}
          PROVE  c + 1 <= k \/ s + 1 <= k \/ r + 1 <= k
      <3>1. Capturers # Listeners \/ Scanners # Listeners \/ Readers # Listeners
        BY <2>2 DEF Capturers, Scanners, Readers, Waits
      <3> QED
        BY <3>1, <1>2, Sizes
    <2> QED
      BY <2>1, <2>2
  <1>5. n <= 4 * MaxRuns
    <2>1. n <= 1 + o + c + s + r
      BY <1>1
    <2> HIDE DEF o, k, c, s, r
    <2> QED
      BY <2>1, <1>1, <1>3, <1>4
  <1>6. n + 1 \in Pids /\ n + 1 # Root /\ \A q \in Pids : kind[q] # "none" <=> q < n + 1
    BY <1>1, <1>5, RunsAssumption DEF Upto, Pids, Root
  <1>7. kind[n + 1] = "none"
    BY <1>6 DEF Pids
  <1>8. NewPid = n + 1
    <2> DEFINE Free == {p \in Pids : kind[p] = "none"}
    <2>1. n + 1 \in Free /\ \A q \in Free : n + 1 <= q
      BY <1>6, <1>7, <1>1 DEF Pids
    <2>2. Free \subseteq Nat
      BY RunsAssumption DEF Pids
    <2>3. \A x \in Free : (\A y \in Free : x <= y) => x = n + 1
      BY <2>1, <2>2
    <2>4. NewPid = CHOOSE x \in Free : \A y \in Free : x <= y
      BY DEF NewPid, Min
    <2> HIDE DEF Free
    <2> QED
      BY <2>1, <2>3, <2>4
  <1> QED
    BY <1>6, <1>7, <1>8 DEF Unused

More == /\ Over \subseteq Over' /\ Capturers \subseteq Capturers'
        /\ Scanners \subseteq Scanners' /\ Readers \subseteq Readers'

LEMMA MoreCounted ==
  ASSUME More
  PROVE  /\ Cardinality(Over) \in Nat /\ Cardinality(Over') \in Nat
         /\ Cardinality(Over) <= Cardinality(Over')
         /\ Over # Over' => Cardinality(Over) + 1 <= Cardinality(Over')
         /\ Cardinality(Capturers) \in Nat /\ Cardinality(Capturers') \in Nat
         /\ Cardinality(Capturers) <= Cardinality(Capturers')
         /\ Capturers # Capturers' => Cardinality(Capturers) + 1 <= Cardinality(Capturers')
         /\ Cardinality(Scanners) \in Nat /\ Cardinality(Scanners') \in Nat
         /\ Cardinality(Scanners) <= Cardinality(Scanners')
         /\ Scanners # Scanners' => Cardinality(Scanners) + 1 <= Cardinality(Scanners')
         /\ Cardinality(Readers) \in Nat /\ Cardinality(Readers') \in Nat
         /\ Cardinality(Readers) <= Cardinality(Readers')
         /\ Readers # Readers' => Cardinality(Readers) + 1 <= Cardinality(Readers')
  <1>1. /\ Over' \in SUBSET Runs /\ Capturers' \in SUBSET Pids
        /\ Scanners' \in SUBSET Pids /\ Readers' \in SUBSET Pids
    BY DEF Over, Capturers, Scanners, Readers, Listeners
  <1>2. /\ IsFiniteSet(Over') /\ IsFiniteSet(Capturers')
        /\ IsFiniteSet(Scanners') /\ IsFiniteSet(Readers')
    BY <1>1, Smaller, RunsFinite, PidsFinite
  <1> QED
    BY <1>2, Smaller DEF More

LEMMA NumbersKept ==
  ASSUME Numbered, More, kind' = kind
  PROVE  Numbered'
  <1>1. PICK n \in Nat \ {0} : Upto(n) /\ n <= 1 + Cardinality(Over) + Cardinality(Capturers)
                                               + Cardinality(Scanners) + Cardinality(Readers)
    BY DEF Numbered
  <1>2. Upto(n)'
    BY <1>1 DEF Upto
  <1>3. n <= 1 + Cardinality(Over') + Cardinality(Capturers') + Cardinality(Scanners')
               + Cardinality(Readers')
    BY <1>1, MoreCounted
  <1>4. Listeners' = Listeners
    BY DEF Listeners
  <1>5. Cardinality(Listeners') <= Cardinality(Over')
    BY <1>4, MoreCounted, Sizes DEF Numbered
  <1> QED
    BY <1>2, <1>3, <1>5 DEF Numbered

LEMMA NumbersGrow ==
  ASSUME Numbered, More, NEW p, Unused(p), NEW k, k # "none", kind' = [kind EXCEPT ![p] = k],
         \/ Over' # Over
         \/ /\ k # "listener"
            /\ Capturers' # Capturers \/ Scanners' # Scanners \/ Readers' # Readers,
         TypeOK
  PROVE  Numbered'
  <1>1. PICK n \in Nat \ {0} : Upto(n) /\ n <= 1 + Cardinality(Over) + Cardinality(Capturers)
                                               + Cardinality(Scanners) + Cardinality(Readers)
    BY DEF Numbered
  <1>2. p = n + 1
    BY <1>1, RunsAssumption DEF Upto, Unused, Pids
  <1>3. Upto(n + 1)'
    <2> SUFFICES ASSUME NEW q \in Pids PROVE kind'[q] # "none" <=> q <= n + 1
      BY DEF Upto
    <2>1. q \in Nat /\ (kind[q] # "none" <=> q <= n)
      BY <1>1, RunsAssumption DEF Upto, Pids
    <2>2. kind'[q] = IF q = p THEN k ELSE kind[q]
      BY DEF TypeOK
    <2> QED
      BY <2>1, <2>2, <1>2
  <1>4. n + 1 <= 1 + Cardinality(Over') + Cardinality(Capturers') + Cardinality(Scanners')
                   + Cardinality(Readers')
    BY <1>1, MoreCounted
  <1>5. Cardinality(Listeners') <= Cardinality(Over')
    <2>1. CASE k = "listener"
      <3>1. Listeners' \subseteq Listeners \cup {p}
        BY DEF Listeners, TypeOK
      <3>2. /\ IsFiniteSet(Listeners \cup {p}) /\ Cardinality(Listeners) \in Nat
            /\ Cardinality(Listeners \cup {p}) <= Cardinality(Listeners) + 1
        BY Sizes, FS_AddElement
      <3>3. /\ Cardinality(Listeners') <= Cardinality(Listeners \cup {p})
            /\ Cardinality(Listeners') \in Nat /\ Cardinality(Listeners \cup {p}) \in Nat
        BY <3>1, <3>2, Smaller
      <3>4. Cardinality(Over) + 1 <= Cardinality(Over')
        BY <2>1, MoreCounted
      <3>5. Cardinality(Listeners) <= Cardinality(Over)
        BY DEF Numbered
      <3> HIDE DEF Listeners
      <3> QED
        BY <3>2, <3>3, <3>4, <3>5, MoreCounted
    <2>2. CASE k # "listener"
      <3>1. Listeners' = Listeners
        BY <2>2 DEF Listeners, TypeOK, Unused
      <3> QED
        BY <3>1, MoreCounted, Sizes DEF Numbered
    <2> QED
      BY <2>1, <2>2
  <1> QED
    BY <1>1, <1>3, <1>4, <1>5 DEF Numbered

-----------------------------------------------------------------------------
(***************************************************************************)
(* Who is whose parent, and what a listener knows of its children.         *)
(***************************************************************************)
Before == {"scan", "ps", "read", "killtail", "killparent", "await", "tail"}
Later  == {"read", "killtail", "killparent", "await", "tail"}
Opened(l) == at[l] \in Before \cup Waits

Unborn == /\ \A p \in Pids : kind[p] = "none" =>
                /\ parent[p] = NoPid /\ life[p] = "no" /\ writes[p] = NoPid
                /\ p \notin signalled
          /\ \A p \in Pids : at[p] # "none" <=> kind[p] = "listener"
RootRuns == /\ kind[Root] = "init" /\ parent[Root] = NoPid /\ life[Root] = "runs"
            /\ \A p \in Pids : kind[p] = "init" => p = Root
Parents == \A p \in Pids :
  /\ kind[p] = "listener" => parent[p] = Root
  /\ kind[p] \in {"tcpdump", "shell", "tail"} =>
       parent[p] \in Pids /\ kind[parent[p]] \in {"init", "listener"}
  /\ kind[p] = "tail" /\ parent[p] # Root =>
       at[parent[p]] \in Waits /\ tail[parent[p]] = p
Dumps == \A l \in Pids : Opened(l) =>
  /\ dump[l] \in Pids /\ kind[dump[l]] = "tcpdump"
  /\ \A m \in Pids : Opened(m) /\ dump[m] = dump[l] => m = l
Tails == \A l \in Pids : at[l] \in Waits =>
  /\ tail[l] \in Pids /\ kind[tail[l]] = "tail"
  /\ life[l] = "runs" => parent[tail[l]] = l

Kin == Unborn /\ RootRuns /\ Parents /\ Dumps /\ Tails

(* A step that starts no process, ends those in S, and signals tcpdumps,   *)
(* if any.                                                                 *)
Ends(S) ==
  /\ \A p \in signalled' : p \in signalled \/ kind[p] = "tcpdump"
  /\ S \subseteq Pids \ {Root} /\ kind' = kind /\ dump' = dump /\ tail' = tail
  /\ parent' = [p \in Pids |-> IF parent[p] \in S THEN Root ELSE parent[p]]
  /\ \A p \in Pids :
       /\ life'[p] = "runs" => life[p] = "runs" /\ p \notin S
       /\ life[p] = "no" => life'[p] = "no"
       /\ life[p] = "runs" /\ p \notin S =>
            life'[p] = "runs" \/ (kind[p] = "shell" /\ at[parent[p]] = "read")
       /\ kind[p] # "tcpdump" => writes'[p] = writes[p]
       /\ \/ at'[p] = at[p]
          \/ at[p] \in Before /\ at'[p] \in Later
          \/ at[p] = "loop" /\ at'[p] = "spin"

LEMMA EndsKeeps == ASSUME TypeOK, Kin, NEW S, Ends(S) PROVE Kin'
  <1>1. /\ S \subseteq Pids \ {Root} /\ NoPid \notin Pids /\ Root \in Pids /\ NoPid # Root
        /\ kind' = kind /\ dump' = dump /\ tail' = tail
        /\ \A p \in Pids : parent'[p] = IF parent[p] \in S THEN Root ELSE parent[p]
    BY RunsAssumption DEF Ends, Pids, NoPid, Root
  <1>2. \A p \in Pids : (at'[p] = "none") <=> (at[p] = "none")
    BY DEF Ends, Before, Later
  <1>3. \A p \in Pids : (at'[p] \in Waits) <=> (at[p] \in Waits)
    BY DEF Ends, Before, Later, Waits
  <1>4. \A p \in Pids : Opened(p)' <=> Opened(p)
    BY DEF Ends, Before, Later, Waits, Opened
  <1>5. \A p \in Pids :
          /\ life'[p] = "runs" => life[p] = "runs" /\ p \notin S
          /\ life[p] = "no" => life'[p] = "no"
          /\ life[p] = "runs" /\ p \notin S /\ kind[p] # "shell" => life'[p] = "runs"
          /\ kind[p] # "tcpdump" => writes'[p] = writes[p]
    BY DEF Ends
  <1>6. Unborn'
    <2>1. \A p \in Pids : kind[p] = "none" => p \notin signalled'
      BY DEF Kin, Unborn, Ends
    <2> QED
      BY <1>1, <1>2, <1>5, <2>1 DEF Kin, Unborn
  <1>7. RootRuns'
    BY <1>1, <1>5 DEF Kin, RootRuns
  <1>8. Parents'
    BY <1>1, <1>3 DEF Kin, Parents, RootRuns
  <1>9. Dumps'
    BY <1>1, <1>4 DEF Kin, Dumps
  <1>10. Tails'
    BY <1>1, <1>3, <1>5 DEF Kin, Tails
  <1> QED
    BY <1>6, <1>7, <1>8, <1>9, <1>10 DEF Kin

LEMMA SpawnKin ==
  ASSUME TypeOK, Kin, NEW p, Unused(p), Fork(p, "listener", Root), at' = [at EXCEPT ![p] = "open"],
         UNCHANGED <<locals, writes>>
  PROVE  Kin'
  <1> USE DEF Fork, Before, Waits, Opened, Unused, locals
  <1>1. Unborn'
    BY DEF Kin, Unborn, RootRuns, TypeOK
  <1>2. RootRuns'
    BY DEF Kin, RootRuns, TypeOK
  <1>3. Parents'
    BY DEF Kin, Parents, RootRuns, Unborn, TypeOK
  <1>4. Dumps'
    BY DEF Kin, Dumps, Unborn, TypeOK
  <1>5. Tails'
    BY DEF Kin, Tails, Unborn, TypeOK
  <1> QED
    BY <1>1, <1>2, <1>3, <1>4, <1>5 DEF Kin

LEMMA OpenKin ==
  ASSUME TypeOK, Kin, NEW l \in Pids, OpenPcapProcess(l), Unused(NewPid)
  PROVE  Kin'
  <1> DEFINE p == NewPid
  <1>0. /\ Unused(p) /\ Fork(p, "tcpdump", l) /\ dump' = [dump EXCEPT ![l] = p]
        /\ at' = [at EXCEPT ![l] = "scan"] /\ at[l] = "open" /\ kind[l] = "listener"
        /\ life[l] = "runs" /\ tail' = tail /\ writes' = writes
    BY DEF OpenPcapProcess, Goto, Active, files
  <1> HIDE DEF p
  <1> USE <1>0 DEF Fork, Before, Waits, Opened, Unused
  <1>1. Unborn'
    BY DEF Kin, Unborn, RootRuns, TypeOK
  <1>2. RootRuns'
    BY DEF Kin, RootRuns, TypeOK
  <1>3. Parents'
    BY DEF Kin, Parents, RootRuns, Unborn, TypeOK
  <1>4. Dumps'
    BY DEF Kin, Dumps, Unborn, TypeOK
  <1>5. Tails'
    BY DEF Kin, Tails, Unborn, TypeOK
  <1> QED
    BY <1>1, <1>2, <1>3, <1>4, <1>5 DEF Kin

LEMMA PsKin ==
  ASSUME TypeOK, Kin, NEW l \in Pids, StartPs(l), Unused(NewPid)
  PROVE  Kin'
  <1> DEFINE p == NewPid
  <1>0. /\ Unused(p) /\ Fork(p, "shell", l) /\ dump' = dump
        /\ at' = [at EXCEPT ![l] = "ps"] /\ at[l] = "scan" /\ kind[l] = "listener"
        /\ life[l] = "runs" /\ tail' = tail /\ writes' = writes
    BY DEF StartPs, Goto, Active, files, locals
  <1> HIDE DEF p
  <1> USE <1>0 DEF Fork, Before, Waits, Opened, Unused
  <1>1. Unborn'
    BY DEF Kin, Unborn, RootRuns, TypeOK
  <1>2. RootRuns'
    BY DEF Kin, RootRuns, TypeOK
  <1>3. Parents'
    BY DEF Kin, Parents, RootRuns, Unborn, TypeOK
  <1>4. Dumps'
    BY DEF Kin, Dumps, Unborn, TypeOK
  <1>5. Tails'
    BY DEF Kin, Tails, Unborn, TypeOK
  <1> QED
    BY <1>1, <1>2, <1>3, <1>4, <1>5 DEF Kin

LEMMA TailKin ==
  ASSUME TypeOK, Kin, NEW l \in Pids, StartTail(l), Unused(NewPid)
  PROVE  Kin'
  <1> DEFINE p == NewPid
  <1>0. /\ Unused(p) /\ Fork(p, "tail", l) /\ tail' = [tail EXCEPT ![l] = p]
        /\ at' = [at EXCEPT ![l] = "loop"] /\ at[l] = "tail" /\ kind[l] = "listener"
        /\ life[l] = "runs" /\ dump' = dump /\ writes' = writes
    BY DEF StartTail, Goto, Active
  <1> HIDE DEF p
  <1> USE <1>0 DEF Fork, Before, Waits, Opened, Unused
  <1>1. Unborn'
    BY DEF Kin, Unborn, RootRuns, TypeOK
  <1>2. RootRuns'
    BY DEF Kin, RootRuns, TypeOK
  <1>3. Parents'
    BY DEF Kin, Parents, RootRuns, Unborn, TypeOK
  <1>4. Dumps'
    BY DEF Kin, Dumps, Unborn, TypeOK
  <1>5. Tails'
    BY DEF Kin, Tails, Unborn, TypeOK
  <1> QED
    BY <1>1, <1>2, <1>3, <1>4, <1>5 DEF Kin

-----------------------------------------------------------------------------
(* The steps that end processes, or none. *)
LEMMA DieEnds ==
  ASSUME TypeOK, NEW S \in SUBSET (Pids \ {Root}), Die(S), UNCHANGED <<dump, tail, writes>>,
         \/ at' = at
         \/ \E l \in Pids, step \in Later : at[l] \in Before /\ at' = [at EXCEPT ![l] = step]
  PROVE  Ends(S)
  <1>1. /\ kind' = kind /\ dump' = dump /\ tail' = tail /\ signalled' = signalled
        /\ parent' = [p \in Pids |-> IF parent[p] \in S THEN Root ELSE parent[p]]
    BY DEF Die
  <1>2. \A p \in Pids :
          /\ life'[p] = "runs" => life[p] = "runs" /\ p \notin S
          /\ life[p] = "no" => life'[p] = "no"
          /\ life[p] = "runs" /\ p \notin S => life'[p] = "runs"
          /\ kind[p] # "tcpdump" => writes'[p] = writes[p]
    BY DEF Die
  <1>3. \A p \in Pids : at'[p] = at[p] \/ (at[p] \in Before /\ at'[p] \in Later)
    BY DEF TypeOK
  <1> QED
    BY <1>1, <1>2, <1>3 DEF Ends

LEMMA StayEnds ==
  ASSUME TypeOK, UNCHANGED <<kind, parent, dump, tail>>,
         \A p \in signalled' : p \in signalled \/ kind[p] = "tcpdump",
         \/ life' = life
         \/ \E l : life' = [p \in Pids |->
                     IF kind[p] = "shell" /\ parent[p] = l THEN "no" ELSE life[p]]
                  /\ at[l] = "read",
         \A p \in Pids : kind[p] # "tcpdump" => writes'[p] = writes[p],
         \/ at' = at
         \/ \E l \in Pids, step \in Later : at[l] \in Before /\ at' = [at EXCEPT ![l] = step]
         \/ \E l \in Pids : at[l] = "loop" /\ at' = [at EXCEPT ![l] = "spin"]
  PROVE  Ends({})
  <1>1. parent' = [p \in Pids |-> IF parent[p] \in {} THEN Root ELSE parent[p]]
    BY DEF TypeOK
  <1>2. \A p \in Pids :
          /\ life'[p] = "runs" => life[p] = "runs"
          /\ life[p] = "no" => life'[p] = "no"
          /\ life[p] = "runs" =>
               life'[p] = "runs" \/ (kind[p] = "shell" /\ at[parent[p]] = "read")
    OBVIOUS
  <1>3. \A p \in Pids : \/ at'[p] = at[p]
                        \/ at[p] \in Before /\ at'[p] \in Later
                        \/ at[p] = "loop" /\ at'[p] = "spin"
    BY DEF TypeOK
  <1> QED
    BY <1>1, <1>2, <1>3 DEF Ends

LEMMA CleanEnds == ASSUME TypeOK, NEW m \in Runs, Clean(m) PROVE Ends({})
  <1>1. \A p \in signalled' : p \in signalled \/ kind[p] = "tcpdump"
    BY DEF Clean, Pkilled, Running
  <1> QED
    BY <1>1, StayEnds DEF Clean, locals, files

LEMMA KillEnds ==
  ASSUME TypeOK, Kin, NEW l \in Pids, NEW p \in Pids, NEW step \in Later, KillPid(l, p, step),
         at[l] \in Before, kind[l] = "listener", UNCHANGED <<dump, tail, writes>>
  PROVE  \/ /\ life[p] = "no" /\ Ends({l}) /\ at' = at /\ up' = up
            /\ errors' = errors \cup {"ProcessLookupError"}
         \/ /\ life[p] # "no" /\ Ends({p} \ {Root}) /\ at' = [at EXCEPT ![l] = step]
            /\ up' = (p # Root) /\ errors' = errors
  <1>1. {l} \in SUBSET (Pids \ {Root}) /\ ({p} \ {Root}) \in SUBSET (Pids \ {Root})
    BY DEF Kin, RootRuns
  <1>2. CASE life[p] = "no" /\ Crash(l, "ProcessLookupError")
    BY <1>1, <1>2, DieEnds DEF Crash
  <1>3. CASE /\ life[p] # "no" /\ Die({p} \ {Root}) /\ up' = (p # Root)
             /\ Goto(l, step) /\ UNCHANGED errors
    BY <1>1, <1>3, DieEnds DEF Goto
  <1> QED
    BY <1>2, <1>3 DEF KillPid

(* A listener that ends, or signals its tcpdump in kill_listener.          *)
LEMMA LoopEnds ==
  ASSUME TypeOK, Kin, NEW l \in Pids, RunEnded(l) \/ StrayAlarm(l) \/ KillListener(l) \/ ReadLine(l)
  PROVE  \/ (RunEnded(l) \/ StrayAlarm(l)) /\ Ends({l})
         \/ KillListener(l) /\ Ends({})
         \/ /\ ReadLine(l)
            /\ \/ Ends({}) /\ UNCHANGED <<procs, errors>>
               \/ Ends({l}) /\ errors' = errors \cup {"FileExistsError"}
  <1>1. l # Root /\ kind[l] = "listener" /\ at[l] \in Waits
    BY DEF RunEnded, StrayAlarm, KillListener, ReadLine, Active, Kin, RootRuns, Waits
  <1>2. {l} \in SUBSET (Pids \ {Root})
    BY <1>1
  <1>3. CASE RunEnded(l) \/ StrayAlarm(l)
    BY <1>2, <1>3, DieEnds DEF RunEnded, StrayAlarm, Crash, locals, files
  <1>4. CASE KillListener(l)
    <2>1. kind[dump[l]] = "tcpdump"
      BY <1>1 DEF Kin, Dumps, Opened
    <2>2. \A p \in signalled' : p \in signalled \/ kind[p] = "tcpdump"
      BY <1>4, <2>1 DEF KillListener
    <2> QED
      BY <1>4, <2>2, StayEnds DEF KillListener, locals, files
  <1>5. CASE ReadLine(l)
    <2>1. UNCHANGED <<dump, tail, writes>>
      BY <1>5 DEF ReadLine
    <2>2. CASE Crash(l, "FileExistsError")
      BY <1>2, <1>5, <2>1, <2>2, DieEnds DEF Crash
    <2>3. CASE UNCHANGED <<procs, at, errors>>
      <3>1. Ends({})
        BY <2>1, <2>3, StayEnds DEF procs
      <3> QED
        BY <1>5, <2>3, <3>1
    <2> QED
      BY <1>5, <2>2, <2>3 DEF ReadLine, GetLogFile
  <1> QED
    BY <1>3, <1>4, <1>5

LEMMA QuietEnds ==
  ASSUME TypeOK, Kin, NEW l \in Pids,
         ScanPs(l) \/ ReadPs(l) \/ AwaitTmpLog(l) \/ ReadTimeout(l) \/ CaptureDone(l)
  PROVE  Ends({})
  <1>1. CASE ScanPs(l)
    BY <1>1, StayEnds DEF ScanPs, Active, Goto, procs, files, Before, Later
  <1>2. CASE ReadPs(l)
    <2>1. at[l] \in Before /\ \E step \in Later : at' = [at EXCEPT ![l] = step]
      BY <1>2 DEF ReadPs, Active, Goto, Before, Later
    <2> QED
      BY <1>2, <2>1, StayEnds DEF ReadPs, Active, locals, files
  <1>3. CASE AwaitTmpLog(l)
    BY <1>3, StayEnds DEF AwaitTmpLog, Active, Goto, procs, locals, files, Before, Later
  <1>4. CASE ReadTimeout(l)
    BY <1>4, StayEnds DEF ReadTimeout, procs, files
  <1>5. CASE CaptureDone(l)
    BY <1>5, StayEnds DEF CaptureDone, Active, Goto, procs, locals, files
  <1> QED
    BY <1>1, <1>2, <1>3, <1>4, <1>5

LEMMA TcpdumpStays ==
  ASSUME TypeOK, NEW d \in Pids, TcpdumpOpens(d) \/ TcpdumpWrites(d)
  PROVE  Ends({}) /\ UNCHANGED <<procs, mgr, at, locals>>
  <1>1. UNCHANGED <<procs, mgr, at, locals>>
    BY DEF TcpdumpOpens, TcpdumpWrites
  <1>2. \A p \in Pids : kind[p] # "tcpdump" => writes'[p] = writes[p]
    BY DEF TcpdumpOpens, TcpdumpWrites, Running, TypeOK
  <1> QED
    BY <1>1, <1>2, StayEnds DEF procs, locals

(* A tcpdump that handles its signal, or a tail of no listener.            *)
LEMMA OthersEnd ==
  ASSUME TypeOK, Kin, NEW p \in Pids, TcpdumpEnds(p) \/ TailEnds(p)
  PROVE  /\ Ends({p}) /\ p # Root
         /\ UNCHANGED <<up, signalled, mgr, at, locals, writes, follows, tmp, logdirs, logdir, errors>>
         /\ \/ kind[p] = "tcpdump" /\ p \in signalled
            \/ kind[p] = "tail" /\ parent[p] = Root
  <1>1. /\ Die({p}) /\ p \in Pids \ {Root}
        /\ \/ kind[p] = "tcpdump" /\ p \in signalled
           \/ kind[p] = "tail" /\ parent[p] = Root
    BY DEF TcpdumpEnds, TailEnds, Running, Kin, RootRuns
  <1>2. UNCHANGED <<up, signalled, mgr, at, locals, writes, follows, tmp, logdirs, logdir, errors>>
    BY DEF TcpdumpEnds, TailEnds, Die, files
  <1>3. {p} \in SUBSET (Pids \ {Root})
    BY <1>1
  <1> QED
    BY <1>1, <1>2, <1>3, DieEnds DEF locals

-----------------------------------------------------------------------------
(* What delete_pcap_processes has read.                                    *)
Marked == \A l \in Pids :
  /\ victims[l] # <<>> => /\ kind[victims[l][1]] \in {"tail", "shell"}
                          /\ kind[victims[l][2]] \in {"init", "listener"}
  /\ at[l] \in {"killtail", "killparent"} => victims[l] # <<>>

LEMMA MarkedKept ==
  ASSUME TypeOK, Marked, victims' = victims, \A p \in Pids : kind[p] # "none" => kind'[p] = kind[p],
         \A l \in Pids : at'[l] \in {"killtail", "killparent"} =>
           at[l] \in {"killtail", "killparent"} \/ victims[l] # <<>>
  PROVE  Marked'
  <1>1. ASSUME NEW l \in Pids, victims[l] # <<>>
        PROVE  /\ kind'[victims[l][1]] = kind[victims[l][1]]
               /\ kind'[victims[l][2]] = kind[victims[l][2]]
    <2>1. victims[l] \in Pids \X Pids
      BY <1>1 DEF TypeOK
    <2>2. victims[l][1] \in Pids /\ victims[l][2] \in Pids
      BY <2>1
    <2> QED
      BY <1>1, <2>2 DEF Marked
  <1> QED
    BY <1>1 DEF Marked

(* The first line is that of a process, as there are lines.                *)
LEMMA FirstListed ==
  ASSUME TypeOK, Listed # {}
  PROVE  Min(Listed) \in Listed /\ \A p \in Listed : Min(Listed) <= p
  <1>1. Listed \subseteq Nat
    BY RunsAssumption DEF Listed, Running, Pids
  <1>2. \E x \in Listed : \A y \in Listed : x <= y
    <2>1. IsWellFoundedOn(OpToRel(<, Nat), Nat)
      BY NatLessThanWellFounded
    <2>2. PICK x \in Listed : \A y \in Listed : ~(<<y, x>> \in OpToRel(<, Nat))
      BY <1>1, <2>1, WFMin
    <2>3. \A y \in Listed : ~(y < x)
      BY <1>1, <2>2 DEF OpToRel
    <2> QED
      BY <1>1, <2>3
  <1> QED
    BY <1>2 DEF Min

-----------------------------------------------------------------------------
(***************************************************************************)
(* Every step keeps the types.                                             *)
(***************************************************************************)
LEMMA DieTyped ==
  ASSUME TypeOK, NEW S \in SUBSET (Pids \ {Root}), Die(S)
  PROVE  /\ kind' = kind /\ parent' \in [Pids -> Pids \cup {NoPid}]
         /\ life' \in [Pids -> {"no", "runs", "zombie"}] /\ signalled' \subseteq Pids
  <1>1. Root \in Pids
    BY RunsAssumption DEF Root, Pids
  <1>2. \A p \in Pids : parent[p] \in Pids \cup {NoPid} /\ life[p] \in {"no", "runs", "zombie"}
    BY DEF TypeOK
  <1>3. parent' \in [Pids -> Pids \cup {NoPid}]
    BY <1>1, <1>2 DEF Die
  <1>4. life' \in [Pids -> {"no", "runs", "zombie"}]
    BY <1>2 DEF Die
  <1> QED
    BY <1>3, <1>4 DEF Die, TypeOK

LEMMA ForkTyped ==
  ASSUME TypeOK, NEW p \in Pids, NEW q \in Pids, NEW k \in {"listener", "tcpdump", "tail", "shell"},
         Fork(p, k, q)
  PROVE  /\ kind' \in [Pids -> {"none", "init", "listener", "tcpdump", "tail", "shell"}]
         /\ parent' \in [Pids -> Pids \cup {NoPid}]
         /\ life' \in [Pids -> {"no", "runs", "zombie"}] /\ up' = up /\ signalled' = signalled
  BY DEF Fork, TypeOK

LEMMA FlushTyped ==
  ASSUME TypeOK, NEW D \in SUBSET Pids, Flush(D)
  PROVE  filled' \subseteq Pids /\ unread' \subseteq Pids
  <1>1. {writes[d] : d \in D} \ {NoPid} \subseteq Pids
    BY DEF TypeOK
  <1>2. Running("tail") \subseteq Pids
    BY DEF Running
  <1> QED
    BY <1>1, <1>2 DEF Flush, TypeOK

LEMMA ManagerTyped ==
  ASSUME TypeOK, Kin, Numbered, NEW m \in Runs, ManagerStep(m)
  PROVE  TypeOK'
  <1>1. CASE Clean(m)
    <2>1. signalled' \subseteq Pids
      BY <1>1 DEF Clean, Pkilled, Running, TypeOK
    <2>4. overlap' \in {"no", "now", "past"} /\ overlaps' \in 0..MaxOverlaps
      BY <1>1, RunsAssumption DEF Clean, TypeOK
    <2>5. manager' \in [Runs -> {"none", "logs", "mklogs", "rmtree", "dir", "mkdir", "tmp",
                                 "remove", "spawn", "over"}]
      BY <1>1 DEF Clean, TypeOK
    <2> QED
      BY <1>1, <2>1, <2>4, <2>5 DEF Clean, TypeOK, locals, files
  <1>2. CASE MakeDir(m, "logs", "mklogs", "rmtree") \/ MakeDir(m, "dir", "mkdir", "tmp")
    <2>1. /\ UNCHANGED <<procs, at, locals, writes, follows, unread, tmp, filled, logdir, errors>>
          /\ UNCHANGED <<overlap, overlaps>>
      BY <1>2 DEF MakeDir, Then
    <2>2. logdirs' \in BOOLEAN
      BY <1>2 DEF MakeDir, TypeOK
    <2>3. \E step \in {"mklogs", "rmtree", "mkdir", "tmp", "over"} :
            manager' = [manager EXCEPT ![m] = step]
      BY <1>2 DEF MakeDir, Then
    <2> QED
      BY <2>1, <2>2, <2>3 DEF TypeOK, procs, locals
  <1>3. CASE RemoveLogs(m)
    BY <1>3 DEF RemoveLogs, Then, TypeOK, procs, locals
  <1>4. CASE GetTmpLog(m)
    BY <1>4 DEF GetTmpLog, Then, TypeOK, procs, locals, files
  <1>5. CASE RemoveTmpLog(m)
    BY <1>5 DEF RemoveTmpLog, Then, TypeOK, procs, locals
  <1>6. CASE ConfigurePcap(m)
    <2>1. CASE logdirs
      <3>1. Unused(NewPid)
        BY <1>6, NextNumber DEF ConfigurePcap, Manages
      <3>2. NewPid \in Pids /\ Root \in Pids
        BY <3>1, RunsAssumption DEF Unused, Pids, Root
      <3>3. /\ kind' \in [Pids -> {"none", "init", "listener", "tcpdump", "tail", "shell"}]
            /\ parent' \in [Pids -> Pids \cup {NoPid}]
            /\ life' \in [Pids -> {"no", "runs", "zombie"}] /\ up' = up /\ signalled' = signalled
        BY <1>6, <2>1, <3>2, ForkTyped DEF ConfigurePcap
      <3>4. at' = [at EXCEPT ![NewPid] = "open"] /\ manager' = [manager EXCEPT ![m] = "over"]
            /\ UNCHANGED <<overlap, overlaps, locals, files, errors>>
        BY <1>6, <2>1 DEF ConfigurePcap, Then
      <3> HIDE DEF NewPid
      <3> QED
        BY <3>2, <3>3, <3>4 DEF TypeOK, locals, files
    <2>2. CASE ~logdirs
      BY <1>6, <2>2 DEF ConfigurePcap, Then, TypeOK, procs, locals, files
    <2> QED
      BY <2>1, <2>2
  <1> QED
    BY <1>1, <1>2, <1>3, <1>4, <1>5, <1>6 DEF ManagerStep

LEMMA KillTyped ==
  ASSUME TypeOK, Kin, NEW l \in Pids, NEW p \in Pids, NEW step \in Before, KillPid(l, p, step),
         kind[l] = "listener", UNCHANGED <<mgr, locals, files>>
  PROVE  TypeOK'
  <1>1. {l} \in SUBSET (Pids \ {Root}) /\ ({p} \ {Root}) \in SUBSET (Pids \ {Root})
    BY DEF Kin, RootRuns
  <1>2. \E S \in SUBSET (Pids \ {Root}) : Die(S)
    BY <1>1 DEF KillPid, Crash
  <1>3. /\ kind' = kind /\ parent' \in [Pids -> Pids \cup {NoPid}]
        /\ life' \in [Pids -> {"no", "runs", "zombie"}] /\ signalled' \subseteq Pids
    BY <1>2, DieTyped
  <1>4. up' \in BOOLEAN
    BY DEF KillPid, Crash, TypeOK
  <1>5. errors' \subseteq {"ProcessLookupError", "FileExistsError", "TimeoutError"}
    BY DEF KillPid, Crash, TypeOK
  <1>6. at' = at \/ at' = [at EXCEPT ![l] = step]
    BY DEF KillPid, Crash, Goto
  <1> QED
    BY <1>3, <1>4, <1>5, <1>6 DEF TypeOK, mgr, locals, files, Before

LEMMA LoopTyped ==
  ASSUME TypeOK, Kin, NEW l \in Pids, RunEnded(l) \/ StrayAlarm(l) \/ ReadLine(l)
  PROVE  TypeOK'
  <1>1. l # Root /\ kind[l] = "listener" /\ at[l] \in Waits
    BY DEF RunEnded, StrayAlarm, ReadLine, Active, Kin, RootRuns, Waits
  <1>2. {l} \in SUBSET (Pids \ {Root})
    BY <1>1
  <1>3. (\E S \in SUBSET (Pids \ {Root}) : Die(S)) \/ UNCHANGED <<kind, parent, life, signalled>>
    BY <1>2 DEF RunEnded, StrayAlarm, ReadLine, GetLogFile, Crash, procs
  <1>4. /\ kind' = kind /\ parent' \in [Pids -> Pids \cup {NoPid}]
        /\ life' \in [Pids -> {"no", "runs", "zombie"}] /\ signalled' \subseteq Pids
    BY <1>3, DieTyped DEF TypeOK
  <1>5. /\ UNCHANGED <<up, mgr, at, dump, tail, victims, writes, follows, tmp, logdirs>>
        /\ logdir' \in BOOLEAN
    <2>1. CASE RunEnded(l)
      BY <2>1 DEF RunEnded, locals, files, TypeOK
    <2>2. CASE StrayAlarm(l)
      BY <2>2 DEF StrayAlarm, Crash, locals, files, TypeOK
    <2>3. CASE ReadLine(l)
      BY <2>3 DEF ReadLine, GetLogFile, Crash, procs, TypeOK
    <2> QED
      BY <2>1, <2>2, <2>3
  <1>6. errors' \subseteq {"ProcessLookupError", "FileExistsError", "TimeoutError"}
    <2>1. errors' \in {errors, errors \cup {"FileExistsError"}, errors \cup {"TimeoutError"}}
      BY DEF RunEnded, StrayAlarm, ReadLine, GetLogFile, Crash
    <2> QED
      BY <2>1 DEF TypeOK
  <1>7. started' \in [Pids -> BOOLEAN] /\ alarm' \in [Pids -> BOOLEAN]
    BY DEF RunEnded, StrayAlarm, ReadLine, locals, TypeOK
  <1>8. filled' \subseteq Pids /\ unread' \subseteq Pids
    BY DEF RunEnded, StrayAlarm, ReadLine, files, TypeOK
  <1>9. /\ UNCHANGED <<up, at, dump, tail, victims, writes, follows, tmp, logdirs>>
        /\ UNCHANGED <<manager, overlap, overlaps>>
    BY <1>5 DEF mgr
  <1> QED
    BY <1>4, <1>5, <1>6, <1>7, <1>8, <1>9 DEF TypeOK

LEMMA QuietTyped ==
  ASSUME TypeOK, Kin, NEW l \in Pids,
         ScanPs(l) \/ ReadPs(l) \/ AwaitTmpLog(l) \/ ReadTimeout(l) \/ CaptureDone(l)
           \/ KillListener(l)
  PROVE  TypeOK'
  <1>1. CASE ScanPs(l)
    <2>1. Listed # {} => Victims(Min(Listed)) \in Pids \X Pids
      <3>1. Listed # {} => Min(Listed) \in Pids /\ kind[Min(Listed)] \in {"tail", "shell"}
        BY FirstListed DEF Listed, Running
      <3>2. Listed # {} => parent[Min(Listed)] \in Pids
        BY <3>1 DEF Kin, Parents
      <3> QED
        BY <3>1, <3>2 DEF Victims
    <2>2. victims' \in [Pids -> {<<>>} \cup (Pids \X Pids)]
      BY <1>1, <2>1 DEF ScanPs, TypeOK
    <2>3. UNCHANGED <<procs, mgr, dump, tail, started, alarm, files, errors>>
          /\ at' = [at EXCEPT ![l] = "read"]
      BY <1>1 DEF ScanPs, Goto
    <2> QED
      BY <2>2, <2>3 DEF TypeOK, procs, mgr, files
  <1>2. CASE ReadPs(l)
    <2>1. UNCHANGED <<up, kind, parent, signalled, mgr, locals, files, errors>>
          /\ \E step \in {"await", "killtail"} : at' = [at EXCEPT ![l] = step]
      BY <1>2 DEF ReadPs, Goto
    <2>2. life' \in [Pids -> {"no", "runs", "zombie"}]
      BY <1>2 DEF ReadPs, TypeOK
    <2>3. at' \in [Pids -> {"none", "open", "scan", "ps", "read", "killtail", "killparent",
                            "await", "tail", "loop", "spin"}]
      BY <2>1 DEF TypeOK
    <2> HIDE <1>2
    <2> QED
      BY <2>1, <2>2, <2>3 DEF TypeOK, mgr, locals, files
  <1>3. CASE AwaitTmpLog(l) \/ CaptureDone(l)
    <2>1. UNCHANGED <<procs, mgr, locals, files, errors>>
          /\ \E step \in {"tail", "spin"} : at' = [at EXCEPT ![l] = step]
      BY <1>3 DEF AwaitTmpLog, CaptureDone, Goto
    <2> QED
      BY <2>1 DEF TypeOK, procs, mgr, locals, files
  <1>4. CASE ReadTimeout(l)
    BY <1>4 DEF ReadTimeout, TypeOK, procs, mgr, files
  <1>5. CASE KillListener(l)
    <2>1. dump[l] \in Pids
      BY <1>5 DEF KillListener, Active, Kin, Dumps, Opened, Waits
    <2>2. signalled' \subseteq Pids
      BY <1>5, <2>1 DEF KillListener, TypeOK
    <2> QED
      BY <1>5, <2>2 DEF KillListener, TypeOK, mgr, locals, files
  <1> QED
    BY <1>1, <1>2, <1>3, <1>4, <1>5

LEMMA ForkedTyped ==
  ASSUME TypeOK, Numbered, NEW l \in Pids, OpenPcapProcess(l) \/ StartPs(l) \/ StartTail(l)
  PROVE  TypeOK' /\ Unused(NewPid)
  <1>1. Unused(NewPid)
    <2>1. l \in Listeners /\ at[l] \in {"open", "scan", "tail"}
      BY DEF OpenPcapProcess, StartPs, StartTail, Active, Listeners
    <2> QED
      BY <2>1, NextNumber
  <1>2. NewPid \in Pids
    BY <1>1 DEF Unused
  <1>3. /\ kind' \in [Pids -> {"none", "init", "listener", "tcpdump", "tail", "shell"}]
        /\ parent' \in [Pids -> Pids \cup {NoPid}]
        /\ life' \in [Pids -> {"no", "runs", "zombie"}] /\ up' = up /\ signalled' = signalled
    BY <1>2, ForkTyped DEF OpenPcapProcess, StartPs, StartTail
  <1>4. at' \in [Pids -> {"none", "open", "scan", "ps", "read", "killtail", "killparent",
                          "await", "tail", "loop", "spin"}]
    BY DEF OpenPcapProcess, StartPs, StartTail, Goto, TypeOK
  <1>5. /\ dump' \in [Pids -> Pids \cup {NoPid}] /\ tail' \in [Pids -> Pids \cup {NoPid}]
        /\ follows' \in [Pids -> Pids \cup {NoPid}] /\ unread' \subseteq Pids
    <2>1. CASE OpenPcapProcess(l)
      BY <1>2, <2>1 DEF OpenPcapProcess, files, TypeOK
    <2>2. CASE StartPs(l)
      BY <2>2 DEF StartPs, locals, files, TypeOK
    <2>3. CASE StartTail(l)
      BY <1>2, <2>3 DEF StartTail, TypeOK
    <2> QED
      BY <2>1, <2>2, <2>3
  <1>6. UNCHANGED <<manager, overlap, overlaps, victims, started, alarm, writes, tmp, filled,
                    logdirs, logdir, errors>>
    BY DEF OpenPcapProcess, StartPs, StartTail, mgr, locals, files
  <1> QED
    BY <1>1, <1>3, <1>4, <1>5, <1>6 DEF TypeOK

LEMMA TcpdumpTyped ==
  ASSUME TypeOK, NEW d \in Pids, TcpdumpOpens(d) \/ TcpdumpWrites(d)
  PROVE  TypeOK'
  <1>1. UNCHANGED <<procs, mgr, at, locals, follows, logdirs, logdir, errors>>
    BY DEF TcpdumpOpens, TcpdumpWrites
  <1>2. /\ writes' \in [Pids -> Pids \cup {NoPid}] /\ tmp' \in Pids \cup {NoPid}
        /\ filled' \subseteq Pids /\ unread' \subseteq Pids
    BY DEF TcpdumpOpens, TcpdumpWrites, TypeOK, Running
  <1> QED
    BY <1>1, <1>2 DEF TypeOK, procs, mgr, locals

LEMMA OthersTyped ==
  ASSUME TypeOK, Kin, NEW p \in Pids, TcpdumpEnds(p) \/ TailEnds(p)
  PROVE  TypeOK'
  <1>1. Die({p}) /\ {p} \in SUBSET (Pids \ {Root})
    BY OthersEnd DEF TcpdumpEnds, TailEnds
  <1>2. /\ kind' = kind /\ parent' \in [Pids -> Pids \cup {NoPid}]
        /\ life' \in [Pids -> {"no", "runs", "zombie"}] /\ signalled' \subseteq Pids
    BY <1>1, DieTyped
  <1>3. filled' \subseteq Pids /\ unread' \subseteq Pids
    BY FlushTyped DEF TcpdumpEnds, TailEnds, files, TypeOK
  <1>4. UNCHANGED <<up, mgr, at, locals, writes, follows, tmp, logdirs, logdir, errors>>
    BY OthersEnd
  <1> QED
    BY <1>2, <1>3, <1>4 DEF TypeOK, mgr, locals

-----------------------------------------------------------------------------
(***************************************************************************)
(* And so does it keep the process table.                                  *)
(***************************************************************************)
Table == TypeOK /\ Numbered /\ Kin /\ Marked

LEMMA EndsMore == ASSUME NEW S, Ends(S), Over \subseteq Over' PROVE More
  <1>1. \A p \in Pids : /\ kind'[p] = kind[p]
                        /\ at[p] # "open" => at'[p] # "open"
                        /\ at[p] \notin {"open", "scan"} => at'[p] \notin {"open", "scan"}
                        /\ at[p] \in Waits => at'[p] \in Waits
    BY DEF Ends, Before, Later, Waits
  <1> QED
    BY <1>1 DEF More, Listeners, Capturers, Scanners, Readers

LEMMA TableEnds ==
  ASSUME Table, TypeOK', NEW S, Ends(S), Marked',
         \A m \in Runs : manager[m] = "over" => manager'[m] = "over"
  PROVE  Table'
  <1>1. More
    BY EndsMore DEF Over
  <1>2. Numbered'
    BY <1>1, NumbersKept DEF Table, Ends
  <1> QED
    BY <1>2, EndsKeeps DEF Table

LEMMA TableManager == ASSUME Table, NEW m \in Runs, ManagerStep(m) PROVE Table'
  <1>0. TypeOK'
    BY ManagerTyped DEF Table
  <1>1. CASE Clean(m)
    <2>1. Ends({}) /\ victims' = victims /\ at' = at /\ kind' = kind
      BY <1>1, CleanEnds DEF Clean, Table, locals
    <2>2. \A o \in Runs : manager[o] = "over" => manager'[o] = "over"
      BY <1>1 DEF Clean, Manages, Table, TypeOK
    <2>3. Marked'
      BY <2>1, MarkedKept DEF Table
    <2> QED
      BY <1>0, <2>1, <2>2, <2>3, TableEnds
  <1>2. CASE \/ MakeDir(m, "logs", "mklogs", "rmtree") \/ RemoveLogs(m) \/ GetTmpLog(m)
             \/ MakeDir(m, "dir", "mkdir", "tmp") \/ RemoveTmpLog(m)
             \/ ConfigurePcap(m) /\ ~logdirs
    <2>1. UNCHANGED <<procs, at, locals, writes>>
      BY <1>2 DEF MakeDir, RemoveLogs, GetTmpLog, RemoveTmpLog, ConfigurePcap, files
    <2>2. Ends({})
      BY <2>1, StayEnds DEF Table, procs, locals
    <2>3. \A o \in Runs : manager[o] = "over" => manager'[o] = "over"
      <3>1. manager[m] # "over" /\ \E step : manager' = [manager EXCEPT ![m] = step]
        BY <1>2 DEF MakeDir, RemoveLogs, GetTmpLog, RemoveTmpLog, ConfigurePcap, Then, Manages
      <3> QED
        BY <3>1 DEF Table, TypeOK
    <2>4. Marked'
      BY <2>1, MarkedKept DEF Table, procs, locals
    <2> QED
      BY <1>0, <2>2, <2>3, <2>4, TableEnds
  <1>3. CASE ConfigurePcap(m) /\ logdirs
    <2> DEFINE p == NewPid
    <2>1. Unused(p)
      BY <1>3, NextNumber DEF ConfigurePcap, Manages, Table
    <2>2. /\ Fork(p, "listener", Root) /\ at' = [at EXCEPT ![p] = "open"]
          /\ manager[m] = "spawn" /\ manager' = [manager EXCEPT ![m] = "over"]
          /\ UNCHANGED <<locals, writes>>
      BY <1>3 DEF ConfigurePcap, Manages, Then, files
    <2> HIDE DEF p
    <2>3. Kin'
      BY <2>1, <2>2, SpawnKin DEF Table
    <2>4. Marked'
      BY <2>1, <2>2, MarkedKept DEF Table, locals, Fork, Unused, TypeOK
    <2>5. m \in Over' /\ m \notin Over /\ Over \subseteq Over'
      BY <2>2 DEF Over, Table, TypeOK
    <2>6. kind' = [kind EXCEPT ![p] = "listener"]
      BY <2>2 DEF Fork
    <2>7. /\ Capturers \subseteq Capturers' /\ Scanners \subseteq Scanners'
          /\ Readers \subseteq Readers'
      BY <2>1, <2>2, <2>6 DEF Listeners, Capturers, Scanners, Readers, Table, TypeOK, Unused
    <2>8. Numbered'
      BY <2>1, <2>5, <2>6, <2>7, NumbersGrow DEF More, Table
    <2> QED
      BY <1>0, <2>3, <2>4, <2>8 DEF Table
  <1> QED
    BY <1>1, <1>2, <1>3 DEF ManagerStep

LEMMA TableFork ==
  ASSUME Table, NEW l \in Pids, OpenPcapProcess(l) \/ StartPs(l) \/ StartTail(l)
  PROVE  Table'
  <1> DEFINE p == NewPid
  <1>0. TypeOK' /\ Unused(p)
    BY ForkedTyped DEF Table
  <1>1. Kin'
    BY <1>0, OpenKin, PsKin, TailKin DEF Table
  <1>2. PICK k \in {"tcpdump", "shell", "tail"} : kind' = [kind EXCEPT ![p] = k]
    BY DEF OpenPcapProcess, StartPs, StartTail, Fork
  <1>3. /\ l \in Listeners /\ kind[l] = "listener" /\ victims' = victims /\ Over' = Over
        /\ \/ at[l] = "open" /\ at' = [at EXCEPT ![l] = "scan"]
           \/ at[l] = "scan" /\ at' = [at EXCEPT ![l] = "ps"]
           \/ at[l] = "tail" /\ at' = [at EXCEPT ![l] = "loop"]
    BY DEF OpenPcapProcess, StartPs, StartTail, Active, Goto, Listeners, locals, mgr, Over
  <1> HIDE DEF p
  <1>4. Marked'
    BY <1>0, <1>2, <1>3, MarkedKept DEF Table, Unused, TypeOK
  <1>5. \A q \in Pids : /\ kind[q] = "listener" => kind'[q] = "listener"
                        /\ at'[q] = at[q] \/ q = l
    BY <1>0, <1>2, <1>3 DEF Table, TypeOK, Unused
  <1>6. More
    BY <1>3, <1>5 DEF More, Listeners, Capturers, Scanners, Readers, Table, TypeOK, Waits
  <1>7. Capturers' # Capturers \/ Scanners' # Scanners \/ Readers' # Readers
    <2>1. kind'[l] = "listener" /\ l \in Pids
      BY <1>3, <1>5
    <2>2. CASE at[l] = "open" /\ at' = [at EXCEPT ![l] = "scan"]
      <3>1. l \in Capturers' /\ l \notin Capturers
        BY <2>1, <2>2 DEF Capturers, Listeners, Table, TypeOK
      <3> QED
        BY <3>1
    <2>3. CASE at[l] = "scan" /\ at' = [at EXCEPT ![l] = "ps"]
      <3>1. l \in Scanners' /\ l \notin Scanners
        BY <2>1, <2>3 DEF Scanners, Listeners, Table, TypeOK
      <3> QED
        BY <3>1
    <2>4. CASE at[l] = "tail" /\ at' = [at EXCEPT ![l] = "loop"]
      <3>1. l \in Readers' /\ l \notin Readers
        BY <2>1, <2>4 DEF Readers, Listeners, Table, TypeOK, Waits
      <3> QED
        BY <3>1
    <2> QED
      BY <1>3, <2>2, <2>3, <2>4
  <1>8. Numbered'
    BY <1>0, <1>2, <1>6, <1>7, NumbersGrow DEF Table
  <1> QED
    BY <1>0, <1>1, <1>4, <1>8 DEF Table

LEMMA TableListener == ASSUME Table, NEW l \in Pids, ListenerStep(l) PROVE Table'
  <1>1. CASE OpenPcapProcess(l) \/ StartPs(l) \/ StartTail(l)
    BY <1>1, TableFork
  <1>2. CASE ScanPs(l) \/ ReadPs(l) \/ AwaitTmpLog(l) \/ ReadTimeout(l) \/ CaptureDone(l)
    <2>1. Ends({}) /\ TypeOK'
      BY <1>2, QuietEnds, QuietTyped DEF Table
    <2>2. manager' = manager /\ kind' = kind
      BY <1>2 DEF ScanPs, ReadPs, AwaitTmpLog, ReadTimeout, CaptureDone, mgr, procs
    <2>3. Marked'
      <3>1. CASE ScanPs(l)
        <4>1. /\ victims' \in {[victims EXCEPT ![l] = <<>>],
                               [victims EXCEPT ![l] = Victims(Min(Listed))]}
              /\ victims'[l] # <<>> => Listed # {} /\ victims'[l] = Victims(Min(Listed))
              /\ at[l] = "ps" /\ at' = [at EXCEPT ![l] = "read"]
          BY <3>1 DEF ScanPs, Active, Goto, Table, TypeOK
        <4>2. Listed # {} => Min(Listed) \in Pids /\ kind[Min(Listed)] \in {"tail", "shell"}
          BY FirstListed DEF Listed, Running, Table
        <4>3. Listed # {} => kind[parent[Min(Listed)]] \in {"init", "listener"}
          BY <4>2 DEF Table, Kin, Parents
        <4>4. victims'[l] # <<>> => /\ kind[victims'[l][1]] \in {"tail", "shell"}
                                    /\ kind[victims'[l][2]] \in {"init", "listener"}
          BY <4>1, <4>2, <4>3 DEF Victims
        <4>5. ASSUME NEW k \in Pids, k # l
              PROVE  victims'[k] = victims[k] /\ at'[k] = at[k]
          BY <4>1, <4>5 DEF Table, TypeOK
        <4>6. at'[l] = "read"
          BY <4>1 DEF Table, TypeOK
        <4> QED
          BY <2>2, <4>4, <4>5, <4>6 DEF Marked, Table
      <3>2. CASE ReadPs(l)
        <4>1. /\ victims' = victims
              /\ \E step \in {"await", "killtail"} :
                   at' = [at EXCEPT ![l] = step] /\ (step = "killtail" => victims[l] # <<>>)
          BY <3>2 DEF ReadPs, Goto, locals
        <4>2. \A k \in Pids : at'[k] \in {"killtail", "killparent"} =>
                at[k] \in {"killtail", "killparent"} \/ victims[k] # <<>>
          BY <4>1 DEF Table, TypeOK
        <4> QED
          BY <2>2, <4>1, <4>2, MarkedKept DEF Table
      <3>3. CASE AwaitTmpLog(l) \/ ReadTimeout(l) \/ CaptureDone(l)
        <4>1. /\ victims' = victims
              /\ at' = at \/ \E step \in {"tail", "spin"} : at' = [at EXCEPT ![l] = step]
          BY <3>3 DEF AwaitTmpLog, ReadTimeout, CaptureDone, Goto, locals
        <4>2. \A k \in Pids : at'[k] \in {"killtail", "killparent"} =>
                                at[k] \in {"killtail", "killparent"}
          BY <4>1 DEF Table, TypeOK
        <4> QED
          BY <2>2, <4>1, <4>2, MarkedKept DEF Table
      <3> QED
        BY <1>2, <3>1, <3>2, <3>3
    <2> QED
      BY <2>1, <2>2, <2>3, TableEnds
  <1>3. CASE KillTail(l) \/ KillParent(l)
    <2>1. PICK p \in Pids, step \in {"killparent", "await"} :
            /\ KillPid(l, p, step) /\ (step = "killparent" => at[l] = "killtail")
            /\ at[l] \in {"killtail", "killparent"} /\ kind[l] = "listener"
            /\ UNCHANGED <<mgr, locals, files>>
      <3>1. at[l] \in {"killtail", "killparent"}
        BY <1>3 DEF KillTail, KillParent, Active
      <3>2. victims[l] # <<>> /\ victims[l] \in Pids \X Pids
        BY <3>1 DEF Table, TypeOK, Marked
      <3>3. victims[l][1] \in Pids /\ victims[l][2] \in Pids
        BY <3>2
      <3> QED
        BY <1>3, <3>3 DEF KillTail, KillParent, Active
    <2>2. at[l] \in Before /\ step \in Later /\ step \in Before
      BY <2>1 DEF Before, Later
    <2>3. TypeOK'
      BY <2>1, <2>2, KillTyped DEF Table
    <2>4. \E S : Ends(S)
      BY <2>1, <2>2, KillEnds DEF Table, locals, files
    <2>5. at' = at \/ at' = [at EXCEPT ![l] = step]
      BY <2>1 DEF KillPid, Crash, Goto
    <2>6. \A k \in Pids : at'[k] \in {"killtail", "killparent"} =>
                            at[k] \in {"killtail", "killparent"}
      BY <2>1, <2>5 DEF Table, TypeOK
    <2>7. Marked'
      BY <2>1, <2>4, <2>6, MarkedKept DEF Table, Ends, locals
    <2> QED
      BY <2>1, <2>3, <2>4, <2>7, TableEnds DEF mgr
  <1>4. CASE RunEnded(l) \/ StrayAlarm(l) \/ KillListener(l) \/ ReadLine(l)
    <2>1. (\E S : Ends(S)) /\ TypeOK'
      BY <1>4, LoopEnds, LoopTyped, QuietTyped DEF Table
    <2>2. /\ at' = at
          /\ victims' = victims /\ manager' = manager
      BY <1>4 DEF RunEnded, StrayAlarm, KillListener, ReadLine, GetLogFile, Crash, locals, mgr
    <2>3. Marked'
      BY <2>1, <2>2, MarkedKept DEF Table, Ends
    <2> QED
      BY <2>1, <2>2, <2>3, TableEnds
  <1> QED
    BY <1>1, <1>2, <1>3, <1>4 DEF ListenerStep

LEMMA TableTcpdump ==
  ASSUME Table, NEW d \in Pids, TcpdumpOpens(d) \/ TcpdumpWrites(d)
  PROVE  Table'
  <1>1. Ends({}) /\ UNCHANGED <<procs, mgr, at, locals>> /\ TypeOK'
    BY TcpdumpStays, TcpdumpTyped DEF Table
  <1>2. Marked'
    BY <1>1, MarkedKept DEF Table, procs, locals
  <1> QED
    BY <1>1, <1>2, TableEnds DEF mgr

LEMMA TableOthers ==
  ASSUME Table, NEW p \in Pids, TcpdumpEnds(p) \/ TailEnds(p)
  PROVE  Table'
  <1>1. Ends({p}) /\ UNCHANGED <<mgr, at, locals>> /\ TypeOK'
    BY OthersEnd, OthersTyped DEF Table
  <1>2. Marked'
    BY <1>1, MarkedKept DEF Table, Ends, locals
  <1> QED
    BY <1>1, <1>2, TableEnds DEF mgr

LEMMA TableInit == Init => Table
  <1> SUFFICES ASSUME Init PROVE Table
    OBVIOUS
  <1>1. Root \in Pids /\ NoPid \notin Pids /\ 1 \in Nat \ {0}
    BY RunsAssumption DEF Root, Pids, NoPid
  <1>2. TypeOK
    <2>1. /\ up \in BOOLEAN
          /\ kind \in [Pids -> {"none", "init", "listener", "tcpdump", "tail", "shell"}]
          /\ parent \in [Pids -> Pids \cup {NoPid}] /\ life \in [Pids -> {"no", "runs", "zombie"}]
          /\ signalled \subseteq Pids
      BY DEF Init
    <2>2. /\ manager \in [Runs -> {"none", "logs", "mklogs", "rmtree", "dir", "mkdir", "tmp",
                                   "remove", "spawn", "over"}]
          /\ overlap \in {"no", "now", "past"} /\ overlaps \in 0..MaxOverlaps
      BY RunsAssumption DEF Init
    <2>3. /\ at \in [Pids -> {"none", "open", "scan", "ps", "read", "killtail", "killparent",
                              "await", "tail", "loop", "spin"}]
          /\ dump \in [Pids -> Pids \cup {NoPid}] /\ tail \in [Pids -> Pids \cup {NoPid}]
          /\ victims \in [Pids -> {<<>>} \cup (Pids \X Pids)]
          /\ started \in [Pids -> BOOLEAN] /\ alarm \in [Pids -> BOOLEAN]
      BY DEF Init
    <2>4. /\ writes \in [Pids -> Pids \cup {NoPid}] /\ follows \in [Pids -> Pids \cup {NoPid}]
          /\ unread \subseteq Pids /\ tmp \in Pids \cup {NoPid} /\ filled \subseteq Pids
          /\ logdirs \in BOOLEAN /\ logdir \in BOOLEAN
          /\ errors \subseteq {"ProcessLookupError", "FileExistsError", "TimeoutError"}
      BY DEF Init
    <2> QED
      BY <2>1, <2>2, <2>3, <2>4 DEF TypeOK
  <1>3. Kin
    BY <1>1 DEF Init, Kin, Unborn, RootRuns, Parents, Dumps, Tails, Opened, Before, Waits
  <1>4. Marked
    BY DEF Init, Marked
  <1>5. Upto(1)
    BY <1>1 DEF Init, Upto, Root, Pids
  <1>6. Listeners = {} /\ Over = {} /\ Capturers = {} /\ Scanners = {} /\ Readers = {}
    BY DEF Init, Listeners, Over, Capturers, Scanners, Readers
  <1>7. Numbered
    BY <1>1, <1>5, <1>6, FS_EmptySet DEF Numbered
  <1> QED
    BY <1>2, <1>3, <1>4, <1>7 DEF Table

LEMMA TableAlways == Spec => []Table
  <1>1. ASSUME Table, [Next]_vars PROVE Table'
    <2>1. CASE UNCHANGED vars
      <3>1. Table' = Table
        BY <2>1 DEF vars, procs, mgr, locals, files, Table, TypeOK, Numbered, Kin, Marked, Unborn,
                    RootRuns, Parents, Dumps, Tails, Opened, Upto, Listeners, Capturers, Scanners,
                    Readers, Over
      <3> QED
        BY <1>1, <3>1
    <2> QED
      BY <1>1, <2>1, TableManager, TableListener, TableTcpdump, TableOthers DEF Next
  <1> QED
    BY <1>1, TableInit, PTL DEF Spec

(* The process table and the files only refer to processes.                *)
THEOREM TypeCorrect == Spec => []TypeOK
  BY TableAlways, PTL DEF Table

-----------------------------------------------------------------------------
(***************************************************************************)
(* Which file a tcpdump opens.                                             *)
(***************************************************************************)
Unopened  == {d \in Running("tcpdump") : writes[d] = NoPid}
Following == {"tail", "loop", "spin"}

(* A file is named by the tcpdump that created it, and still writes it.    *)
Named == /\ \A d \in Pids : writes[d] # NoPid => writes[writes[d]] = writes[d]
         /\ tmp # NoPid => writes[tmp] = tmp

(* The tcpdump that is to open its file was not told to end, and until it  *)
(* opens it there is none at the path, from the time at which the manager  *)
(* has looked for it. Only then a listener follows it.                     *)
Fresh ==
  overlap # "now" =>
    /\ Unopened \cap signalled = {}
    /\ tmp # NoPid => Unopened = {} /\ Opening = {} /\ \A m \in Runs : manager[m] # "spawn"
    /\ \A l \in Pids : at[l] \in Following => dump[l] \notin Unopened
    /\ \A d \in Capturing : \A e \in Running("tcpdump") \ {d} :
         writes[d] # NoPid => writes[e] # writes[d]

(* A step that starts no process, and no tcpdump opens a file.             *)
LEMMA FreshEnds ==
  ASSUME Table, Named, Fresh, NEW S, Ends(S), UNCHANGED <<writes, overlap>>, tmp' \in {tmp, NoPid},
         signalled \subseteq signalled',
         overlap # "now" => Unopened \cap signalled' = {},
         \A l \in Pids : at'[l] = "tail" => at[l] = "tail" \/ tmp # NoPid,
         \A m \in Runs : manager'[m] = "spawn" => manager[m] = "spawn" \/ tmp' = NoPid
  PROVE  Named' /\ Fresh'
  <1>1. Named'
    BY DEF Named
  <1>2. \A p \in Pids : /\ kind'[p] = kind[p] /\ dump'[p] = dump[p]
                        /\ life'[p] = "runs" => life[p] = "runs"
                        /\ at'[p] = "open" => at[p] = "open"
                        /\ at'[p] \in Following => at[p] \in Following \/ at'[p] = "tail"
    BY DEF Ends, Before, Later, Following
  <1>3. /\ Running("tcpdump")' \subseteq Running("tcpdump") /\ Opening' \subseteq Opening
        /\ Unopened' \subseteq Unopened /\ Capturing' \subseteq Capturing
    BY <1>2 DEF Running, Opening, Unopened, Capturing
  <1> SUFFICES ASSUME overlap # "now" PROVE Fresh'
    BY <1>1 DEF Fresh
  <1>4. Unopened' \cap signalled' = {}
    BY <1>3
  <1>5. tmp' # NoPid => Unopened' = {} /\ Opening' = {} /\ \A m \in Runs : manager'[m] # "spawn"
    BY <1>3 DEF Fresh
  <1>6. \A l \in Pids : at'[l] \in Following => dump'[l] \notin Unopened'
    BY <1>2, <1>3 DEF Fresh, Following
  <1>7. \A d \in Capturing' : \A e \in Running("tcpdump")' \ {d} :
          writes'[d] # NoPid => writes'[e] # writes'[d]
    BY <1>3 DEF Fresh
  <1> QED
    BY <1>4, <1>5, <1>6, <1>7 DEF Fresh

LEMMA FreshClean ==
  ASSUME Table, Named, Fresh, NEW m \in Runs, Clean(m)
  PROVE  Named' /\ Fresh'
  <1>1. /\ UNCHANGED <<kind, life, at, dump, writes, tmp>> /\ signalled' = signalled \cup Running("tcpdump")
        /\ manager' = [manager EXCEPT ![m] = "logs"]
    BY DEF Clean, locals, files, Pkilled
  <1>2. Named'
    BY <1>1 DEF Named
  <1>3. CASE overlap' = "now"
    BY <1>2, <1>3 DEF Fresh
  <1>4. CASE overlap' # "now"
    <2>1. ~SomeNotOver
      BY <1>4 DEF Clean
    <2>2. Unopened' = {} /\ Opening' = {} /\ Capturing' = {}
      BY <1>1, <2>1 DEF SomeNotOver, Busy, Unopened, Opening, Capturing, Running
    <2>3. \A o \in Runs : manager'[o] # "spawn"
      BY <1>1, <2>1 DEF SomeNotOver, Table, TypeOK
    <2> QED
      BY <1>2, <2>2, <2>3 DEF Fresh
  <1> QED
    BY <1>3, <1>4

LEMMA FreshManager ==
  ASSUME Table, Named, Fresh, NEW m \in Runs, ManagerStep(m)
  PROVE  Named' /\ Fresh'
  <1>1. CASE Clean(m)
    BY <1>1, FreshClean
  <1>2. CASE \/ MakeDir(m, "logs", "mklogs", "rmtree") \/ RemoveLogs(m) \/ GetTmpLog(m)
             \/ MakeDir(m, "dir", "mkdir", "tmp") \/ RemoveTmpLog(m)
             \/ ConfigurePcap(m) /\ ~logdirs
    <2>1. UNCHANGED <<procs, at, locals, writes, overlap>>
      BY <1>2 DEF MakeDir, RemoveLogs, GetTmpLog, RemoveTmpLog, ConfigurePcap, files, Then
    <2>2. Ends({}) /\ UNCHANGED <<signalled, at>>
      BY <2>1, StayEnds DEF Table, procs, locals
    <2>3. tmp' \in {tmp, NoPid}
      BY <1>2 DEF MakeDir, RemoveLogs, GetTmpLog, RemoveTmpLog, ConfigurePcap, files
    <2>4. ASSUME NEW o \in Runs, manager'[o] = "spawn" PROVE manager[o] = "spawn" \/ tmp' = NoPid
      <3>1. CASE GetTmpLog(m)
        BY <2>4, <3>1 DEF GetTmpLog, Then, files, Table, TypeOK
      <3>2. CASE RemoveTmpLog(m)
        BY <3>2 DEF RemoveTmpLog
      <3>3. CASE \/ MakeDir(m, "logs", "mklogs", "rmtree") \/ RemoveLogs(m)
                 \/ MakeDir(m, "dir", "mkdir", "tmp") \/ ConfigurePcap(m)
        <4>1. \E step \in {"mklogs", "rmtree", "dir", "mkdir", "tmp", "over"} :
                manager' = [manager EXCEPT ![m] = step]
          BY <3>3 DEF MakeDir, RemoveLogs, ConfigurePcap, Then
        <4> QED
          BY <2>4, <4>1 DEF Table, TypeOK
      <3> QED
        BY <1>2, <3>1, <3>2, <3>3
    <2>5. UNCHANGED <<writes, overlap>> /\ signalled \subseteq signalled'
      BY <2>1, <2>2
    <2>6. overlap # "now" => Unopened \cap signalled' = {}
      BY <2>2 DEF Fresh
    <2> QED
      BY <2>2, <2>3, <2>4, <2>5, <2>6, FreshEnds
  <1>3. CASE ConfigurePcap(m) /\ logdirs
    <2> DEFINE p == NewPid
    <2>1. Unused(p)
      BY <1>3, NextNumber DEF ConfigurePcap, Manages, Table
    <2>2. /\ Fork(p, "listener", Root) /\ at' = [at EXCEPT ![p] = "open"]
          /\ manager[m] = "spawn" /\ manager' = [manager EXCEPT ![m] = "over"]
          /\ UNCHANGED <<dump, writes, tmp, overlap>>
      BY <1>3 DEF ConfigurePcap, Manages, Then, files, locals
    <2> HIDE DEF p
    <2>3. Named'
      BY <2>2 DEF Named
    <2>4. Running("tcpdump")' = Running("tcpdump") /\ signalled' = signalled
      BY <2>1, <2>2 DEF Running, Fork, Unused, Table, TypeOK
    <2>5. Unopened' = Unopened /\ Capturing' = Capturing
      BY <2>2, <2>4 DEF Unopened, Capturing
    <2>6. \A l \in Pids : at'[l] \in Following => at[l] \in Following
      BY <2>2 DEF Following, Table, TypeOK
    <2> SUFFICES ASSUME overlap # "now" PROVE Fresh'
      BY <2>2, <2>3 DEF Fresh
    <2>7. tmp' = NoPid
      BY <2>2 DEF Fresh
    <2> QED
      BY <2>2, <2>4, <2>5, <2>6, <2>7 DEF Fresh
  <1> QED
    BY <1>1, <1>2, <1>3 DEF ManagerStep

LEMMA FreshFork ==
  ASSUME Table, Named, Fresh, NEW l \in Pids, OpenPcapProcess(l) \/ StartPs(l) \/ StartTail(l)
  PROVE  Named' /\ Fresh'
  <1> DEFINE p == NewPid
  <1>1. /\ Unused(p) /\ kind[l] = "listener" /\ life[l] = "runs"
        /\ UNCHANGED <<manager, overlap, tmp, writes>>
        /\ \E k \in {"tcpdump", "shell", "tail"} : Fork(p, k, l)
        /\ \/ OpenPcapProcess(l) /\ dump' = [dump EXCEPT ![l] = p]
           \/ (StartPs(l) \/ StartTail(l)) /\ dump' = dump /\ ~Fork(p, "tcpdump", l)
    <2>1. Unused(p)
      BY ForkedTyped DEF Table
    <2>2. StartPs(l) \/ StartTail(l) => ~Fork(p, "tcpdump", l)
      <3>1. StartPs(l) => kind'[p] = "shell"
        BY <2>1 DEF StartPs, Fork, Unused, Table, TypeOK
      <3>2. StartTail(l) => kind'[p] = "tail"
        BY <2>1 DEF StartTail, Fork, Unused, Table, TypeOK
      <3>3. Fork(p, "tcpdump", l) => kind'[p] = "tcpdump"
        BY <2>1 DEF Fork, Unused, Table, TypeOK
      <3> QED
        BY <3>1, <3>2, <3>3
    <2> QED
      BY <2>1, <2>2 DEF OpenPcapProcess, StartPs, StartTail, Active, mgr, files, locals
  <1>2. /\ kind[p] = "none" /\ writes[p] = NoPid /\ p # l /\ p \in Pids /\ p \notin signalled
        /\ \A q \in Pids : q # p => kind'[q] = kind[q] /\ life'[q] = life[q]
        /\ signalled' = signalled /\ kind'[p] # "listener"
    BY <1>1 DEF Fork, Unused, Table, TypeOK, Kin, Unborn
  <1>3. /\ at[l] \in {"open", "scan", "tail"}
        /\ at'[l] = IF at[l] = "open" THEN "scan" ELSE IF at[l] = "scan" THEN "ps" ELSE "loop"
        /\ \A k \in Pids : k # l => at'[k] = at[k]
    BY DEF OpenPcapProcess, StartPs, StartTail, Active, Goto, Table, TypeOK
  <1>4. Named'
    BY <1>1 DEF Named
  <1>5. Opening' \subseteq Opening
    BY <1>2, <1>3 DEF Opening, Running
  <1>6. \A k \in Pids : at'[k] \in Following => at[k] \in Following
    BY <1>3 DEF Following
  <1> HIDE DEF p
  <1> SUFFICES ASSUME overlap # "now" PROVE Fresh'
    BY <1>1, <1>4 DEF Fresh
  <1>7. CASE OpenPcapProcess(l) /\ dump' = [dump EXCEPT ![l] = p]
    <2>1. l \in Opening /\ at[l] = "open"
      BY <1>1, <1>7 DEF OpenPcapProcess, Active, Opening, Running
    <2>2. tmp' = NoPid
      BY <1>1, <2>1 DEF Fresh
    <2>3. /\ Running("tcpdump")' \subseteq Running("tcpdump") \cup {p}
          /\ Capturing' \subseteq Capturing \cup {p} /\ Unopened' \subseteq Unopened \cup {p}
      BY <1>1, <1>2 DEF Running, Capturing, Unopened
    <2>4. Unopened' \cap signalled' = {}
      BY <1>2, <2>3 DEF Fresh
    <2>5. ASSUME NEW k \in Pids, at'[k] \in Following PROVE dump'[k] \notin Unopened'
      <3>1. k # l /\ at[k] \in Following
        BY <1>3, <1>6, <2>1, <2>5 DEF Following
      <3>2. dump'[k] = dump[k] /\ dump[k] # p
        BY <1>2, <1>7, <3>1 DEF Following, Table, TypeOK, Kin, Dumps, Opened, Before, Waits
      <3> QED
        BY <2>3, <3>1, <3>2 DEF Fresh
    <2>6. ASSUME NEW d \in Capturing', NEW e \in Running("tcpdump")' \ {d}, writes'[d] # NoPid
          PROVE  writes'[e] # writes'[d]
      BY <1>1, <1>2, <2>3, <2>6 DEF Fresh
    <2> QED
      BY <2>2, <2>4, <2>5, <2>6 DEF Fresh
  <1>8. CASE dump' = dump /\ ~Fork(p, "tcpdump", l)
    <2>1. kind'[p] # "tcpdump"
      BY <1>1, <1>2, <1>8 DEF Fork, Table, TypeOK
    <2>2. Running("tcpdump")' = Running("tcpdump")
      BY <1>2, <2>1 DEF Running
    <2>3. Unopened' = Unopened /\ Capturing' = Capturing
      BY <1>1, <1>2, <2>2 DEF Unopened, Capturing
    <2> QED
      BY <1>1, <1>2, <1>5, <1>6, <1>8, <2>2, <2>3 DEF Fresh
  <1> QED
    BY <1>1, <1>7, <1>8

LEMMA KillSome ==
  ASSUME Table, NEW l \in Pids, KillTail(l) \/ KillParent(l)
  PROVE  \E S : Ends(S)
  <1>1. /\ at[l] \in {"killtail", "killparent"} /\ kind[l] = "listener"
        /\ UNCHANGED <<dump, tail, writes>>
    BY DEF KillTail, KillParent, Active, locals, files
  <1>2. victims[l] # <<>> /\ victims[l] \in Pids \X Pids
    BY <1>1 DEF Table, TypeOK, Marked
  <1>3. victims[l][1] \in Pids /\ victims[l][2] \in Pids
    BY <1>2
  <1>4. \E p \in Pids, step \in Later : KillPid(l, p, step)
    BY <1>3 DEF KillTail, KillParent, Later
  <1>5. at[l] \in Before
    BY <1>1 DEF Before
  <1> QED
    BY <1>1, <1>4, <1>5, KillEnds DEF Table

LEMMA FreshListener ==
  ASSUME Table, Named, Fresh, NEW l \in Pids, ListenerStep(l)
  PROVE  Named' /\ Fresh'
  <1>1. CASE OpenPcapProcess(l) \/ StartPs(l) \/ StartTail(l)
    BY <1>1, FreshFork
  <1>2. CASE ~(OpenPcapProcess(l) \/ StartPs(l) \/ StartTail(l))
    <2>1. \E S : Ends(S)
      <3>1. CASE ScanPs(l) \/ ReadPs(l) \/ AwaitTmpLog(l) \/ ReadTimeout(l) \/ CaptureDone(l)
        BY <3>1, QuietEnds DEF Table
      <3>2. CASE KillTail(l) \/ KillParent(l)
        BY <3>2, KillSome
      <3>3. CASE RunEnded(l) \/ StrayAlarm(l) \/ KillListener(l) \/ ReadLine(l)
        BY <3>3, LoopEnds DEF Table
      <3> QED
        BY <1>2, <3>1, <3>2, <3>3 DEF ListenerStep
    <2>2. UNCHANGED <<manager, overlap, writes, tmp>>
      <3>1. CASE ScanPs(l) \/ ReadPs(l) \/ AwaitTmpLog(l) \/ ReadTimeout(l) \/ CaptureDone(l)
        BY <3>1 DEF ScanPs, ReadPs, AwaitTmpLog, ReadTimeout, CaptureDone, mgr, files
      <3>2. CASE KillTail(l) \/ KillParent(l) \/ RunEnded(l) \/ StrayAlarm(l) \/ KillListener(l)
                 \/ ReadLine(l)
        BY <3>2 DEF KillTail, KillParent, RunEnded, StrayAlarm, KillListener, ReadLine, mgr, files
      <3> QED
        BY <1>2, <3>1, <3>2 DEF ListenerStep
    <2>3. \/ signalled' = signalled
          \/ signalled' = signalled \cup {dump[l]} /\ at[l] = "spin"
      <3>1. CASE ScanPs(l) \/ ReadPs(l) \/ AwaitTmpLog(l) \/ ReadTimeout(l) \/ CaptureDone(l)
        BY <3>1 DEF ScanPs, ReadPs, AwaitTmpLog, ReadTimeout, CaptureDone, procs
      <3>2. CASE KillTail(l) \/ KillParent(l) \/ RunEnded(l) \/ StrayAlarm(l)
        BY <3>2 DEF KillTail, KillParent, KillPid, RunEnded, StrayAlarm, Crash, Die
      <3>3. CASE KillListener(l) \/ ReadLine(l)
        BY <3>3 DEF KillListener, ReadLine, GetLogFile, Crash, Die, procs, Active
      <3> QED
        BY <1>2, <3>1, <3>2, <3>3 DEF ListenerStep
    <2>4. overlap # "now" => Unopened \cap signalled' = {}
      BY <2>3 DEF Fresh, Following
    <2>5. ASSUME NEW k \in Pids, at'[k] = "tail" PROVE at[k] = "tail" \/ tmp # NoPid
      <3>1. CASE AwaitTmpLog(l)
        BY <3>1 DEF AwaitTmpLog
      <3>2. CASE ~AwaitTmpLog(l)
        <4>1. at' = at \/ \E step \in {"read", "await", "killtail", "killparent", "spin"} :
                            at' = [at EXCEPT ![l] = step]
          <5>1. CASE ScanPs(l) \/ ReadPs(l) \/ ReadTimeout(l) \/ CaptureDone(l) \/ KillListener(l)
            BY <5>1 DEF ScanPs, ReadPs, ReadTimeout, CaptureDone, KillListener, Goto
          <5>2. CASE KillTail(l) \/ KillParent(l) \/ RunEnded(l) \/ StrayAlarm(l) \/ ReadLine(l)
            BY <5>2 DEF KillTail, KillParent, KillPid, RunEnded, StrayAlarm, ReadLine, GetLogFile,
                        Crash, Goto
          <5> QED
            BY <1>2, <3>2, <5>1, <5>2 DEF ListenerStep
        <4> QED
          BY <2>5, <4>1 DEF Table, TypeOK
      <3> QED
        BY <3>1, <3>2
    <2>6. tmp' \in {tmp, NoPid} /\ signalled \subseteq signalled'
      BY <2>2, <2>3
    <2> QED
      BY <2>1, <2>2, <2>4, <2>5, <2>6, FreshEnds
  <1> QED
    BY <1>1, <1>2

(* A tcpdump opens its file: as there is none at the path, it creates it.  *)
LEMMA FreshOpens ==
  ASSUME Table, Inv, Named, Fresh, NEW d \in Pids, TcpdumpOpens(d)
  PROVE  Named' /\ Fresh'
  <1>1. /\ d \in Unopened /\ writes' = [writes EXCEPT ![d] = tmp']
        /\ tmp' = (IF tmp = NoPid THEN d ELSE tmp) /\ d # NoPid /\ writes[d] = NoPid
        /\ UNCHANGED <<kind, life, signalled, manager, overlap, at, dump>>
    BY RunsAssumption DEF TcpdumpOpens, Unopened, procs, mgr, locals, Pids, NoPid
  <1>2. tmp' # NoPid /\ tmp' \in Pids /\ tmp \in Pids \cup {NoPid}
    BY <1>1 DEF Table, TypeOK
  <1>3. Named'
    <2>1. writes'[tmp'] = tmp'
      BY <1>1, <1>2 DEF Named, Table, TypeOK
    <2>2. ASSUME NEW e \in Pids, writes'[e] # NoPid PROVE writes'[writes'[e]] = writes'[e]
      <3>1. CASE e = d
        BY <1>1, <2>1, <3>1 DEF Table, TypeOK
      <3>2. CASE e # d
        <4>1. writes'[e] = writes[e] /\ writes[e] \in Pids /\ writes[writes[e]] = writes[e]
          BY <1>1, <2>2, <3>2 DEF Named, Table, TypeOK
        <4> QED
          BY <1>1, <2>2, <4>1 DEF Table, TypeOK
      <3> QED
        BY <3>1, <3>2
    <2> QED
      BY <2>1, <2>2 DEF Named
  <1> SUFFICES ASSUME overlap # "now" PROVE Fresh'
    BY <1>1, <1>3 DEF Fresh
  <1>4. d \notin signalled /\ tmp = NoPid /\ d \in Capturing
    BY <1>1 DEF Fresh, Unopened, Capturing
  <1>5. Handling = {} /\ Opening = {} /\ \A c \in Capturing : c = d
    BY <1>4 DEF Inv, OneRun
  <1>6. /\ Running("tcpdump")' = Running("tcpdump") /\ Opening' = {} /\ Capturing' = Capturing
        /\ Handling' = {}
    BY <1>1, <1>5 DEF Running, Opening, Capturing, Handling
  <1>7. Unopened' = {}
    <2>1. ASSUME NEW e \in Unopened' PROVE FALSE
      <3>1. e # d /\ e \in Unopened
        BY <1>1, <1>2, <1>6, <2>1 DEF Unopened, Table, TypeOK
      <3>2. e \in Capturing
        BY <3>1 DEF Fresh, Capturing, Unopened
      <3> QED
        BY <1>5, <3>1, <3>2
    <2> QED
      BY <2>1
  <1>8. \A m \in Runs : manager'[m] # "spawn"
    BY <1>6 DEF Handling
  <1>9. ASSUME NEW e \in Running("tcpdump") \ {d} PROVE writes'[e] # writes'[d]
    <2>1. e \in Pids /\ writes'[e] = writes[e] /\ writes'[d] = d
      BY <1>1, <1>4, <1>9 DEF Running, Table, TypeOK
    <2>2. writes[e] = d => writes[d] = d
      BY <1>1, <2>1 DEF Named
    <2> QED
      BY <1>1, <2>1, <2>2
  <1> QED
    BY <1>5, <1>6, <1>7, <1>8, <1>9 DEF Fresh

LEMMA FreshTcpdump ==
  ASSUME Table, Inv, Named, Fresh, NEW p \in Pids,
         TcpdumpOpens(p) \/ TcpdumpWrites(p) \/ TcpdumpEnds(p) \/ TailEnds(p)
  PROVE  Named' /\ Fresh'
  <1>1. CASE TcpdumpOpens(p)
    BY <1>1, FreshOpens
  <1>2. CASE TcpdumpWrites(p) \/ TcpdumpEnds(p) \/ TailEnds(p)
    <2>1. /\ \E S : Ends(S)
          /\ UNCHANGED <<signalled, manager, overlap, at, writes, tmp>>
      <3>1. CASE TcpdumpWrites(p)
        BY <3>1, TcpdumpStays DEF Table, TcpdumpWrites, procs, mgr
      <3>2. CASE TcpdumpEnds(p) \/ TailEnds(p)
        BY <3>2, OthersEnd DEF Table, mgr
      <3> QED
        BY <1>2, <3>1, <3>2
    <2>2. overlap # "now" => Unopened \cap signalled' = {}
      BY <2>1 DEF Fresh
    <2> QED
      BY <2>1, <2>2, FreshEnds
  <1> QED
    BY <1>1, <1>2

LEMMA FreshAlways == Spec => [](Named /\ Fresh)
  <1>1. Init => Named /\ Fresh
    BY DEF Init, Named, Fresh, Unopened, Capturing, Running, Following
  <1>2. ASSUME Table, Inv, Named, Fresh, [Next]_vars PROVE Named' /\ Fresh'
    <2>1. CASE UNCHANGED vars
      BY <1>2, <2>1 DEF vars, procs, mgr, locals, files, Named, Fresh, Unopened, Capturing, Running,
                        Opening
    <2> QED
      BY <1>2, <2>1, FreshManager, FreshListener, FreshTcpdump DEF Next
  <1> QED
    BY <1>1, <1>2, TableAlways, InvAlways, PTL DEF Spec

(* While the runs of the manager do not overlap, one tcpdump at most is    *)
(* not told to end, as the manager signals those that are left before      *)
(* the listener of the run starts the next one; and no other one, however  *)
(* late it ends, writes its file.                                          *)
THEOREM SingleCapture == Spec => []OneTcpdump
  <1>1. Inv /\ Fresh => OneTcpdump
    <2> SUFFICES ASSUME Inv, Fresh, overlap # "now", NEW d \in Capturing,
                        NEW e \in Running("tcpdump") \ {d}
                 PROVE  e \in signalled /\ (writes[d] # NoPid => writes[e] # writes[d])
      BY DEF OneTcpdump
    <2>1. e \notin Capturing
      BY DEF Inv, OneRun
    <2> QED
      BY <2>1 DEF Fresh, Capturing
  <1> QED
    BY <1>1, InvAlways, FreshAlways, PTL

-----------------------------------------------------------------------------
(***************************************************************************)
(* What the listener of a run reads, as long as no runs have overlapped.   *)
(***************************************************************************)
Starting == {l \in Running("listener") : at[l] \notin {"none", "loop", "spin"}}

(* Its tcpdump runs and was not told to end, and the file at tmp_log is    *)
(* the one that it opened, if it did; before, there is none.               *)
OwnTmpLog(l) ==
  /\ at[l] = "open" => tmp = NoPid
  /\ at[l] # "open" => /\ life[dump[l]] = "runs" /\ dump[l] \notin signalled
                       /\ tmp = writes[dump[l]] /\ tmp \in {NoPid, dump[l]}
  /\ at[l] = "tail" => tmp # NoPid

ReadsOwn(l) == writes[dump[l]] = dump[l] /\ follows[tail[l]] = dump[l]

Captured ==
  overlap = "no" =>
    /\ \A l, k \in Starting : l = k
    /\ Handling = {} \/ Starting = {}
    /\ \A m \in Runs : manager[m] = "spawn" => tmp = NoPid
    /\ \A l \in Starting : OwnTmpLog(l)
    /\ \A l \in Pids : at[l] \in Waits => ReadsOwn(l)

(* A step that ends or signals processes, but not the tcpdump of such a    *)
(* listener.                                                               *)
LEMMA CapturedEnds ==
  ASSUME Table, Captured, NEW S, Ends(S), UNCHANGED <<tmp, writes, follows, overlap, manager>>,
         overlap = "no" => \A l \in Starting : at[l] # "open" =>
                             dump[l] \notin S /\ (dump[l] \in signalled' => dump[l] \in signalled),
         \A l \in Pids : at'[l] = "tail" => at[l] = "tail" \/ tmp # NoPid
  PROVE  Captured'
  <1> SUFFICES ASSUME overlap = "no" PROVE Captured'
    BY DEF Captured
  <1>1. \A l \in Pids : /\ kind'[l] = kind[l] /\ dump'[l] = dump[l] /\ tail'[l] = tail[l]
                        /\ life'[l] = "runs" => life[l] = "runs"
                        /\ (at'[l] = "open") <=> (at[l] = "open")
                        /\ (at'[l] = "none") <=> (at[l] = "none")
                        /\ (at'[l] \in Waits) <=> (at[l] \in Waits)
                        /\ (at'[l] \in {"loop", "spin"}) <=> (at[l] \in {"loop", "spin"})
    BY DEF Ends, Before, Later, Waits
  <1>2. Starting' \subseteq Starting
    BY <1>1 DEF Starting, Running
  <1>3. ASSUME NEW l \in Starting' PROVE OwnTmpLog(l)'
    <2>1. l \in Starting /\ l \in Pids /\ OwnTmpLog(l)
      BY <1>2, <1>3 DEF Captured, Starting, Running
    <2>2. at[l] # "open" => life'[dump[l]] = "runs" /\ dump[l] \notin signalled'
      <3>1. at[l] # "open" => Opened(l)
        BY <2>1 DEF Starting, Opened, Before, Waits, Table, TypeOK
      <3>2. at[l] # "open" => /\ dump[l] \in Pids /\ kind[dump[l]] = "tcpdump"
                              /\ dump[l] \notin S
                              /\ dump[l] \in signalled' => dump[l] \in signalled
        BY <2>1, <3>1 DEF Table, Kin, Dumps
      <3> QED
        BY <2>1, <3>2 DEF OwnTmpLog, Ends
    <2> QED
      BY <1>1, <2>1, <2>2 DEF OwnTmpLog
  <1>4. Handling' = Handling
    BY DEF Handling
  <1>5. \A l \in Pids : at'[l] \in Waits => ReadsOwn(l)'
    BY <1>1 DEF Captured, ReadsOwn
  <1> QED
    BY <1>2, <1>3, <1>4, <1>5 DEF Captured

LEMMA CapturedClean ==
  ASSUME Table, Inv, Captured, NEW m \in Runs, Clean(m)
  PROVE  Captured'
  <1> SUFFICES ASSUME overlap' = "no" PROVE Captured'
    BY DEF Captured
  <1>1. ~SomeNotOver /\ overlap = "no"
    BY DEF Clean
  <1>2. Starting = {}
    <2> SUFFICES ASSUME NEW l \in Starting PROVE FALSE
      OBVIOUS
    <2>1. at[l] = "await" /\ tmp = NoPid /\ l \in Pids
      BY <1>1 DEF Starting, SomeNotOver, Busy, Running
    <2>2. life[dump[l]] = "runs" /\ writes[dump[l]] = NoPid
      BY <1>1, <2>1 DEF Captured, OwnTmpLog
    <2>3. dump[l] \in Pids /\ kind[dump[l]] = "tcpdump"
      BY <2>1 DEF Table, Kin, Dumps, Opened, Before
    <2> QED
      BY <1>1, <2>2, <2>3 DEF SomeNotOver, Running
  <1>3. /\ Ends({}) /\ at' = at /\ UNCHANGED <<writes, follows, tmp>>
        /\ manager' = [manager EXCEPT ![m] = "logs"]
    BY CleanEnds DEF Clean, Table, files
  <1>4. Starting' = {}
    BY <1>2, <1>3 DEF Starting, Running, Ends
  <1>5. \A o \in Runs : manager'[o] # "spawn"
    BY <1>1, <1>3 DEF SomeNotOver, Table, TypeOK
  <1>6. \A l \in Pids : at'[l] \in Waits => ReadsOwn(l)'
    BY <1>1, <1>3 DEF Captured, ReadsOwn, Ends
  <1> QED
    BY <1>4, <1>5, <1>6 DEF Captured

LEMMA CapturedManager ==
  ASSUME Table, Inv, Captured, NEW m \in Runs, ManagerStep(m)
  PROVE  Captured'
  <1>1. CASE Clean(m)
    BY <1>1, CapturedClean
  <1>2. CASE \/ MakeDir(m, "logs", "mklogs", "rmtree") \/ RemoveLogs(m) \/ GetTmpLog(m)
             \/ MakeDir(m, "dir", "mkdir", "tmp") \/ RemoveTmpLog(m)
             \/ ConfigurePcap(m) /\ ~logdirs
    <2> SUFFICES ASSUME overlap' = "no" PROVE Captured'
      BY DEF Captured
    <2>1. UNCHANGED <<procs, at, locals, writes, follows, overlap>>
      BY <1>2 DEF MakeDir, RemoveLogs, GetTmpLog, RemoveTmpLog, ConfigurePcap, files, Then
    <2>2. manager[m] \notin {"none", "over"}
      BY <1>2 DEF MakeDir, RemoveLogs, GetTmpLog, RemoveTmpLog, ConfigurePcap, Manages
    <2>3. Handling # {}
      BY <2>2 DEF Handling
    <2>4. Starting' = {} /\ Starting = {}
      BY <2>1, <2>3 DEF Captured, Starting, Running, procs
    <2>5. ASSUME NEW o \in Runs, manager'[o] = "spawn" PROVE tmp' = NoPid
      <3>1. CASE GetTmpLog(m)
        BY <2>1, <2>5, <3>1 DEF GetTmpLog, Then, files, Captured, Table, TypeOK
      <3>2. CASE RemoveTmpLog(m)
        BY <3>2 DEF RemoveTmpLog
      <3>3. CASE \/ MakeDir(m, "logs", "mklogs", "rmtree") \/ RemoveLogs(m)
                 \/ MakeDir(m, "dir", "mkdir", "tmp") \/ ConfigurePcap(m)
        <4>1. tmp' = tmp /\ \E step \in {"mklogs", "rmtree", "dir", "mkdir", "tmp", "over"} :
                              manager' = [manager EXCEPT ![m] = step]
          BY <3>3 DEF MakeDir, RemoveLogs, ConfigurePcap, Then, files
        <4>2. manager[o] = "spawn"
          BY <2>5, <4>1 DEF Table, TypeOK
        <4> QED
          BY <2>1, <4>1, <4>2 DEF Captured
      <3> QED
        BY <1>2, <3>1, <3>2, <3>3
    <2>6. \A l \in Pids : at'[l] \in Waits => ReadsOwn(l)'
      BY <2>1 DEF Captured, ReadsOwn, locals
    <2> QED
      BY <2>4, <2>5, <2>6 DEF Captured
  <1>3. CASE ConfigurePcap(m) /\ logdirs
    <2> SUFFICES ASSUME overlap' = "no" PROVE Captured'
      BY DEF Captured
    <2> DEFINE p == NewPid
    <2>1. Unused(p)
      BY <1>3, NextNumber DEF ConfigurePcap, Manages, Table
    <2>2. /\ Fork(p, "listener", Root) /\ at' = [at EXCEPT ![p] = "open"]
          /\ manager[m] = "spawn" /\ manager' = [manager EXCEPT ![m] = "over"]
          /\ UNCHANGED <<locals, writes, follows, tmp, overlap>>
      BY <1>3 DEF ConfigurePcap, Manages, Then, files
    <2> HIDE DEF p
    <2>3. m \in Handling /\ Starting = {} /\ tmp = NoPid
      BY <2>2 DEF Captured, Handling
    <2>4. Handling' = {}
      BY <2>2, <2>3 DEF Handling, Inv, OneRun, Table, TypeOK
    <2>5. Starting' \subseteq {p} /\ at'[p] = "open"
      BY <2>1, <2>2, <2>3 DEF Starting, Running, Fork, Table, TypeOK, Unused
    <2>6. \A l \in Starting' : OwnTmpLog(l)'
      BY <2>2, <2>3, <2>5 DEF OwnTmpLog
    <2>7. \A o \in Runs : manager'[o] = "spawn" => tmp' = NoPid
      BY <2>2, <2>3
    <2>8. \A l \in Pids : at'[l] \in Waits => ReadsOwn(l)'
      BY <2>2 DEF Captured, ReadsOwn, locals, Table, TypeOK, Waits
    <2> QED
      BY <2>4, <2>5, <2>6, <2>7, <2>8 DEF Captured
  <1> QED
    BY <1>1, <1>2, <1>3 DEF ManagerStep

LEMMA CapturedFork ==
  ASSUME Table, Captured, NEW l \in Pids, OpenPcapProcess(l) \/ StartPs(l) \/ StartTail(l)
  PROVE  Captured'
  <1> SUFFICES ASSUME overlap' = "no" PROVE Captured'
    BY DEF Captured
  <1> DEFINE p == NewPid
  <1>1. /\ Unused(p) /\ kind[l] = "listener" /\ life[l] = "runs" /\ l \in Starting
        /\ UNCHANGED <<manager, overlap, tmp, writes, signalled>>
    BY ForkedTyped DEF OpenPcapProcess, StartPs, StartTail, Active, Table, mgr, files, Starting,
                       Running, Fork
  <1>2. /\ kind[p] = "none" /\ writes[p] = NoPid /\ p # l /\ p \in Pids /\ p \notin signalled
        /\ \A q \in Pids : q # p => kind'[q] = kind[q] /\ life'[q] = life[q]
        /\ kind'[p] # "listener" /\ life'[p] = "runs"
    BY <1>1 DEF OpenPcapProcess, StartPs, StartTail, Fork, Unused, Table, TypeOK, Kin, Unborn
  <1>3. /\ at[l] \in {"open", "scan", "tail"}
        /\ at'[l] = IF at[l] = "open" THEN "scan" ELSE IF at[l] = "scan" THEN "ps" ELSE "loop"
        /\ \A k \in Pids : k # l => at'[k] = at[k] /\ dump'[k] = dump[k] /\ tail'[k] = tail[k]
        /\ \A q \in Pids : q # p => follows'[q] = follows[q]
    BY DEF OpenPcapProcess, StartPs, StartTail, Active, Goto, Table, TypeOK, locals, files
  <1> HIDE DEF p
  <1>4. \A k \in Starting : k = l
    BY <1>1 DEF Captured
  <1>5. Handling' = {}
    BY <1>1 DEF Captured, Handling
  <1>6. Starting' \subseteq {l}
    BY <1>2, <1>3, <1>4 DEF Starting, Running
  <1>7. OwnTmpLog(l)
    BY <1>1 DEF Captured
  <1>8. l \in Starting' => OwnTmpLog(l)'
    <2>1. CASE OpenPcapProcess(l)
      <3>1. dump'[l] = p /\ at[l] = "open" /\ at'[l] = "scan"
        BY <1>3, <2>1 DEF OpenPcapProcess, Active, Table, TypeOK, p
      <3> QED
        BY <1>1, <1>2, <1>7, <3>1 DEF OwnTmpLog
    <2>2. CASE StartPs(l)
      <3>1. dump'[l] = dump[l] /\ at[l] = "scan" /\ at'[l] = "ps"
        BY <1>3, <2>2 DEF StartPs, Active, locals
      <3>2. dump[l] \in Pids /\ dump[l] # p
        BY <1>2, <3>1 DEF Table, Kin, Dumps, Opened, Before
      <3> QED
        BY <1>1, <1>2, <1>7, <3>1, <3>2 DEF OwnTmpLog
    <2>3. CASE StartTail(l)
      <3>1. at'[l] = "loop"
        BY <1>3, <2>3 DEF StartTail, Active
      <3> QED
        BY <3>1 DEF Starting
    <2> QED
      BY <2>1, <2>2, <2>3
  <1>9. ASSUME NEW k \in Pids, at'[k] \in Waits PROVE ReadsOwn(k)'
    <2>1. CASE k # l
      <3>1. at[k] \in Waits /\ dump'[k] = dump[k] /\ tail'[k] = tail[k] /\ ReadsOwn(k)
        BY <1>1, <1>3, <1>9, <2>1 DEF Captured
      <3>2. tail[k] \in Pids /\ tail[k] # p
        BY <1>2, <3>1 DEF Table, Kin, Tails
      <3> QED
        BY <1>1, <1>3, <3>1, <3>2 DEF ReadsOwn
    <2>2. CASE k = l
      <3>1. StartTail(l) /\ at[l] = "tail"
        BY <1>3, <1>9, <2>2 DEF OpenPcapProcess, StartPs, StartTail, Active, Waits
      <3>2. dump'[l] = dump[l] /\ tail'[l] = p /\ follows'[p] = tmp
        BY <1>2, <3>1 DEF StartTail, Table, TypeOK, p
      <3> QED
        BY <1>1, <1>7, <2>2, <3>1, <3>2 DEF OwnTmpLog, ReadsOwn
    <2> QED
      BY <2>1, <2>2
  <1>10. \A m \in Runs : manager'[m] # "spawn"
    BY <1>5 DEF Handling
  <1> QED
    BY <1>5, <1>6, <1>8, <1>9, <1>10 DEF Captured

LEMMA CapturedListener ==
  ASSUME Table, Captured, NEW l \in Pids, ListenerStep(l)
  PROVE  Captured'
  <1>1. CASE OpenPcapProcess(l) \/ StartPs(l) \/ StartTail(l)
    BY <1>1, CapturedFork
  <1>2. CASE ScanPs(l) \/ ReadPs(l) \/ AwaitTmpLog(l) \/ ReadTimeout(l) \/ CaptureDone(l)
    <2>1. Ends({})
      BY <1>2, QuietEnds DEF Table
    <2>2. UNCHANGED <<tmp, writes, follows, overlap, manager, signalled>>
      BY <1>2 DEF ScanPs, ReadPs, AwaitTmpLog, ReadTimeout, CaptureDone, mgr, files, procs
    <2>3. \A k \in Pids : at'[k] = "tail" => at[k] = "tail" \/ tmp # NoPid
      <3>1. \/ at' = at
            \/ \E step \in {"read", "await", "killtail", "spin"} : at' = [at EXCEPT ![l] = step]
            \/ tmp # NoPid
        BY <1>2 DEF ScanPs, ReadPs, AwaitTmpLog, ReadTimeout, CaptureDone, Goto
      <3> QED
        BY <3>1 DEF Table, TypeOK
    <2> QED
      BY <2>1, <2>2, <2>3, CapturedEnds
  <1>3. CASE KillTail(l) \/ KillParent(l)
    <2>1. PICK p \in Pids, step \in {"killparent", "await"} :
            /\ KillPid(l, p, step) /\ kind[p] # "tcpdump"
            /\ at[l] \in {"killtail", "killparent"} /\ kind[l] = "listener"
            /\ UNCHANGED <<mgr, locals, files>>
      <3>1. at[l] \in {"killtail", "killparent"}
        BY <1>3 DEF KillTail, KillParent, Active
      <3>2. victims[l] # <<>> /\ victims[l] \in Pids \X Pids
        BY <3>1 DEF Table, TypeOK, Marked
      <3>3. /\ victims[l][1] \in Pids /\ victims[l][2] \in Pids
            /\ kind[victims[l][1]] # "tcpdump" /\ kind[victims[l][2]] # "tcpdump"
        BY <3>2 DEF Table, Marked
      <3> QED
        BY <1>3, <3>3 DEF KillTail, KillParent, Active
    <2>2. at[l] \in Before /\ step \in Later
      BY <2>1 DEF Before, Later
    <2>3. (Ends({l}) \/ Ends({p} \ {Root})) /\ (at' = at \/ at' = [at EXCEPT ![l] = step])
      BY <2>1, <2>2, KillEnds DEF Table, locals, files
    <2>4. \A k \in Starting : at[k] # "open" => k \in Pids /\ kind[dump[k]] = "tcpdump"
      BY DEF Table, Kin, Dumps, Starting, Running, Opened, Before, Waits, TypeOK
    <2>5. \A k \in Pids : at'[k] = "tail" => at[k] = "tail"
      BY <2>1, <2>3 DEF Table, TypeOK
    <2>6. UNCHANGED <<tmp, writes, follows, overlap, manager, signalled>>
      BY <2>1 DEF mgr, files, KillPid, Crash, Die
    <2>7. \A k \in Starting : at[k] # "open" => dump[k] \notin {l} /\ dump[k] \notin {p} \ {Root}
      BY <2>1, <2>4
    <2> QED
      BY <2>3, <2>5, <2>6, <2>7, CapturedEnds
  <1>4. CASE RunEnded(l) \/ StrayAlarm(l) \/ KillListener(l) \/ ReadLine(l)
    <2>1. /\ at[l] \in Waits /\ kind[l] = "listener" /\ at' = at
          /\ UNCHANGED <<tmp, writes, follows, overlap, manager>>
      BY <1>4 DEF RunEnded, StrayAlarm, KillListener, ReadLine, GetLogFile, Crash, Active, Waits,
                  mgr, files
    <2>2. (Ends({l}) \/ Ends({})) /\ signalled' \subseteq signalled \cup {dump[l]}
      <3>1. signalled' \subseteq signalled \cup {dump[l]}
        BY <1>4 DEF RunEnded, StrayAlarm, KillListener, ReadLine, GetLogFile, Crash, Die, procs
      <3> QED
        BY <1>4, <3>1, LoopEnds DEF Table
    <2>3. ASSUME NEW k \in Starting, at[k] # "open"
          PROVE  dump[k] \notin {l} /\ dump[k] # dump[l]
      <3>1. Opened(k) /\ Opened(l) /\ k \in Pids /\ k # l
        BY <2>1, <2>3 DEF Starting, Running, Opened, Before, Waits, Table, TypeOK
      <3> QED
        BY <2>1, <3>1 DEF Table, Kin, Dumps
    <2>4. \A k \in Starting : at[k] # "open" =>
            /\ dump[k] \notin {l} /\ dump[k] \notin {}
            /\ dump[k] \in signalled' => dump[k] \in signalled
      BY <2>2, <2>3
    <2> QED
      BY <2>1, <2>2, <2>4, CapturedEnds
  <1> QED
    BY <1>1, <1>2, <1>3, <1>4 DEF ListenerStep

LEMMA CapturedTcpdump ==
  ASSUME Table, Inv, Fresh, Captured, NEW d \in Pids, TcpdumpOpens(d) \/ TcpdumpWrites(d)
  PROVE  Captured'
  <1> SUFFICES ASSUME overlap = "no" PROVE Captured'
    BY DEF Captured, TcpdumpOpens, TcpdumpWrites, mgr
  <1>1. /\ UNCHANGED <<kind, life, signalled, manager, overlap, at, dump, tail, follows>>
        /\ d \in Running("tcpdump")
    BY DEF TcpdumpOpens, TcpdumpWrites, procs, mgr, locals
  <1>2. CASE TcpdumpOpens(d)
    <2>1. Handling = {} /\ Opening = {} /\ \A e \in Capturing : e = d
      <3>1. d \in Capturing
        BY <1>1, <1>2 DEF TcpdumpOpens, Fresh, Unopened, Capturing
      <3> QED
        BY <3>1 DEF Inv, OneRun
    <2>2. Starting' = Starting /\ Handling' = {} /\ \A m \in Runs : manager'[m] # "spawn"
      BY <1>1, <2>1 DEF Starting, Running, Handling
    <2>3. /\ writes[d] = NoPid /\ writes' = [writes EXCEPT ![d] = tmp']
          /\ tmp' = IF tmp = NoPid THEN d ELSE tmp
      BY <1>2 DEF TcpdumpOpens
    <2>4. ASSUME NEW l \in Starting PROVE OwnTmpLog(l)'
      <3>1. at[l] # "open" /\ OwnTmpLog(l) /\ l \in Pids
        BY <2>1 DEF Opening, Starting, Captured, Running
      <3>2. dump[l] \in Capturing
        BY <3>1 DEF Table, Kin, Dumps, Opened, Before, Waits, TypeOK, Starting, OwnTmpLog, Running,
                    Capturing
      <3>3. dump[l] = d
        BY <2>1, <3>2
      <3>4. tmp = NoPid /\ tmp' = d /\ writes'[d] = d
        BY <2>3, <3>1, <3>3 DEF OwnTmpLog, Table, TypeOK
      <3>5. d # NoPid
        BY RunsAssumption DEF Pids, NoPid
      <3> QED
        BY <1>1, <3>1, <3>3, <3>4, <3>5 DEF OwnTmpLog
    <2>5. ASSUME NEW l \in Pids, at'[l] \in Waits PROVE ReadsOwn(l)'
      <3>1. ReadsOwn(l) /\ at[l] \in Waits
        BY <1>1, <2>5 DEF Captured
      <3>2. dump[l] \in Pids /\ NoPid \notin Pids
        BY <3>1, RunsAssumption DEF Table, Kin, Dumps, Opened, Pids, NoPid
      <3>3. dump[l] # d
        BY <2>3, <3>1, <3>2 DEF ReadsOwn
      <3> QED
        BY <1>1, <2>3, <3>1, <3>2, <3>3 DEF ReadsOwn, Table, TypeOK
    <2> QED
      BY <2>2, <2>4, <2>5 DEF Captured
  <1>3. CASE TcpdumpWrites(d)
    BY <1>1, <1>3 DEF TcpdumpWrites, Captured, Starting, Running, Handling, OwnTmpLog, ReadsOwn
  <1> QED
    BY <1>2, <1>3

LEMMA CapturedOthers ==
  ASSUME Table, Captured, NEW p \in Pids, TcpdumpEnds(p) \/ TailEnds(p)
  PROVE  Captured'
  <1>1. /\ Ends({p}) /\ at' = at /\ UNCHANGED <<tmp, writes, follows, overlap, manager, signalled>>
        /\ (kind[p] = "tcpdump" /\ p \in signalled) \/ kind[p] = "tail"
    BY OthersEnd DEF Table, mgr
  <1>2. ASSUME overlap = "no", NEW l \in Starting, at[l] # "open" PROVE dump[l] \notin {p}
    <2>1. Opened(l) /\ l \in Pids /\ OwnTmpLog(l)
      BY <1>2 DEF Starting, Running, Opened, Before, Waits, Table, TypeOK, Captured
    <2> QED
      BY <1>1, <1>2, <2>1 DEF Table, Kin, Dumps, OwnTmpLog
  <1> QED
    BY <1>1, <1>2, CapturedEnds

LEMMA CapturedAlways == Spec => []Captured
  <1>1. Init => Captured
    BY DEF Init, Captured, Starting, Running, Handling, Waits
  <1>2. ASSUME Table, Inv, Fresh, Captured, [Next]_vars PROVE Captured'
    <2>1. CASE UNCHANGED vars
      BY <1>2, <2>1 DEF vars, procs, mgr, locals, files, Captured, Starting, Running, Handling,
                        OwnTmpLog, ReadsOwn
    <2> QED
      BY <1>2, <2>1, CapturedManager, CapturedListener, CapturedTcpdump, CapturedOthers DEF Next
  <1> QED
    BY <1>1, <1>2, TableAlways, InvAlways, FreshAlways, PTL DEF Spec

(* Unless runs overlap, a listener reads the file its own tcpdump writes.  *)
THEOREM OwnCapture == Spec => []ReadsOwnCapture
  <1>1. Captured => ReadsOwnCapture
    BY DEF Captured, ReadsOwn, ReadsOwnCapture, Running, Waits
  <1> QED
    BY <1>1, CapturedAlways, PTL

-----------------------------------------------------------------------------
(***************************************************************************)
(* How a listener gets rid of the one of the run before, as long as no     *)
(* runs have overlapped.                                                   *)
(***************************************************************************)
Alone     == up /\ overlap = "no"
Old       == {l \in Running("listener") : at[l] \in Waits}
Chosen    == {"read", "killtail", "killparent"}
Orphaning == errors \cap {"FileExistsError", "TimeoutError"} # {}

(* There is one shell at a time, and it is younger than all tails.         *)
Shells ==
  /\ \A s, x \in Running("shell") : s = x
  /\ \A s \in Running("shell") : parent[s] \in Starting /\ at[parent[s]] \in {"ps", "read"}
  /\ \A l \in Starting : at[l] = "ps" => Running("shell") # {}
  /\ \A s \in Running("shell"), t \in Running("tail") : t < s

(* What is signalled is a tail, and its listener, or pid 1 if it has none. *)
Aimed(l) ==
  /\ kind[victims[l][1]] = "tail"
  /\ victims[l][2] # Root => /\ at[victims[l][2]] \in Waits
                             /\ tail[victims[l][2]] = victims[l][1]
Hunters ==
  \A l \in Starting :
    /\ at[l] \in Chosen /\ victims[l] # <<>> => Aimed(l)
    /\ at[l] = "killparent" => life[victims[l][1]] # "runs"

(* No tail was left to pid 1.                                              *)
Adopted ==
  /\ \A t \in Running("tail") : parent[t] # Root
  /\ \A l \in Starting : at[l] \in Chosen /\ victims[l] # <<>> => victims[l][2] # Root

(* There is at most one tail and one old listener, which is older than the *)
(* one that starts, and which the latter has in victims once it has read   *)
(* the list.                                                               *)
Newest ==
  /\ \A t, x \in Running("tail") : t = x
  /\ \A m, o \in Old : m = o
  /\ \A l \in Starting, m \in Running("listener") : m <= l
  /\ \A m \in Old : tail[m] \in Running("tail") \/ \E l \in Starting : at[l] = "killparent"
  /\ \A l \in Starting : at[l] \in Chosen =>
       /\ \A t \in Running("tail") : victims[l] # <<>> /\ victims[l][1] = t
       /\ \A m \in Old : victims[l] # <<>> /\ victims[l][2] = m
  /\ \A l \in Starting : at[l] \in {"await", "tail"} => Running("tail") = {} /\ Old = {}

(* The steps of managers and of tcpdump. *)
LEMMA HuntSame ==
  ASSUME UNCHANGED <<procs, at, locals>>
  PROVE  /\ Shells => Shells'
         /\ Hunters => Hunters'
         /\ Adopted => Adopted'
         /\ Newest => Newest'
  BY DEF procs, locals, Shells, Hunters, Adopted, Newest, Aimed, Old, Starting, Running

LEMMA Shrinking ==
  ASSUME NEW S, Ends(S)
  PROVE  /\ \A k : Running(k)' \subseteq Running(k) \ S
         /\ Starting' \subseteq Starting \ S /\ Old' \subseteq Old \ S
  <1>1. \A p \in Pids : /\ kind'[p] = kind[p]
                        /\ life'[p] = "runs" => life[p] = "runs" /\ p \notin S
                        /\ (at'[p] = "none") <=> (at[p] = "none")
                        /\ (at'[p] \in Waits) <=> (at[p] \in Waits)
    BY DEF Ends, Before, Later, Waits
  <1> QED
    BY <1>1 DEF Running, Starting, Old, Waits

LEMMA ShellsEnds ==
  ASSUME Table, Shells, \A l, k \in Starting : l = k, NEW S, Ends(S), \A p \in S : kind[p] # "shell",
         \A l \in Starting : at[l] \in {"ps", "read"} => l \notin S /\ at'[l] \in {"ps", "read"}
  PROVE  Shells'
  <1>1. /\ Running("shell")' \subseteq Running("shell") /\ Running("tail")' \subseteq Running("tail")
        /\ Starting' \subseteq Starting
    BY Shrinking
  <1>2. ASSUME NEW s \in Running("shell")'
        PROVE  parent'[s] \in Starting' /\ at'[parent'[s]] \in {"ps", "read"}
    <2>1. s \in Pids /\ parent[s] \in Starting /\ at[parent[s]] \in {"ps", "read"}
      BY <1>1, <1>2 DEF Shells, Running
    <2>2. parent[s] \notin S /\ at'[parent[s]] \in {"ps", "read"}
      BY <2>1
    <2>3. parent'[s] = parent[s]
      BY <2>1, <2>2 DEF Ends
    <2>4. life'[parent[s]] = "runs"
      BY <2>1, <2>2 DEF Ends, Starting, Running
    <2> QED
      BY <2>1, <2>2, <2>3, <2>4 DEF Starting, Running, Ends
  <1>3. ASSUME NEW l \in Starting', at'[l] = "ps" PROVE Running("shell")' # {}
    <2>1. l \in Starting /\ at[l] = "ps" /\ l \in Pids
      BY <1>1, <1>3 DEF Ends, Later, Starting, Running
    <2>2. PICK s \in Running("shell") : TRUE
      BY <2>1 DEF Shells
    <2>3. s \in Pids /\ kind[s] = "shell" /\ life[s] = "runs" /\ s \notin S /\ parent[s] \in Starting
      BY <2>2 DEF Running, Shells
    <2>4. CASE life'[s] = "runs"
      BY <2>3, <2>4 DEF Running, Ends
    <2>5. CASE at[parent[s]] = "read"
      BY <2>1, <2>3, <2>5
    <2> QED
      BY <2>3, <2>4, <2>5 DEF Ends
  <1> QED
    BY <1>1, <1>2, <1>3 DEF Shells

LEMMA HuntersEnds ==
  ASSUME Table, Hunters, NEW S, Ends(S), victims' = victims,
         \A l \in Starting : /\ at'[l] \in Chosen => at[l] \in Chosen
                             /\ at'[l] = "killparent" =>
                                  \/ at[l] = "killparent"
                                  \/ at[l] = "killtail" /\ victims[l][1] \in S
  PROVE  Hunters'
  <1>1. Starting' \subseteq Starting
    BY Shrinking
  <1>2. ASSUME NEW l \in Starting', at'[l] \in Chosen, victims[l] # <<>> PROVE Aimed(l)'
    <2>1. l \in Starting /\ at[l] \in Chosen /\ l \in Pids
      BY <1>1, <1>2 DEF Starting, Running
    <2>2. victims[l] \in Pids \X Pids
      BY <1>2, <2>1 DEF Table, TypeOK
    <2>3. victims[l][1] \in Pids /\ victims[l][2] \in Pids
      BY <2>2
    <2>4. Aimed(l)
      BY <1>2, <2>1 DEF Hunters
    <2>5. at[victims[l][2]] \in Waits => at'[victims[l][2]] \in Waits
      BY <2>3 DEF Ends, Before, Waits
    <2> QED
      BY <2>3, <2>4, <2>5 DEF Aimed, Ends
  <1>3. ASSUME NEW l \in Starting', at'[l] = "killparent" PROVE life'[victims[l][1]] # "runs"
    <2>1. l \in Starting /\ at[l] \in Chosen /\ l \in Pids
      BY <1>1, <1>3 DEF Starting, Running, Chosen
    <2>2. victims[l] # <<>>
      BY <1>3, <2>1 DEF Table, Marked
    <2>3. victims[l] \in Pids \X Pids
      BY <2>1, <2>2 DEF Table, TypeOK
    <2>4. victims[l][1] \in Pids
      BY <2>3
    <2> QED
      BY <1>3, <2>1, <2>4 DEF Hunters, Ends
  <1> QED
    BY <1>2, <1>3 DEF Hunters

LEMMA AdoptedEnds ==
  ASSUME Table, Adopted, NEW S, Ends(S), victims' = victims,
         \A l \in Starting : at'[l] \in Chosen => at[l] \in Chosen,
         \A t \in Running("tail") : parent[t] \in S => t \in S
  PROVE  Adopted'
  <1>1. Starting' \subseteq Starting /\ Running("tail")' \subseteq Running("tail") \ S
    BY Shrinking
  <1>2. ASSUME NEW t \in Running("tail")' PROVE parent'[t] # Root
    <2>1. t \in Running("tail") /\ t \notin S /\ t \in Pids
      BY <1>1, <1>2 DEF Running
    <2>2. parent'[t] = parent[t]
      BY <2>1 DEF Ends
    <2> QED
      BY <2>1, <2>2 DEF Adopted
  <1> QED
    BY <1>1, <1>2 DEF Adopted

LEMMA NewestEnds ==
  ASSUME Table, Newest, NEW S, Ends(S), victims' = victims,
         \A l \in Starting : at'[l] \in Chosen => at[l] \in Chosen,
         \A l \in Starting : at'[l] \in {"await", "tail"} =>
           at[l] \in {"await", "tail"} \/ (Running("tail") \subseteq S /\ Old \subseteq S),
         \A l \in Starting : at[l] = "killparent" =>
           Old \subseteq S \/ (l \notin S /\ at'[l] = "killparent"),
         \A m \in Old : tail[m] \in S =>
           m \in S \/ \E l \in Starting : l \notin S /\ at'[l] = "killparent"
  PROVE  Newest'
  <1>1. /\ Starting' \subseteq Starting /\ Old' \subseteq Old \ S
        /\ Running("tail")' \subseteq Running("tail") \ S
        /\ Running("listener")' \subseteq Running("listener")
    BY Shrinking
  <1>2. ASSUME NEW m \in Old'
        PROVE  tail'[m] \in Running("tail")' \/ \E l \in Starting' : at'[l] = "killparent"
    <2>1. m \in Old /\ m \notin S /\ m \in Pids /\ at[m] \in Waits /\ tail'[m] = tail[m]
      BY <1>1, <1>2 DEF Old, Running, Ends
    <2>2. tail[m] \in Pids /\ kind[tail[m]] = "tail"
      BY <2>1 DEF Table, Kin, Tails
    <2>3. ASSUME NEW l \in Starting, l \notin S, at'[l] = "killparent" PROVE l \in Starting'
      BY <2>3 DEF Starting, Running, Ends, Before, Waits
    <2>4. CASE tail[m] \in Running("tail")
      <3>1. CASE tail[m] \in S
        BY <2>1, <2>3, <3>1
      <3>2. CASE tail[m] \notin S
        <4>1. tail[m] \in Running("tail")'
          BY <2>2, <2>4, <3>2 DEF Running, Ends
        <4> QED
          BY <2>1, <4>1
      <3> QED
        BY <3>1, <3>2
    <2>5. CASE tail[m] \notin Running("tail")
      <3>1. PICK l \in Starting : at[l] = "killparent"
        BY <2>1, <2>5 DEF Newest
      <3> QED
        BY <2>1, <2>3, <3>1
    <2> QED
      BY <2>4, <2>5
  <1>3. ASSUME NEW l \in Starting', at'[l] \in Chosen
        PROVE  /\ \A t \in Running("tail")' : victims[l] # <<>> /\ victims[l][1] = t
               /\ \A m \in Old' : victims[l] # <<>> /\ victims[l][2] = m
    BY <1>1, <1>3 DEF Newest
  <1>4. ASSUME NEW l \in Starting', at'[l] \in {"await", "tail"}
        PROVE  Running("tail")' = {} /\ Old' = {}
    BY <1>1, <1>4 DEF Newest
  <1>5. /\ \A t, x \in Running("tail")' : t = x
        /\ \A m, o \in Old' : m = o
        /\ \A l \in Starting', m \in Running("listener")' : m <= l
    BY <1>1 DEF Newest
  <1> QED
    BY <1>2, <1>3, <1>4, <1>5 DEF Newest

Hunt == Alone => /\ Shells /\ Hunters
                 /\ ~Orphaning => Adopted
                 /\ GrepSeen => Newest

(* A step that ends no process but tcpdumps, and tails of no listener.     *)
LEMMA HuntUntouched ==
  ASSUME Table, Captured, Hunt, Alone, NEW S, Ends(S),
         \A p \in S : kind[p] = "tcpdump" \/ (kind[p] = "tail" /\ parent[p] = Root),
         UNCHANGED <<victims, errors>>,
         \A l \in Starting : at'[l] = at[l] \/ (at[l] = "await" /\ at'[l] = "tail")
  PROVE  Hunt'
  <1>1. \A l, k \in Starting : l = k
    BY DEF Captured, Alone
  <1>2. \A l \in Starting : kind[l] = "listener" /\ l \notin S
    BY DEF Starting, Running
  <1>3. Shells'
    BY <1>1, <1>2, ShellsEnds DEF Hunt
  <1>4. Hunters'
    BY <1>2, HuntersEnds DEF Hunt, Chosen
  <1>5. \A t \in Running("tail") : parent[t] \notin S
    BY DEF Running, Table, Kin, Parents
  <1>6. Adopted => Adopted'
    BY <1>2, <1>5, AdoptedEnds DEF Chosen
  <1>7. \A m \in Old : tail[m] \notin S
    BY DEF Table, Kin, Tails, RootRuns, Old, Running
  <1>8. Newest => Newest'
    BY <1>2, <1>7, NewestEnds DEF Chosen
  <1> QED
    BY <1>3, <1>4, <1>6, <1>8 DEF Hunt, Orphaning

LEMMA HuntManager ==
  ASSUME Table, Captured, Hunt, Alone, NEW m \in Runs, ManagerStep(m), Alone'
  PROVE  Hunt'
  <1>1. CASE Clean(m)
    <2>1. Ends({}) /\ UNCHANGED <<at, victims, errors>>
      BY <1>1, CleanEnds DEF Clean, Table, locals
    <2> QED
      BY <2>1, HuntUntouched
  <1>2. CASE \/ MakeDir(m, "logs", "mklogs", "rmtree") \/ RemoveLogs(m) \/ GetTmpLog(m)
             \/ MakeDir(m, "dir", "mkdir", "tmp") \/ RemoveTmpLog(m)
             \/ ConfigurePcap(m) /\ ~logdirs
    <2>1. UNCHANGED <<procs, at, locals, errors>>
      BY <1>2 DEF MakeDir, RemoveLogs, GetTmpLog, RemoveTmpLog, ConfigurePcap, files
    <2>2. UNCHANGED <<procs, at, locals>> /\ errors' = errors
      BY <2>1
    <2>3. /\ Shells => Shells'
          /\ Hunters => Hunters'
          /\ Adopted => Adopted'
          /\ Newest => Newest'
      BY <2>2, HuntSame
    <2> QED
      BY <2>2, <2>3 DEF Hunt, Orphaning
  <1>3. CASE ConfigurePcap(m) /\ logdirs
    <2> DEFINE p == NewPid
    <2>1. Unused(p)
      BY <1>3, NextNumber DEF ConfigurePcap, Manages, Table
    <2>2. /\ Fork(p, "listener", Root) /\ at' = [at EXCEPT ![p] = "open"]
          /\ manager[m] = "spawn" /\ UNCHANGED <<locals, errors>>
      BY <1>3 DEF ConfigurePcap, Manages, Then, files
    <2> HIDE DEF p
    <2>3. Starting = {}
      BY <2>2 DEF Captured, Handling, Alone
    <2>4. /\ kind[p] = "none" /\ p \in Pids /\ at[p] = "none" /\ at'[p] = "open" /\ p \in Nat
          /\ \A q \in Pids : q # p => /\ kind'[q] = kind[q] /\ life'[q] = life[q]
                                      /\ parent'[q] = parent[q] /\ at'[q] = at[q]
          /\ kind'[p] = "listener" /\ \A q \in Pids : kind[q] # "none" => q < p
      BY <2>1, <2>2, RunsAssumption DEF Fork, Unused, Table, TypeOK, Kin, Unborn, Pids
    <2>5. /\ Running("shell")' = {} /\ Running("tail")' = Running("tail") /\ Old' = Old
          /\ Starting' \subseteq {p} /\ Running("listener")' \subseteq Running("listener") \cup {p}
      <3>1. Running("shell") = {}
        BY <2>3 DEF Hunt, Shells
      <3>2. /\ Running("shell")' = {} /\ Running("tail")' = Running("tail")
            /\ Running("listener")' \subseteq Running("listener") \cup {p}
        BY <2>4, <3>1 DEF Running
      <3>3. p \notin Old /\ p \notin Old'
        BY <2>4 DEF Old, Waits
      <3>4. \A q \in Pids \ {p} : (q \in Old') <=> (q \in Old)
        BY <2>4 DEF Old, Running
      <3>5. Old \subseteq Pids /\ Old' \subseteq Pids /\ Starting' \subseteq Pids
        BY DEF Old, Running, Starting
      <3>6. \A q \in Pids \ {p} : q \in Starting' => q \in Starting
        BY <2>4 DEF Starting, Running
      <3> QED
        BY <2>3, <3>2, <3>3, <3>4, <3>5, <3>6
    <2>6. Shells' /\ Hunters'
      BY <2>4, <2>5 DEF Shells, Hunters, Chosen
    <2>7. Adopted => Adopted'
      BY <2>4, <2>5 DEF Adopted, Chosen, Running
    <2>8. Newest => Newest'
      <3> SUFFICES ASSUME Newest PROVE Newest'
        OBVIOUS
      <3>1. \A k \in Old : tail'[k] \in Running("tail")
        BY <2>2, <2>3 DEF Newest, locals
      <3>2. \A k \in Running("listener")' : k <= p
        BY <2>4, <2>5, RunsAssumption DEF Running, Pids
      <3> QED
        BY <2>4, <2>5, <3>1, <3>2 DEF Newest, Chosen
    <2> QED
      BY <2>2, <2>6, <2>7, <2>8 DEF Hunt, Orphaning
  <1> QED
    BY <1>1, <1>2, <1>3 DEF ManagerStep

LEMMA HuntTcpdump ==
  ASSUME Hunt, Alone, NEW d \in Pids, TcpdumpOpens(d) \/ TcpdumpWrites(d)
  PROVE  Hunt'
  <1>1. UNCHANGED <<procs, mgr, at, locals, errors>>
    BY DEF TcpdumpOpens, TcpdumpWrites
  <1>2. UNCHANGED <<procs, at, locals>> /\ errors' = errors
    BY <1>1
  <1>3. /\ Shells => Shells'
        /\ Hunters => Hunters'
        /\ Adopted => Adopted'
        /\ Newest => Newest'
    BY <1>2, HuntSame
  <1> QED
    BY <1>2, <1>3 DEF Hunt, Orphaning

LEMMA HuntOthers ==
  ASSUME Table, Captured, Hunt, Alone, NEW p \in Pids, TcpdumpEnds(p) \/ TailEnds(p)
  PROVE  Hunt'
  <1>1. /\ Ends({p}) /\ UNCHANGED <<at, victims, errors>>
        /\ kind[p] = "tcpdump" \/ (kind[p] = "tail" /\ parent[p] = Root)
    BY OthersEnd DEF Table, locals
  <1> QED
    BY <1>1, HuntUntouched

LEMMA HuntFork ==
  ASSUME Table, Captured, Hunt, Alone, NEW l \in Pids,
         OpenPcapProcess(l) \/ StartPs(l) \/ StartTail(l)
  PROVE  Hunt'
  <1> DEFINE p == NewPid
  <1>1. /\ Unused(p) /\ kind[l] = "listener" /\ life[l] = "runs" /\ l \in Starting
        /\ UNCHANGED <<victims, errors>> /\ \A k \in Starting : k = l
    BY ForkedTyped DEF OpenPcapProcess, StartPs, StartTail, Active, Table, locals, Starting,
                       Running, Captured, Alone
  <1>2. /\ kind[p] = "none" /\ p # l /\ p \in Pids /\ l # Root
        /\ kind'[p] \in {"tcpdump", "shell", "tail"} /\ life'[p] = "runs" /\ parent'[p] = l
        /\ \A q \in Pids : q # p => /\ kind'[q] = kind[q] /\ life'[q] = life[q]
                                    /\ parent'[q] = parent[q]
        /\ \A q \in Pids : kind[q] # "none" => q < p
    BY <1>1 DEF OpenPcapProcess, StartPs, StartTail, Fork, Unused, Table, TypeOK, Kin, RootRuns
  <1>3. /\ at[l] \in {"open", "scan", "tail"}
        /\ at'[l] = IF at[l] = "open" THEN "scan" ELSE IF at[l] = "scan" THEN "ps" ELSE "loop"
        /\ kind'[p] = IF at[l] = "open" THEN "tcpdump" ELSE IF at[l] = "scan" THEN "shell" ELSE "tail"
        /\ \A k \in Pids : k # l => at'[k] = at[k] /\ tail'[k] = tail[k]
        /\ tail'[l] = IF at[l] = "tail" THEN p ELSE tail[l]
    BY <1>1 DEF OpenPcapProcess, StartPs, StartTail, Active, Goto, Table, TypeOK, locals, Fork, Unused
  <1> HIDE DEF p
  <1>4. Running("shell") = {}
    BY <1>1, <1>3 DEF Hunt, Shells
  <1>5. Starting' = IF at[l] = "tail" THEN {} ELSE {l}
    BY <1>1, <1>2, <1>3 DEF Starting, Running
  <1>6. /\ Running("listener")' = Running("listener")
        /\ Running("shell")' = IF at[l] = "scan" THEN {p} ELSE {}
        /\ Running("tail")' = IF at[l] = "tail" THEN Running("tail") \cup {p} ELSE Running("tail")
        /\ Old' = IF at[l] = "tail" THEN Old \cup {l} ELSE Old
    BY <1>1, <1>2, <1>3, <1>4 DEF Running, Old, Waits
  <1>7. Shells'
    BY <1>2, <1>3, <1>5, <1>6 DEF Shells, Running
  <1>8. Hunters'
    BY <1>3, <1>5 DEF Hunters, Chosen
  <1>9. Adopted => Adopted'
    BY <1>2, <1>3, <1>5, <1>6 DEF Adopted, Chosen, Running
  <1>10. Newest => Newest'
    <2> SUFFICES ASSUME Newest PROVE Newest'
      OBVIOUS
    <2>1. CASE at[l] = "tail"
      <3>1. Running("tail") = {} /\ Old = {}
        BY <1>1, <2>1 DEF Newest
      <3>2. Running("tail")' = {p} /\ Old' = {l} /\ tail'[l] = p /\ Starting' = {}
        BY <1>3, <1>5, <1>6, <2>1, <3>1
      <3> QED
        BY <3>2 DEF Newest
    <2>2. CASE at[l] # "tail"
      <3>1. \A m \in Old : tail[m] \in Running("tail") /\ m # l /\ m \in Pids
        BY <1>1, <1>3 DEF Newest, Old, Running, Waits
      <3> QED
        BY <1>1, <1>3, <1>5, <1>6, <2>2, <3>1 DEF Newest, Chosen
    <2> QED
      BY <2>1, <2>2
  <1> QED
    BY <1>1, <1>7, <1>8, <1>9, <1>10 DEF Hunt, Orphaning, Alone

(* The list that a listener reads.                                         *)
LEMMA ScanSees ==
  ASSUME Table, Captured, Hunt, Alone, NEW l \in Pids, ScanPs(l)
  PROVE  /\ l \in Starting /\ at[l] = "ps" /\ at' = [at EXCEPT ![l] = "read"]
         /\ \A k \in Pids : k # l => victims'[k] = victims[k]
         /\ victims'[l] # <<>> =>
              \E t \in Running("tail") : victims'[l] = <<t, parent[t]>>
         /\ GrepSeen /\ Running("tail") # {} => victims'[l] # <<>>
  <1>1. /\ l \in Starting /\ at[l] = "ps" /\ at' = [at EXCEPT ![l] = "read"]
        /\ victims \in [Pids -> {<<>>} \cup (Pids \X Pids)]
    BY DEF ScanPs, Active, Goto, Starting, Running, Table, TypeOK
  <1>2. PICK s \in Running("shell") : TRUE
    BY <1>1 DEF Hunt, Shells
  <1>3. Running("shell") = {s} /\ \A t \in Running("tail") : t < s
    BY <1>2 DEF Hunt, Shells
  <1>4. Listed = Running("tail") \cup {s} /\ s \notin Running("tail") /\ IsFiniteSet(Running("tail"))
    <2>1. Running("tail") \in SUBSET Pids
      BY DEF Running
    <2> QED
      BY <1>2, <1>3, <2>1, PidsFinite, Smaller DEF Listed, Running
  <1>5. Cardinality(Running("tail")) \in Nat /\ Cardinality(Listed) = Cardinality(Running("tail")) + 1
    BY <1>4, FS_AddElement, FS_CardinalityType
  <1>6. Running("tail") # {} => Cardinality(Running("tail")) >= 1
    BY <1>4, <1>5, FS_EmptySet
  <1>7. PICK greps \in (IF GrepSeen THEN 1 ELSE 0)..Cardinality(Running("shell")) :
          victims' = [victims EXCEPT ![l] =
                        IF PreviousRun(greps) /\ Listed # {} THEN Victims(Min(Listed)) ELSE <<>>]
    BY DEF ScanPs
  <1>8. Cardinality(Running("shell")) = 1
    BY <1>3, FS_Singleton
  <1>9. greps \in Nat /\ greps <= 1 /\ (GrepSeen => greps = 1)
    BY <1>7, <1>8
  <1>10. PreviousRun(greps) => Running("tail") # {}
    BY <1>5, <1>9, <1>4, FS_EmptySet DEF PreviousRun
  <1>11. GrepSeen /\ Running("tail") # {} => PreviousRun(greps)
    BY <1>5, <1>6, <1>9 DEF PreviousRun
  <1>12. Running("tail") # {} => Min(Listed) \in Running("tail")
    <2> SUFFICES ASSUME NEW t \in Running("tail") PROVE Min(Listed) \in Running("tail")
      OBVIOUS
    <2>1. Min(Listed) \in Listed /\ Min(Listed) <= t
      BY <1>4, FirstListed DEF Table
    <2>2. t < s /\ t \in Nat /\ s \in Nat
      BY <1>2, <1>3, RunsAssumption DEF Running, Pids
    <2> QED
      BY <1>4, <2>1, <2>2
  <1>13. victims'[l] = IF PreviousRun(greps) /\ Listed # {}
                         THEN <<Min(Listed), parent[Min(Listed)]>> ELSE <<>>
    BY <1>1, <1>7 DEF Victims
  <1>14. GrepSeen /\ Running("tail") # {} => victims'[l] # <<>>
    BY <1>4, <1>11, <1>13
  <1> QED
    BY <1>1, <1>7, <1>10, <1>12, <1>13, <1>14

LEMMA HuntScan ==
  ASSUME Table, Captured, Hunt, Alone, NEW l \in Pids, ScanPs(l)
  PROVE  Hunt'
  <1>1. /\ l \in Starting /\ at[l] = "ps" /\ \A k \in Starting : k = l
        /\ at'[l] = "read" /\ \A k \in Pids : k # l => at'[k] = at[k]
        /\ UNCHANGED <<procs, tail, errors>>
    <2>1. /\ l \in Starting /\ at[l] = "ps" /\ at' = [at EXCEPT ![l] = "read"]
          /\ at \in [Pids -> {"none", "open", "scan", "ps", "read", "killtail", "killparent",
                              "await", "tail", "loop", "spin"}]
      BY ScanSees DEF Table, TypeOK
    <2>2. \A k \in Starting : k = l
      BY <2>1 DEF Captured, Alone
    <2>3. UNCHANGED <<procs, tail, errors>>
      BY DEF ScanPs
    <2> QED
      BY <2>1, <2>2, <2>3
  <1>2. /\ \A k : Running(k)' = Running(k)
        /\ Starting' = Starting /\ Old' = Old
    BY <1>1 DEF procs, Starting, Old, Running, Waits
  <1>3. Shells'
    BY <1>1, <1>2 DEF Hunt, Shells, procs
  <1>4. victims'[l] # <<>> => \E t \in Running("tail") : victims'[l] = <<t, parent[t]>>
    BY ScanSees
  <1>5. Hunters'
    <2> SUFFICES ASSUME victims'[l] # <<>> PROVE Aimed(l)'
      BY <1>1, <1>2 DEF Hunters
    <2>1. PICK t \in Running("tail") : victims'[l] = <<t, parent[t]>>
      BY <1>4
    <2>2. t \in Pids /\ kind[t] = "tail" /\ parent[t] \in Pids
      BY DEF Running, Table, Kin, Parents
    <2>3. parent[t] # Root => at[parent[t]] \in Waits /\ tail[parent[t]] = t
      BY <2>2 DEF Table, Kin, Parents
    <2>4. parent[t] # Root => parent[t] # l
      BY <1>1, <2>3 DEF Waits
    <2> QED
      BY <1>1, <2>1, <2>2, <2>3, <2>4 DEF Aimed, procs
  <1>6. Adopted => Adopted'
    <2> SUFFICES ASSUME Adopted PROVE Adopted'
      OBVIOUS
    <2>1. victims'[l] # <<>> => victims'[l][2] # Root
      BY <1>4 DEF Adopted
    <2> QED
      BY <1>1, <1>2, <2>1 DEF Adopted, procs
  <1>7. GrepSeen /\ Newest => Newest'
    <2> SUFFICES ASSUME GrepSeen, Newest PROVE Newest'
      OBVIOUS
    <2>1. ASSUME NEW t \in Running("tail") PROVE victims'[l] # <<>> /\ victims'[l][1] = t
      BY <1>4, ScanSees DEF Newest
    <2>2. ASSUME NEW m \in Old PROVE victims'[l] # <<>> /\ victims'[l][2] = m
      <3>1. tail[m] \in Running("tail")
        BY <1>1 DEF Newest
      <3>2. victims'[l] # <<>>
        BY <3>1, ScanSees
      <3>3. PICK t \in Running("tail") : victims'[l] = <<t, parent[t]>>
        BY <1>4, <3>2
      <3>4. t = tail[m]
        BY <3>1 DEF Newest
      <3>5. parent[tail[m]] = m
        BY DEF Old, Running, Table, Kin, Tails
      <3> QED
        BY <3>2, <3>3, <3>4, <3>5
    <2> QED
      BY <1>1, <1>2, <2>1, <2>2 DEF Newest
  <1> QED
    BY <1>1, <1>3, <1>5, <1>6, <1>7 DEF Hunt, Orphaning

LEMMA HuntRead ==
  ASSUME Table, Captured, Hunt, Alone, NEW l \in Pids, ReadPs(l)
  PROVE  Hunt'
  <1>1. /\ l \in Starting /\ at[l] = "read" /\ \A k \in Starting : k = l
        /\ at'[l] = (IF victims[l] = <<>> THEN "await" ELSE "killtail")
        /\ UNCHANGED <<victims, errors>>
        /\ \A p \in Pids : kind[p] = "shell" /\ parent[p] = l => life'[p] # "runs"
    BY DEF ReadPs, Active, Goto, locals, Starting, Running, Captured, Alone, Table, TypeOK
  <1>2. Ends({})
    BY QuietEnds DEF Table
  <1>3. Starting' \subseteq Starting /\ \A k : Running(k)' \subseteq Running(k)
    BY <1>2, Shrinking
  <1>4. Running("shell")' = {}
    <2>1. \A s \in Running("shell") : parent[s] = l
      BY <1>1 DEF Hunt, Shells
    <2> QED
      BY <1>1, <1>3, <2>1 DEF Running
  <1>5. Shells'
    BY <1>1, <1>3, <1>4 DEF Shells
  <1>6. Hunters'
    BY <1>1, <1>2, HuntersEnds DEF Hunt, Chosen
  <1>7. Adopted => Adopted'
    BY <1>1, <1>2, AdoptedEnds DEF Chosen
  <1>8. Newest => Newest'
    <2> SUFFICES ASSUME Newest PROVE Newest'
      OBVIOUS
    <2>1. victims[l] = <<>> => Running("tail") = {} /\ Old = {}
      BY <1>1 DEF Newest, Chosen
    <2> QED
      BY <1>1, <1>2, <2>1, NewestEnds DEF Chosen
  <1> QED
    BY <1>1, <1>5, <1>6, <1>7, <1>8 DEF Hunt, Orphaning

LEMMA HuntQuiet ==
  ASSUME Table, Captured, Hunt, Alone, NEW l \in Pids,
         AwaitTmpLog(l) \/ ReadTimeout(l) \/ CaptureDone(l)
  PROVE  Hunt'
  <1>1. Ends({})
    BY QuietEnds DEF Table
  <1>2. UNCHANGED <<victims, errors>>
    BY DEF AwaitTmpLog, ReadTimeout, CaptureDone, locals
  <1>3. \A k \in Starting : at'[k] = at[k] \/ (at[k] = "await" /\ at'[k] = "tail")
    BY DEF AwaitTmpLog, ReadTimeout, CaptureDone, Active, Goto, Starting, Running, Table, TypeOK
  <1> QED
    BY <1>1, <1>2, <1>3, HuntUntouched

(* The victims of a listener that signals them.                            *)
LEMMA Targets ==
  ASSUME Table, Hunt, Alone, NEW l \in Starting, at[l] \in {"killtail", "killparent"}
  PROVE  /\ l \in Pids /\ kind[l] = "listener" /\ at[l] \in Before /\ victims[l] # <<>>
         /\ victims[l][1] \in Pids \ {Root} /\ kind[victims[l][1]] = "tail"
         /\ victims[l][2] \in Pids
         /\ victims[l][2] # Root => /\ kind[victims[l][2]] = "listener" /\ victims[l][2] # l
                                    /\ tail[victims[l][2]] = victims[l][1]
         /\ at[l] = "killparent" => life[victims[l][1]] # "runs"
  <1>1. l \in Pids /\ kind[l] = "listener" /\ at[l] \in Before /\ victims[l] # <<>>
    BY DEF Starting, Running, Before, Table, Marked
  <1>2. victims[l] \in Pids \X Pids
    BY <1>1 DEF Table, TypeOK
  <1>3. victims[l][1] \in Pids /\ victims[l][2] \in Pids
    BY <1>2
  <1>4. Aimed(l) /\ (at[l] = "killparent" => life[victims[l][1]] # "runs")
    BY <1>1 DEF Hunt, Hunters, Chosen
  <1>5. kind[Root] = "init"
    BY DEF Table, Kin, RootRuns
  <1>6. \A m \in Pids : at[m] \in Waits => kind[m] = "listener" /\ m # l
    BY <1>1 DEF Table, Kin, Unborn, Before, Waits
  <1> QED
    BY <1>1, <1>3, <1>4, <1>5, <1>6 DEF Aimed

(* A step that ends a listener which is not the one that starts, or that   *)
(* one itself before it has signalled anything.                            *)
LEMMA HuntLost ==
  ASSUME Table, Captured, Hunt, Alone, NEW l \in Pids, kind[l] = "listener", Ends({l}),
         at' = at, victims' = victims, at[l] \notin {"ps", "read"},
         at[l] = "killparent" => life[victims[l][2]] = "no",
         errors \subseteq errors', at[l] \in Waits /\ life[tail[l]] = "runs" => Orphaning'
  PROVE  Hunt'
  <1>1. \A k, o \in Starting : k = o
    BY DEF Captured, Alone
  <1>2. Shells'
    BY <1>1, ShellsEnds DEF Hunt
  <1>3. Hunters'
    BY HuntersEnds DEF Hunt
  <1>4. Adopted /\ ~Orphaning' => Adopted'
    <2> SUFFICES ASSUME Adopted, ~Orphaning' PROVE Adopted'
      OBVIOUS
    <2>1. ASSUME NEW t \in Running("tail"), parent[t] = l PROVE FALSE
      <3>1. t \in Pids /\ kind[t] = "tail" /\ life[t] = "runs" /\ l # Root
        BY <2>1 DEF Running, Table, Kin, RootRuns
      <3>2. at[l] \in Waits /\ tail[l] = t
        BY <2>1, <3>1 DEF Table, Kin, Parents
      <3> QED
        BY <3>1, <3>2
    <2> QED
      BY <2>1, AdoptedEnds
  <1>5. Newest => Newest'
    <2> SUFFICES ASSUME Newest PROVE Newest'
      OBVIOUS
    <2>1. \A m \in Old : tail[m] # l
      BY DEF Old, Running, Table, Kin, Tails
    <2>2. ASSUME NEW k \in Starting, at[k] = "killparent" PROVE Old \subseteq {l} \/ k # l
      <3>1. at[k] \in Chosen
        BY <2>2 DEF Chosen
      <3>2. \A m \in Old : victims[k][2] = m /\ life[m] = "runs"
        BY <3>1 DEF Newest, Old, Running
      <3>3. k = l => Old = {}
        BY <2>2, <3>2
      <3> QED
        BY <3>3
    <2> QED
      BY <2>1, <2>2, NewestEnds
  <1>6. Orphaning => Orphaning'
    BY DEF Orphaning
  <1> QED
    BY <1>2, <1>3, <1>4, <1>5, <1>6 DEF Hunt

LEMMA HuntKillTail ==
  ASSUME Table, Captured, Hunt, Alone, NEW l \in Pids, KillTail(l)
  PROVE  Hunt' /\ up' = up
  <1>1. l \in Starting /\ at[l] = "killtail" /\ \A k \in Starting : k = l
    BY DEF KillTail, Active, Starting, Running, Captured, Alone
  <1> DEFINE t == victims[l][1]
  <1>2. /\ kind[l] = "listener" /\ at[l] \in Before /\ t \in Pids \ {Root} /\ kind[t] = "tail"
    BY <1>1, Targets
  <1>3. KillPid(l, t, "killparent") /\ UNCHANGED <<dump, tail, victims, writes>>
    BY DEF KillTail, locals, files
  <1>4. \/ /\ Ends({l}) /\ at' = at /\ up' = up /\ errors' = errors \cup {"ProcessLookupError"}
        \/ /\ Ends({t} \ {Root}) /\ at' = [at EXCEPT ![l] = "killparent"]
           /\ up' = (t # Root) /\ errors' = errors
    BY <1>2, <1>3, KillEnds DEF Table, Later
  <1>5. CASE /\ Ends({l}) /\ at' = at /\ up' = up
             /\ errors' = errors \cup {"ProcessLookupError"}
    BY <1>1, <1>2, <1>3, <1>5, HuntLost DEF Waits
  <1>6. CASE /\ Ends({t} \ {Root}) /\ at' = [at EXCEPT ![l] = "killparent"]
             /\ up' = (t # Root) /\ errors' = errors
    <2>1. Ends({t}) /\ up' = up
      <3>1. {t} \ {Root} = {t}
        BY <1>2
      <3> QED
        BY <1>2, <1>6, <3>1 DEF Alone
    <2>2. at'[l] = "killparent" /\ \A k \in Pids : k # l => at'[k] = at[k]
      BY <1>6 DEF Table, TypeOK
    <2>3. Shells'
      BY <1>1, <1>2, <2>1, ShellsEnds DEF Hunt
    <2>4. Hunters'
      BY <1>1, <1>3, <2>1, <2>2, HuntersEnds DEF Hunt, Chosen
    <2>5. \A x \in Running("tail") : parent[x] # t
      BY <1>2 DEF Running, Table, Kin, Parents
    <2>6. Adopted => Adopted'
      BY <1>1, <1>3, <2>1, <2>2, <2>5, AdoptedEnds DEF Chosen
    <2>7. Newest => Newest'
      <3>1. l # t
        BY <1>2
      <3> QED
        BY <1>1, <1>3, <2>1, <2>2, <3>1, NewestEnds DEF Chosen
    <2> QED
      BY <1>6, <2>1, <2>3, <2>4, <2>6, <2>7 DEF Hunt, Orphaning
  <1> QED
    BY <1>4, <1>5, <1>6

LEMMA HuntKillParent ==
  ASSUME Table, Captured, Hunt, Alone, NEW l \in Pids, KillParent(l)
  PROVE  /\ Hunt'
         /\ ~up' => Orphaning'
  <1>1. l \in Starting /\ at[l] = "killparent" /\ \A k \in Starting : k = l
    BY DEF KillParent, Active, Starting, Running, Captured, Alone
  <1> DEFINE v == victims[l][2]
  <1>2. /\ kind[l] = "listener" /\ at[l] \in Before /\ v \in Pids /\ victims[l] # <<>>
        /\ v # Root => kind[v] = "listener" /\ v # l /\ tail[v] = victims[l][1]
        /\ life[victims[l][1]] # "runs"
    BY <1>1, Targets
  <1>3. KillPid(l, v, "await") /\ UNCHANGED <<dump, tail, victims, writes>>
    BY DEF KillParent, locals, files
  <1>4. \/ /\ life[v] = "no" /\ Ends({l}) /\ at' = at /\ up' = up
           /\ errors' = errors \cup {"ProcessLookupError"}
        \/ /\ Ends({v} \ {Root}) /\ at' = [at EXCEPT ![l] = "await"]
           /\ up' = (v # Root) /\ errors' = errors
    BY <1>2, <1>3, KillEnds DEF Table, Later
  <1>5. CASE /\ life[v] = "no" /\ Ends({l}) /\ at' = at /\ up' = up
             /\ errors' = errors \cup {"ProcessLookupError"}
    BY <1>1, <1>2, <1>3, <1>5, HuntLost DEF Waits, Alone
  <1>6. CASE /\ Ends({v} \ {Root}) /\ at' = [at EXCEPT ![l] = "await"]
             /\ up' = (v # Root) /\ errors' = errors
    <2>1. CASE v = Root
      <3>1. ~Alone' /\ errors' = errors
        BY <1>6, <2>1 DEF Alone
      <3>2. ~Adopted
        BY <1>1, <1>2, <2>1 DEF Adopted, Chosen
      <3> QED
        BY <3>1, <3>2 DEF Hunt, Orphaning
    <2>2. CASE v # Root
      <3>1. Ends({v}) /\ up'
        <4>1. {v} \ {Root} = {v}
          BY <2>2
        <4> QED
          BY <1>6, <2>2, <4>1
      <3>2. at'[l] = "await" /\ \A k \in Pids : k # l => at'[k] = at[k]
        BY <1>6 DEF Table, TypeOK
      <3>3. Shells'
        BY <1>1, <1>2, <2>2, <3>1, ShellsEnds DEF Hunt
      <3>4. Hunters'
        BY <1>1, <1>3, <3>1, <3>2, HuntersEnds DEF Hunt, Chosen
      <3>5. \A x \in Running("tail") : parent[x] # v
        BY <1>2, <2>2 DEF Running, Table, Kin, Parents
      <3>6. Adopted => Adopted'
        BY <1>1, <1>3, <3>1, <3>2, <3>5, AdoptedEnds DEF Chosen
      <3>7. Newest => Newest'
        <4> SUFFICES ASSUME Newest PROVE Newest'
          OBVIOUS
        <4>1. /\ \A x \in Running("tail") : victims[l][1] = x
              /\ \A m \in Old : m = v
          BY <1>1 DEF Newest, Chosen
        <4>2. Running("tail") \subseteq {v} /\ Old \subseteq {v}
          BY <1>2, <4>1 DEF Running
        <4>3. \A m \in Old : tail[m] # v
          BY <1>2, <2>2 DEF Old, Running, Table, Kin, Tails
        <4> QED
          BY <1>1, <1>3, <3>1, <3>2, <4>2, <4>3, NewestEnds DEF Chosen
      <3> QED
        BY <1>6, <3>1, <3>3, <3>4, <3>6, <3>7 DEF Hunt, Orphaning
    <2> QED
      BY <2>1, <2>2
  <1> QED
    BY <1>4, <1>5, <1>6 DEF Alone

LEMMA HuntLoop ==
  ASSUME Table, Captured, Hunt, Alone, NEW l \in Pids,
         RunEnded(l) \/ StrayAlarm(l) \/ KillListener(l) \/ ReadLine(l)
  PROVE  Hunt'
  <1>1. /\ kind[l] = "listener" /\ at[l] \in Waits /\ at' = at /\ victims' = victims
    BY DEF RunEnded, StrayAlarm, KillListener, ReadLine, GetLogFile, Crash, Active, Waits, locals
  <1>2. CASE RunEnded(l) /\ Ends({l})
    <2>1. errors' = errors /\ life[tail[l]] # "runs"
      BY <1>2 DEF RunEnded
    <2> QED
      BY <1>1, <1>2, <2>1, HuntLost DEF Waits
  <1>3. CASE StrayAlarm(l) /\ Ends({l})
    <2>1. errors' = errors \cup {"TimeoutError"}
      BY <1>3 DEF StrayAlarm, Crash
    <2> QED
      BY <1>1, <1>3, <2>1, HuntLost DEF Waits, Orphaning
  <1>4. CASE KillListener(l) /\ Ends({})
    <2>1. errors' = errors
      BY <1>4 DEF KillListener
    <2> QED
      BY <1>1, <1>4, <2>1, HuntUntouched
  <1>5. CASE Ends({}) /\ errors' = errors
    BY <1>1, <1>5, HuntUntouched
  <1>6. CASE Ends({l}) /\ errors' = errors \cup {"FileExistsError"}
    BY <1>1, <1>6, HuntLost DEF Waits, Orphaning
  <1> QED
    BY <1>2, <1>3, <1>4, <1>5, <1>6, LoopEnds DEF Table

LEMMA HuntListener ==
  ASSUME Table, Captured, Hunt, Alone, NEW l \in Pids, ListenerStep(l)
  PROVE  /\ Hunt'
         /\ ~up' => Orphaning'
  <1>1. CASE OpenPcapProcess(l) \/ StartPs(l) \/ StartTail(l)
    BY <1>1, HuntFork DEF OpenPcapProcess, StartPs, StartTail, Fork, Alone
  <1>2. CASE ScanPs(l) \/ ReadPs(l) \/ AwaitTmpLog(l) \/ ReadTimeout(l) \/ CaptureDone(l)
    <2>1. Hunt'
      BY <1>2, HuntScan, HuntRead, HuntQuiet
    <2>2. up' = up
      BY <1>2 DEF ScanPs, ReadPs, AwaitTmpLog, ReadTimeout, CaptureDone, procs
    <2> QED
      BY <2>1, <2>2 DEF Alone
  <1>3. CASE KillTail(l)
    BY <1>3, HuntKillTail DEF Alone
  <1>4. CASE KillParent(l)
    BY <1>4, HuntKillParent
  <1>5. CASE RunEnded(l) \/ StrayAlarm(l) \/ KillListener(l) \/ ReadLine(l)
    <2>1. Hunt'
      BY <1>5, HuntLoop
    <2>2. up' = up
      BY <1>5 DEF RunEnded, StrayAlarm, KillListener, ReadLine, GetLogFile, Crash, procs
    <2> QED
      BY <2>1, <2>2 DEF Alone
  <1> QED
    BY <1>1, <1>2, <1>3, <1>4, <1>5 DEF ListenerStep

(* pid 1 gets no SIGTERM unless a tail was left to it.                     *)
Spared == ~up => Orphaning \/ overlap # "no"

(* Nothing happens once pid 1 is gone, and an overlap is not forgotten.    *)
LEMMA Onward ==
  ASSUME Next
  PROVE  up /\ (overlap' = "no" => overlap = "no")
  <1>1. ASSUME NEW m \in Runs, ManagerStep(m) PROVE up /\ (overlap' = "no" => overlap = "no")
    BY <1>1 DEF ManagerStep, Clean, MakeDir, RemoveLogs, GetTmpLog, RemoveTmpLog, ConfigurePcap,
                Manages, Then
  <1>2. ASSUME NEW l \in Pids, ListenerStep(l) PROVE up /\ overlap' = overlap
    <2>1. CASE OpenPcapProcess(l) \/ StartPs(l) \/ ScanPs(l) \/ ReadPs(l) \/ KillTail(l)
      BY <2>1 DEF OpenPcapProcess, StartPs, ScanPs, ReadPs, KillTail, Active, mgr
    <2>2. CASE KillParent(l) \/ AwaitTmpLog(l) \/ StartTail(l) \/ RunEnded(l) \/ ReadLine(l)
      BY <2>2 DEF KillParent, AwaitTmpLog, StartTail, RunEnded, ReadLine, Active, mgr
    <2>3. CASE ReadTimeout(l) \/ StrayAlarm(l) \/ CaptureDone(l) \/ KillListener(l)
      BY <2>3 DEF ReadTimeout, StrayAlarm, CaptureDone, KillListener, Active, mgr
    <2> QED
      BY <1>2, <2>1, <2>2, <2>3 DEF ListenerStep
  <1>3. ASSUME NEW p \in Pids, TcpdumpOpens(p) \/ TcpdumpWrites(p) \/ TcpdumpEnds(p) \/ TailEnds(p)
        PROVE  up /\ overlap' = overlap
    BY <1>3 DEF TcpdumpOpens, TcpdumpWrites, TcpdumpEnds, TailEnds, mgr
  <1> QED
    BY <1>1, <1>2, <1>3 DEF Next

LEMMA HuntNext ==
  ASSUME Table, Captured, Hunt, Spared, Next
  PROVE  Hunt' /\ Spared'
  <1>0. up /\ (overlap' = "no" => overlap = "no")
    BY Onward
  <1>1. CASE overlap' # "no"
    BY <1>1 DEF Hunt, Spared, Alone
  <1>2. CASE overlap' = "no"
    <2>1. Alone
      BY <1>0, <1>2 DEF Alone
    <2>2. ASSUME NEW m \in Runs, ManagerStep(m) PROVE Hunt' /\ Spared'
      <3>1. up' = up
        BY <2>2 DEF ManagerStep, Clean, MakeDir, RemoveLogs, GetTmpLog, RemoveTmpLog,
                    ConfigurePcap, Fork, procs
      <3>2. Alone'
        BY <1>2, <2>1, <3>1 DEF Alone
      <3> QED
        BY <2>1, <2>2, <3>2, HuntManager DEF Spared, Alone
    <2>3. ASSUME NEW l \in Pids, ListenerStep(l) PROVE Hunt' /\ Spared'
      BY <2>1, <2>3, HuntListener DEF Spared
    <2>4. ASSUME NEW d \in Pids, TcpdumpOpens(d) \/ TcpdumpWrites(d) PROVE Hunt' /\ Spared'
      <3>1. up' = up
        BY <2>4 DEF TcpdumpOpens, TcpdumpWrites, procs
      <3> QED
        BY <2>1, <2>4, <3>1, HuntTcpdump DEF Spared, Alone
    <2>5. ASSUME NEW p \in Pids, TcpdumpEnds(p) \/ TailEnds(p) PROVE Hunt' /\ Spared'
      <3>1. up' = up
        BY <2>5 DEF TcpdumpEnds, TailEnds
      <3> QED
        BY <2>1, <2>5, <3>1, HuntOthers DEF Spared, Alone
    <2> QED
      BY <2>2, <2>3, <2>4, <2>5 DEF Next
  <1> QED
    BY <1>1, <1>2

LEMMA HuntAlways == Spec => [](Hunt /\ Spared)
  <1>1. Init => Hunt /\ Spared
    <2> SUFFICES ASSUME Init PROVE Hunt /\ Spared
      OBVIOUS
    <2>1. up /\ \A k \in {"shell", "tail", "listener"} : Running(k) = {}
      BY DEF Init, Running
    <2>2. Starting = {} /\ Old = {}
      BY <2>1 DEF Starting, Old
    <2> QED
      BY <2>1, <2>2 DEF Hunt, Spared, Shells, Hunters, Adopted, Newest
  <1>2. ASSUME Table, Captured, Hunt, Spared, UNCHANGED vars PROVE Hunt' /\ Spared'
    <2>1. UNCHANGED <<procs, at, locals>> /\ errors' = errors /\ overlap' = overlap /\ up' = up
      BY <1>2 DEF vars, procs, mgr
    <2>2. /\ Shells => Shells'
          /\ Hunters => Hunters'
          /\ Adopted => Adopted'
          /\ Newest => Newest'
      BY <2>1, HuntSame
    <2> QED
      BY <1>2, <2>1, <2>2 DEF Hunt, Spared, Orphaning, Alone
  <1> QED
    BY <1>1, <1>2, HuntNext, TableAlways, CapturedAlways, PTL DEF Spec

(* pid 1 is only signalled after an exception in its loop has ended a      *)
(* listener, which left its tail to pid 1, or after runs have overlapped,  *)
(* whatever ps lists.                                                      *)
THEOREM RootSpared == Spec => []InitKilledByOrphan
  <1>1. Spared => InitKilledByOrphan
    BY DEF Spared, Orphaning, InitKilledByOrphan
  <1> QED
    BY <1>1, HuntAlways, PTL

-----------------------------------------------------------------------------
(***************************************************************************)
(* Every run that is over has started its listener, and the last one to be *)
(* started is left, unless an exception has ended it.                      *)
(***************************************************************************)
(* What a manager has seen of the directory and the file is still so.      *)
Seen == \A m \in Runs :
  /\ manager[m] \in {"tmp", "remove", "spawn"} => logdirs
  /\ manager[m] \in {"mklogs", "mkdir"} => ~logdirs
  /\ manager[m] = "remove" => tmp # NoPid

Attended == errors = {} /\ Handling = {} /\ Over # {} => Running("listener") # {}

Served == Alone => Seen /\ (GrepSeen => Attended)

LEMMA ServedManager ==
  ASSUME Table, Inv, Captured, Served, Alone, NEW m \in Runs, ManagerStep(m), Alone'
  PROVE  Served'
  <1>0. manager \in [Runs -> {"none", "logs", "mklogs", "rmtree", "dir", "mkdir", "tmp",
                              "remove", "spawn", "over"}]
    BY DEF Table, TypeOK
  <1>1. CASE Clean(m)
    <2>1. /\ manager' = [manager EXCEPT ![m] = "logs"] /\ UNCHANGED <<logdirs, tmp>>
      BY <1>1 DEF Clean, files
    <2>2. Seen'
      BY <1>0, <2>1 DEF Served, Seen
    <2>3. m \in Handling'
      BY <1>0, <2>1 DEF Handling
    <2> QED
      BY <2>2, <2>3 DEF Served, Attended
  <1>2. CASE ~Clean(m)
    <2>1. m \in Handling /\ \A o \in Runs : o # m => manager[o] \in {"none", "over"}
      <3>1. m \in Handling
        BY <1>2 DEF ManagerStep, MakeDir, RemoveLogs, GetTmpLog, RemoveTmpLog, ConfigurePcap,
                    Manages, Handling
      <3>2. \A o \in Handling : o = m
        BY <3>1 DEF Inv, OneRun, Alone
      <3> QED
        BY <3>1, <3>2 DEF Handling
    <2>2. Seen
      BY DEF Served
    <2>3. \/ /\ \/ manager[m] = "logs" /\ manager'[m] = IF logdirs THEN "rmtree" ELSE "mklogs"
                \/ manager[m] = "dir" /\ manager'[m] = IF logdirs THEN "tmp" ELSE "mkdir"
                \/ manager[m] = "tmp" /\ manager'[m] = IF tmp = NoPid THEN "spawn" ELSE "remove"
             /\ UNCHANGED <<logdirs, tmp>>
          \/ manager[m] = "mklogs" /\ manager'[m] = "rmtree" /\ logdirs' = TRUE /\ tmp' = tmp
          \/ manager[m] = "mkdir" /\ manager'[m] = "tmp" /\ logdirs' = TRUE /\ tmp' = tmp
          \/ manager[m] = "rmtree" /\ manager'[m] = "dir"
          \/ manager[m] = "remove" /\ manager'[m] = "spawn" /\ logdirs' = logdirs
          \/ /\ manager[m] = "spawn" /\ manager'[m] = "over" /\ logdirs
             /\ \E p \in Pids : p \in Running("listener")'
      <3>1. CASE MakeDir(m, "logs", "mklogs", "rmtree")
        BY <1>0, <2>2, <3>1 DEF MakeDir, Manages, Then, files, Seen
      <3>2. CASE MakeDir(m, "dir", "mkdir", "tmp")
        BY <1>0, <2>2, <3>2 DEF MakeDir, Manages, Then, files, Seen
      <3>3. CASE RemoveLogs(m)
        BY <1>0, <3>3 DEF RemoveLogs, Manages, Then
      <3>4. CASE GetTmpLog(m)
        BY <1>0, <3>4 DEF GetTmpLog, Manages, Then, files
      <3>5. CASE RemoveTmpLog(m)
        BY <1>0, <2>2, <3>5 DEF RemoveTmpLog, Manages, Then, Seen
      <3>6. CASE ConfigurePcap(m)
        <4>1. manager[m] = "spawn" /\ manager'[m] = "over" /\ logdirs
          BY <1>0, <2>2, <3>6 DEF ConfigurePcap, Manages, Then, Seen
        <4> DEFINE p == NewPid
        <4>2. Unused(p)
          BY <4>1, NextNumber DEF Table
        <4>3. Fork(p, "listener", Root)
          BY <3>6, <4>1 DEF ConfigurePcap
        <4> HIDE DEF p
        <4>4. p \in Running("listener")'
          BY <4>2, <4>3 DEF Fork, Unused, Running, Table, TypeOK
        <4> QED
          BY <4>1, <4>4 DEF Running
      <3> QED
        BY <1>2, <3>1, <3>2, <3>3, <3>4, <3>5, <3>6 DEF ManagerStep
    <2>4. \A o \in Runs : o # m => manager'[o] = manager[o]
      BY <1>0, <1>2 DEF ManagerStep, MakeDir, RemoveLogs, GetTmpLog, RemoveTmpLog, ConfigurePcap,
                        Then
    <2>5. Seen'
      BY <2>1, <2>2, <2>3, <2>4 DEF Seen
    <2>6. Attended'
      <3>1. CASE manager'[m] # "over"
        <4>1. manager'[m] # "none"
          BY <2>3
        <4>2. m \in Handling'
          BY <3>1, <4>1 DEF Handling
        <4> QED
          BY <4>2 DEF Attended
      <3>2. CASE manager'[m] = "over"
        BY <2>3, <3>2 DEF Attended
      <3> QED
        BY <3>1, <3>2
    <2> QED
      BY <2>5, <2>6 DEF Served
  <1> QED
    BY <1>1, <1>2

(* Steps that leave the managers and the files alone.                      *)
LEMMA ServedKept ==
  ASSUME Table, Captured, Hunt, Served, Alone,
         UNCHANGED <<manager, logdirs, tmp>>, errors \subseteq errors',
         GrepSeen /\ errors' = {} /\ Running("listener") # {} => Running("listener")' # {}
  PROVE  Served'
  <1>1. Seen' /\ Handling' = Handling /\ Over' = Over
    BY DEF Served, Seen, Handling, Over
  <1> QED
    BY <1>1 DEF Served, Attended

LEMMA ListenersKept ==
  ASSUME NEW S, Ends(S), NEW l \in Running("listener"), l \notin S
  PROVE  Running("listener")' # {}
  <1>1. l \in Running("listener")'
    BY DEF Running, Ends
  <1> QED
    BY <1>1

LEMMA ServedListener ==
  ASSUME Table, Captured, Hunt, Served, Alone, NEW l \in Pids, ListenerStep(l)
  PROVE  Served'
  <1>1. UNCHANGED <<manager, logdirs, tmp>> /\ errors \subseteq errors'
    <2>1. CASE OpenPcapProcess(l) \/ StartPs(l) \/ ScanPs(l) \/ ReadPs(l)
      BY <2>1 DEF OpenPcapProcess, StartPs, ScanPs, ReadPs, mgr, files
    <2>2. CASE KillTail(l) \/ KillParent(l)
      BY <2>2 DEF KillTail, KillParent, KillPid, Crash, mgr, files
    <2>3. CASE AwaitTmpLog(l) \/ StartTail(l) \/ RunEnded(l) \/ ReadLine(l)
      BY <2>3 DEF AwaitTmpLog, StartTail, RunEnded, ReadLine, GetLogFile, Crash, mgr, files
    <2>4. CASE ReadTimeout(l) \/ StrayAlarm(l) \/ CaptureDone(l) \/ KillListener(l)
      BY <2>4 DEF ReadTimeout, StrayAlarm, CaptureDone, KillListener, Crash, mgr, files
    <2> QED
      BY <2>1, <2>2, <2>3, <2>4 DEF ListenerStep
  <1>2. l \in Running("listener")
    BY DEF ListenerStep, OpenPcapProcess, StartPs, ScanPs, ReadPs, KillTail, KillParent, AwaitTmpLog,
           StartTail, RunEnded, ReadLine, ReadTimeout, StrayAlarm, CaptureDone, KillListener, Active,
           Running
  <1>3. ASSUME GrepSeen, errors' = {} PROVE Running("listener")' # {}
    <2>1. CASE OpenPcapProcess(l) \/ StartPs(l) \/ StartTail(l)
      <3> DEFINE p == NewPid
      <3>1. Unused(p)
        BY <2>1, ForkedTyped DEF Table
      <3>2. \E k : Fork(p, k, l)
        BY <2>1 DEF OpenPcapProcess, StartPs, StartTail
      <3> HIDE DEF p
      <3>3. l \in Running("listener")'
        BY <1>2, <3>1, <3>2 DEF Fork, Unused, Running, Table, TypeOK
      <3> QED
        BY <3>3
    <2>2. CASE ScanPs(l) \/ ReadPs(l) \/ AwaitTmpLog(l) \/ ReadTimeout(l) \/ CaptureDone(l)
      BY <1>2, <2>2, QuietEnds, ListenersKept DEF Table
    <2>3. CASE KillTail(l) \/ KillParent(l)
      <3>1. PICK p \in Pids, step \in {"killparent", "await"} :
              /\ p # l /\ KillPid(l, p, step) /\ at[l] \in Before
              /\ UNCHANGED <<dump, tail, writes>>
        <4>1. l \in Starting /\ at[l] \in {"killtail", "killparent"}
          BY <1>2, <2>3 DEF KillTail, KillParent, Active, Starting
        <4>2. /\ victims[l][1] \in Pids /\ victims[l][1] # l /\ victims[l][2] \in Pids
              /\ victims[l][2] # l /\ at[l] \in Before
          <5>1. kind[victims[l][1]] = "tail" /\ kind[l] = "listener" /\ l # Root
            BY <4>1, Targets DEF Table, Kin, RootRuns
          <5> QED
            BY <4>1, <5>1, Targets
        <4> QED
          BY <2>3, <4>2 DEF KillTail, KillParent, locals, files
      <3>2. ~(errors' = errors \cup {"ProcessLookupError"})
        BY <1>3
      <3>3. Ends({p} \ {Root})
        BY <1>2, <3>1, <3>2, KillEnds DEF Table, Later, Running
      <3> QED
        BY <1>2, <3>1, <3>3, ListenersKept
    <2>4. CASE RunEnded(l)
      <3>0. ~KillListener(l) /\ ~ReadLine(l)
        BY <2>4 DEF RunEnded, KillListener, ReadLine, Active
      <3>1. Ends({l})
        BY <2>4, <3>0, LoopEnds DEF Table
      <3>2. l \in Old /\ tail[l] \notin Running("tail")
        BY <1>2, <2>4 DEF RunEnded, Active, Old, Running, Waits
      <3>3. PICK k \in Starting : at[k] = "killparent"
        BY <1>3, <3>2 DEF Hunt, Newest
      <3>4. k \in Running("listener") /\ k # l
        BY <3>2 DEF Starting, Old, Waits
      <3> QED
        BY <3>1, <3>4, ListenersKept
    <2>5. CASE StrayAlarm(l)
      BY <1>3, <2>5 DEF StrayAlarm, Crash
    <2>6. CASE KillListener(l)
      <3>1. Ends({})
        BY <2>6, LoopEnds DEF Table, RunEnded, StrayAlarm, KillListener, ReadLine, Active
      <3> QED
        BY <1>2, <3>1, ListenersKept
    <2>7. CASE ReadLine(l)
      <3>1. UNCHANGED procs
        BY <1>3, <2>7 DEF ReadLine, GetLogFile, Crash
      <3> QED
        BY <1>2, <3>1 DEF procs, Running
    <2> QED
      BY <2>1, <2>2, <2>3, <2>4, <2>5, <2>6, <2>7 DEF ListenerStep
  <1> QED
    BY <1>1, <1>3, ServedKept

LEMMA ServedTcpdump ==
  ASSUME Table, Served, Alone, NEW d \in Pids, TcpdumpOpens(d) \/ TcpdumpWrites(d)
  PROVE  Served'
  <1>1. UNCHANGED <<kind, life, manager, logdirs, errors>>
    BY DEF TcpdumpOpens, TcpdumpWrites, procs, mgr
  <1>2. tmp' = tmp \/ (tmp = NoPid /\ tmp' = d)
    BY DEF TcpdumpOpens, TcpdumpWrites
  <1>3. d # NoPid
    BY RunsAssumption DEF Pids, NoPid
  <1>4. Seen'
    BY <1>1, <1>2, <1>3 DEF Served, Seen
  <1>5. Attended => Attended'
    BY <1>1 DEF Attended, Handling, Over, Running
  <1> QED
    BY <1>4, <1>5 DEF Served

LEMMA ServedOthers ==
  ASSUME Table, Captured, Hunt, Served, Alone, NEW p \in Pids, TcpdumpEnds(p) \/ TailEnds(p)
  PROVE  Served'
  <1>1. Ends({p}) /\ UNCHANGED <<manager, logdirs, tmp, errors>> /\ kind[p] # "listener"
    BY OthersEnd DEF Table, mgr
  <1>2. ASSUME NEW l \in Running("listener") PROVE Running("listener")' # {}
    BY <1>1, ListenersKept DEF Running
  <1> QED
    BY <1>1, <1>2, ServedKept

LEMMA ServedNext ==
  ASSUME Table, Inv, Captured, Hunt, Served, Next
  PROVE  Served'
  <1>1. CASE ~Alone'
    BY <1>1 DEF Served
  <1>2. CASE Alone'
    <2>1. Alone
      BY <1>2, Onward DEF Alone
    <2> QED
      BY <1>2, <2>1, ServedManager, ServedListener, ServedTcpdump, ServedOthers DEF Next
  <1> QED
    BY <1>1, <1>2

LEMMA ServedAlways == Spec => []Served
  <1>1. Init => Served
    BY DEF Init, Served, Seen, Attended, Over
  <1>2. ASSUME Served, UNCHANGED vars PROVE Served'
    BY <1>2 DEF vars, procs, mgr, files, Served, Seen, Attended, Alone, Handling, Over, Running
  <1> QED
    BY <1>1, <1>2, ServedNext, TableAlways, InvAlways, CapturedAlways, HuntAlways, PTL DEF Spec

(* As long as ps lists the grep of its own pipeline and no runs overlap,   *)
(* no listener is left besides one that waits for packets, and there is    *)
(* one, unless an exception has ended it.                                  *)
THEOREM OneListener ==
  ASSUME GrepSeen
  PROVE  Spec => []NewestOnly
  <1>1. ASSUME Table, Hunt, Served, up, overlap = "no" PROVE NewestOnly
    <2>1. Alone /\ Newest /\ Attended
      BY <1>1 DEF Alone, Hunt, Served
    <2>2. ASSUME NEW l \in Running("listener"), NEW m \in Running("listener"),
                 at[l] \in {"await", "tail", "loop"}
          PROVE  m >= l
      <3>1. l \in Nat /\ m \in Nat /\ at[m] # "none"
        <4>1. /\ l \in Pids /\ m \in Pids /\ kind[m] = "listener"
          BY DEF Running
        <4> QED
          BY <1>1, <4>1, RunsAssumption DEF Pids, Table, Kin, Unborn
      <3>2. m \in Starting \/ m \in Old
        BY <3>1 DEF Starting, Old, Waits
      <3>3. CASE at[l] = "loop"
        BY <2>1, <3>1, <3>2, <3>3 DEF Newest, Old, Waits
      <3>4. CASE at[l] # "loop"
        <4>1. l \in Starting /\ Old = {}
          BY <2>1, <2>2, <3>4 DEF Newest, Starting
        <4> QED
          BY <2>1, <3>1, <3>2, <4>1 DEF Newest
      <3> QED
        BY <3>3, <3>4
    <2>3. \/ SomeNotOver
          \/ \A m \in Runs : manager[m] = "none"
          \/ errors # {}
          \/ Running("listener") # {}
      BY <2>1 DEF SomeNotOver, Attended, Handling, Over
    <2> QED
      BY <2>2, <2>3 DEF NewestOnly
  <1>2. Table /\ Hunt /\ Served => NewestOnly
    BY <1>1 DEF NewestOnly
  <1> QED
    BY <1>2, TableAlways, HuntAlways, ServedAlways, PTL
=============================================================================
