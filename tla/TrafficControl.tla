-------------------------- MODULE TrafficControl --------------------------
(***************************************************************************)
(* tools/host/traffic_manager.py: one container configures the iptables    *)
(* and tc rules that make each port emulate its own delay and loss.        *)
(*                                                                         *)
(* One action is one command given to os.system, in the order of the code. *)
(* The kernel's tables are the state; clients send packets at any time, so *)
(* the table properties are stated of every intermediate state.            *)
(***************************************************************************)
EXTENDS Integers, Sequences, FiniteSets

CONSTANTS
  Groups,        \* server.json "ports", flattened: Seq of [proto, default, ports]
  Rules,         \* network_emulation.json, flattened as the two nested loops of
                 \* configure() do: Seq of [delay (ms), loss, ports (a sequence)]
  NoPort,        \* the key "null" of a group without a default port
  Hosts,         \* addresses the services host name may resolve to
  WithServices, WithFiltering,  \* the SERVICES and FILTER environment variables
  Live,          \* configure may be run again in a live network namespace
  MayFail,       \* the commands whose failure the code ignores and that may fail
  MaxRuns, MaxFaults            \* bounds on runs of configure, and on failures

Protocols == {"tcp", "udp"}
Dirs      == {"dport", "sport"}
RuleIds   == 1..Len(Rules)
PortsOf(c) == {Rules[c].ports[i] : i \in 1..Len(Rules[c].ports)}
Ports     == UNION {PortsOf(c) : c \in RuleIds}
Ignorable == {"snat", "clear", "sport"}

ASSUME ConfigAssumption ==
  /\ WithServices \in BOOLEAN /\ WithFiltering \in BOOLEAN /\ Live \in BOOLEAN
  /\ MaxRuns \in Nat /\ MaxFaults \in Nat
  /\ MayFail \subseteq Ignorable
  /\ Hosts # {}

ASSUME GroupsAssumption ==
  /\ Groups \in Seq([proto : Protocols, default : Int \cup {NoPort}, ports : SUBSET Int])
  /\ Len(Groups) > 0

ASSUME RulesAssumption ==
  /\ Rules \in Seq([delay : Nat, loss : Nat, ports : Seq(Int)])
  /\ Len(Rules) > 0
  /\ \A c \in RuleIds : Len(Rules[c].ports) > 0
  /\ \A c, d \in RuleIds : c # d => PortsOf(c) \cap PortsOf(d) = {}

VARIABLES
  pc,        \* the command that is run next, or how the last run ended
  g, r, p,   \* loop positions: port group, self.index, port of the rule
  host,      \* the local "host" of configure(), a set of at most one address
  runs, faults,   \* runs of configure so far, failures so far (bounds)
  disturbed, \* history: a command failed in the current run
  addr,      \* the address the services host name resolves to now
  \* the network namespace of the container:
  snat,      \* POSTROUTING SNAT is present
  accepted,  \* INPUT ACCEPT: set of <<protocol, port>>
  nat,       \* PREROUTING, the rule that decides: set of <<protocol, port, target>>
  drops,     \* mangle DROP rules per <<protocol, port>>
  root,      \* the htb root qdisc is present
  classes,   \* htb classes
  filters,   \* u32 filters: set of <<class, direction, port>>
  netem      \* netem qdiscs: set of <<class, delay, loss>>, delay in half ms

script == <<g, r, p, host>>
ipt    == <<snat, accepted, nat>>
tree   == <<root, classes, filters, netem>>
bounds == <<runs, faults, disturbed>>
vars   == <<pc, script, bounds, addr, ipt, drops, tree>>

Commands == {"resolve", "snat", "accept", "redirect", "tables", "clear", "create",
             "class", "dport", "sport", "netem", "droptcp", "dropudp", "show"}
Ended    == {"idle", "ok", "failed", "cleared"}

Chains == Protocols \X Ports
NoDrops == [ch \in Chains |-> 0]

(* Steps of the loops. *)
Rule == Rules[r]
Port == Rule.ports[p]
LastPort == p = Len(Rule.ports)
(* Mutant: the loop over the rules ends one late. *)
LastRuleLate == r > Len(Rules)
LastRule == r = Len(Rules)
Group == Groups[g]
(* Mutant: the default port is not appended. *)
PortSetWithoutDefault == Group.ports
(* port_set.append(default_port) *)
PortSet == Group.ports \cup (IF Group.default = NoPort THEN {} ELSE {Group.default})

(* What add_ip_tables redirects the group to: the default port, or the host. *)
Targets == IF host # {} THEN host ELSE {Group.default} \ {NoPort}

(* Mutant: the delay is never halved. *)
NetemDelayWhole == 2 * Rule.delay
(* Delay given to netem, in half milliseconds so that the halving is exact. *)
NetemDelay == IF WithServices THEN 2 * Rule.delay ELSE Rule.delay

EmptyTree == root = FALSE /\ classes = {} /\ filters = {} /\ netem = {}

Init == /\ pc = "idle" /\ g = 1 /\ r = 1 /\ p = 1 /\ host = {}
        /\ runs = 0 /\ faults = 0 /\ disturbed = FALSE
        /\ addr \in Hosts
        /\ snat = FALSE /\ accepted = {} /\ nat = {} /\ drops = NoDrops
        /\ EmptyTree

(***************************************************************************)
(* The run of configure().                                                 *)
(***************************************************************************)
MayStart == pc = "idle" \/ (Live /\ pc \in Ended)

Start == /\ MayStart
         /\ runs < MaxRuns
         /\ pc' = IF WithServices THEN "accept" ELSE "resolve"
         /\ g' = 1 /\ r' = 1 /\ p' = 1 /\ host' = {}
         /\ runs' = runs + 1 /\ disturbed' = FALSE
         /\ UNCHANGED <<faults, addr, ipt, drops, tree>>

Resolve == /\ pc = "resolve"
           /\ host' = {addr}
           /\ pc' = "snat"
           /\ UNCHANGED <<g, r, p, bounds, addr, ipt, drops, tree>>

(* The result of the SNAT command is not looked at. *)
Snat == /\ pc = "snat"
        /\ pc' = "accept"
        /\ snat' = TRUE
        /\ UNCHANGED <<script, bounds, addr, accepted, nat, drops, tree>>

NextGroup == /\ pc' = IF g < Len(Groups) THEN "accept" ELSE "tables"
             /\ g' = IF g < Len(Groups) THEN g + 1 ELSE g

Accept == /\ pc = "accept"
          /\ accepted' = accepted \cup ({Group.proto} \X PortSet)
          /\ IF Targets = {} THEN NextGroup ELSE pc' = "redirect" /\ g' = g
          /\ UNCHANGED <<r, p, host, bounds, addr, snat, nat, drops, tree>>

(* Mutant: -A instead of -I, so that the oldest rule decides. *)
RedirectAppends ==
  /\ pc = "redirect"
  /\ nat' = nat \cup {x \in {Group.proto} \X PortSet \X Targets :
                         ~\E y \in nat : y[1] = x[1] /\ y[2] = x[2]}
  /\ NextGroup
  /\ UNCHANGED <<r, p, host, bounds, addr, snat, accepted, drops, tree>>

(* -I puts the rule in front: it decides for its ports from now on. *)
Redirect ==
  /\ pc = "redirect"
  /\ nat' = {x \in nat : ~(x[1] = Group.proto /\ x[2] \in PortSet)}
              \cup ({Group.proto} \X PortSet \X Targets)
  /\ NextGroup
  /\ UNCHANGED <<r, p, host, bounds, addr, snat, accepted, drops, tree>>

ShowTables == /\ pc = "tables"
              /\ pc' = IF WithFiltering THEN "clear" ELSE "show"
              /\ UNCHANGED <<script, bounds, addr, ipt, drops, tree>>

(* Deleting the root qdisc takes classes, filters and netem with it. *)
DropTree == root' = FALSE /\ classes' = {} /\ filters' = {} /\ netem' = {}

(* Mutant: configure() does not call clear_htb(). *)
ClearHtbSkipped == /\ pc = "clear"
                   /\ pc' = "create"
                   /\ UNCHANGED <<script, bounds, addr, ipt, drops, tree>>

ClearHtb == /\ pc = "clear"
            /\ pc' = "create"
            /\ DropTree
            /\ UNCHANGED <<script, bounds, addr, ipt, drops>>

(* "qdisc add ... root" is refused while there is a root qdisc. *)
CreateHtb == /\ pc = "create"
             /\ pc' = IF root THEN "failed" ELSE "class"
             /\ root' = TRUE
             /\ UNCHANGED <<script, bounds, addr, ipt, drops, classes, filters, netem>>

CreateClass == /\ pc = "class"
               /\ classes' = classes \cup {r}
               /\ pc' = "dport" /\ p' = 1
               /\ UNCHANGED <<g, r, host, bounds, addr, ipt, drops, root, filters, netem>>

(* Mutant: self.index is not advanced for the filters. *)
AddFilterFirstClass(dir) == filters' = filters \cup {<<1, dir, Port>>}

AddFilter(dir) == filters' = filters \cup {<<r, dir, Port>>}

AddDport == /\ pc = "dport"
            /\ AddFilter("dport")
            /\ pc' = "sport"
            /\ UNCHANGED <<script, bounds, addr, ipt, drops, root, classes, netem>>

(* Mutant: add_egress_rule leaves its loop after the first port. *)
NextPortFirstOnly == pc' = "netem" /\ p' = p

NextPort == /\ pc' = IF LastPort THEN "netem" ELSE "dport"
            /\ p' = IF LastPort THEN p ELSE p + 1

AddSport == /\ pc = "sport"
            /\ AddFilter("sport")
            /\ NextPort
            /\ UNCHANGED <<g, r, host, bounds, addr, ipt, drops, root, classes, netem>>

NextRule == /\ pc' = IF LastRule THEN "show" ELSE "class"
            /\ r' = IF LastRule THEN r ELSE r + 1
            /\ p' = 1

AddNetem == /\ pc = "netem"
            /\ netem' = netem \cup {<<r, NetemDelay, Rule.loss>>}
            /\ IF WithServices THEN pc' = "droptcp" /\ p' = 1 /\ r' = r ELSE NextRule
            /\ UNCHANGED <<g, host, bounds, addr, ipt, drops, root, classes, filters>>

(* Mutant: _add_ip_packet_rule ignores its protocol. *)
AddDropTcpOnly(proto) == drops' = [drops EXCEPT ![<<"tcp", Port>>] = @ + 1]

(* -A: a further DROP rule, which every packet goes through as well. *)
AddDrop(proto) == drops' = [drops EXCEPT ![<<proto, Port>>] = @ + 1]

DropTcp == /\ pc = "droptcp"
           /\ AddDrop("tcp")
           /\ pc' = "dropudp"
           /\ UNCHANGED <<script, bounds, addr, ipt, tree>>

DropUdp == /\ pc = "dropudp"
           /\ AddDrop("udp")
           /\ IF LastPort THEN NextRule ELSE pc' = "droptcp" /\ p' = p + 1 /\ r' = r
           /\ UNCHANGED <<g, host, bounds, addr, ipt, tree>>

ShowRules == /\ pc = "show"
             /\ pc' = "ok"
             /\ UNCHANGED <<script, bounds, addr, ipt, drops, tree>>

Step == \/ Resolve \/ Snat \/ Accept \/ Redirect \/ ShowTables \/ ClearHtb
        \/ CreateHtb \/ CreateClass \/ AddDport \/ AddSport \/ AddNetem
        \/ DropTcp \/ DropUdp \/ ShowRules

(***************************************************************************)
(* Failures and the environment.                                           *)
(***************************************************************************)
Fault == /\ faults < MaxFaults
         /\ faults' = faults + 1
         /\ disturbed' = TRUE
         /\ UNCHANGED <<runs, addr, ipt, drops, tree>>

(* Mutant: configure_server_rules returns True from its except clause. *)
GiveUpAnnounced == /\ Fault
                   /\ pc \in Commands \ Ignorable
                   /\ pc' = "ok"
                   /\ UNCHANGED script

(* A command whose result is checked fails, or the process is killed: the  *)
(* rest of the run is given up and what was done stays in the kernel.      *)
GiveUp == /\ Fault
          /\ pc \in Commands \ Ignorable
          /\ pc' = "failed"
          /\ UNCHANGED script

(* A command whose result is ignored fails: the run goes on without it.    *)
IgnoredFailure ==
  /\ Fault
  /\ pc \in MayFail
  /\ CASE pc = "snat"  -> pc' = "accept" /\ p' = p
       [] pc = "clear" -> pc' = "create" /\ p' = p
       [] pc = "sport" -> NextPort
  /\ UNCHANGED <<g, r, host>>

(* The container is stopped and started: its network namespace is new.     *)
ContainerRestart ==
  /\ pc # "idle"
  /\ runs < MaxRuns
  /\ pc' = "idle"
  /\ snat' = FALSE /\ accepted' = {} /\ nat' = {} /\ drops' = NoDrops
  /\ DropTree
  /\ UNCHANGED <<script, bounds, addr>>

(* clear_rules() *)
ClearRules == /\ Live /\ pc \in {"ok", "failed"}
              /\ pc' = "cleared"
              /\ DropTree
              /\ UNCHANGED <<script, bounds, addr, ipt, drops>>

(* The services container is started again under another address. *)
Readdress == /\ ~WithServices
             /\ \E h \in Hosts \ {addr} : addr' = h
             /\ UNCHANGED <<pc, script, bounds, ipt, drops, tree>>

Next == \/ Start \/ Step \/ GiveUp \/ IgnoredFailure \/ ContainerRestart
        \/ ClearRules \/ Readdress

Spec == Init /\ [][Next]_vars

-----------------------------------------------------------------------------
(***************************************************************************)
(* Properties.                                                             *)
(***************************************************************************)

(* Every table only holds what the commands of the script can put there.   *)
TypeOK ==
  /\ pc \in Commands \cup Ended
  /\ g \in 1..Len(Groups) /\ r \in RuleIds /\ p \in 1..Len(Rule.ports)
  /\ host \in SUBSET Hosts /\ addr \in Hosts
  /\ runs \in Nat /\ faults \in Nat /\ disturbed \in BOOLEAN
  /\ snat \in BOOLEAN /\ root \in BOOLEAN
  /\ accepted \subseteq Protocols \X (Int \cup {NoPort})
  /\ nat \subseteq Protocols \X (Int \cup {NoPort}) \X (Int \cup {NoPort} \cup Hosts)
  /\ drops \in [Chains -> Nat]
  /\ classes \subseteq RuleIds
  /\ filters \subseteq RuleIds \X Dirs \X Ports
  /\ netem \subseteq RuleIds \X Nat \X Nat

(* What happens to a packet on the way out: dport filters catch requests   *)
(* forwarded to the services, sport filters catch replies.                 *)
Treatments(port, dir) ==
  {<<x[2], x[3]>> : x \in {n \in netem : <<n[1], dir, port>> \in filters}}

Owner(port) == CHOOSE c \in RuleIds : port \in PortsOf(c)

(* The condition each lane of a port is to undergo on egress. *)
Condition(port) ==
  <<IF WithServices THEN 2 * Rules[Owner(port)].delay ELSE Rules[Owner(port)].delay,
    Rules[Owner(port)].loss>>

(* At no moment, in the middle of a run, after a failed one or between two *)
(* runs, does a port undergo the condition of another rule: self.index     *)
(* used as class, flowid and netem parent always means the same rule.      *)
NeverMisclassified ==
  \A x \in netem, port \in Ports, dir \in Dirs :
    <<x[1], dir, port>> \in filters =>
      /\ port \in PortsOf(x[1])
      /\ <<x[2], x[3]>> = Condition(port)

(* configure() reported success only if every port is shaped both ways. *)
EmulationExact ==
  (pc = "ok" /\ WithFiltering) =>
    \A port \in Ports, dir \in Dirs : Treatments(port, dir) = {Condition(port)}

(* n DROP rules in a row lose more than one does; n * loss stands for the  *)
(* joint probability, it equals loss just when n = 1 or nothing is lost.   *)
RequestEffect(proto, port, loss) ==
  IF WithServices
    THEN IF drops[<<proto, port>>] = 0 THEN {} ELSE {<<0, drops[<<proto, port>>] * loss>>}
    ELSE Treatments(port, "dport")

(* A device that talks to a configured port sees, over a request and its   *)
(* reply, the delay of network_emulation.json once in total and the loss   *)
(* once in each direction, with local services (ingress DROP and egress    *)
(* netem) as well as with remote ones (the forwarded packet passes netem   *)
(* on both ways, which is why the delay is halved).                        *)
RoundTripExact ==
  (pc = "ok" /\ WithFiltering) =>
    \A c \in RuleIds, proto \in Protocols : \A port \in PortsOf(c) :
      LET request == RequestEffect(proto, port, Rules[c].loss)
          reply   == Treatments(port, "sport")
      IN  /\ request # {} /\ reply # {}
          /\ \A q \in request, a \in reply :
               /\ q[1] + a[1] = 2 * Rules[c].delay
               /\ q[2] = Rules[c].loss /\ a[2] = Rules[c].loss

TargetsOf(proto, port) == {x[3] : x \in {y \in nat : y[1] = proto /\ y[2] = port}}

(* As soon as anything is shaped, and even while a later run replaces the  *)
(* redirections one by one, each emulated port has exactly one place to go *)
(* to: with local services its default port, or itself in a "null" group,  *)
(* and INPUT accepts that port; with remote ones one address of the host.  *)
ReachesService ==
  filters # {} \/ pc = "ok" =>
    \A i \in 1..Len(Groups) : \A port \in Groups[i].ports :
      LET target == TargetsOf(Groups[i].proto, port)
          dest   == IF target = {} THEN {port} ELSE target
      IN  IF WithServices
            THEN /\ dest = {IF Groups[i].default = NoPort THEN port ELSE Groups[i].default}
                 /\ ({Groups[i].proto} \X dest) \subseteq accepted
            ELSE \E h \in Hosts : target = {h}

(* After a successful run all redirections lead to the address that run    *)
(* resolved, whatever earlier runs left in PREROUTING.                     *)
NewestHostWins ==
  (pc = "ok" /\ ~WithServices) =>
    \A i \in 1..Len(Groups) : \A port \in Groups[i].ports :
      TargetsOf(Groups[i].proto, port) = host

(* What a failed or killed run leaves behind never makes the next one fail:*)
(* a run only fails if something fails during that very run.               *)
RetryStartsClean == pc = "failed" => disturbed

(* The commands implement the promise of module Emulation. *)
Lanes == Ports \X Dirs

Promise == INSTANCE Emulation WITH
  Lanes     <- Lanes,
  Wanted    <- [l \in Lanes |-> Condition(l[1])],
  shaped    <- [l \in Lanes |-> Treatments(l[1], l[2])],
  announced <- (pc = "ok" /\ WithFiltering)

EmulationPromise == Promise!Spec

(* _add_port_filter, traffic_manager.py:133-147: "Add filter to class to   *)
(* catch packets on port", "failed to add filter.": success means that the *)
(* packets of the port are caught in both directions.                      *)
AnnouncedMeansFiltered ==
  (pc = "ok" /\ WithFiltering) =>
    \A c \in RuleIds : \A port \in PortsOf(c), dir \in Dirs : <<c, dir, port>> \in filters
=============================================================================
