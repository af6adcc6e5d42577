----------------------- MODULE TrafficControlProofs -----------------------
(***************************************************************************)
(* Proofs about TrafficControl, for every configuration that satisfies the *)
(* assumptions of that module and any number of runs and failures.         *)
(***************************************************************************)
EXTENDS TrafficControl, TLAPS

(* The positions of the loops always denote a group, a rule and a port.    *)
Positions == /\ g \in 1..Len(Groups)
             /\ r \in RuleIds
             /\ p \in 1..Len(Rules[r].ports)

(* What a rule puts into netem. *)
RuleDelay(c) == IF WithServices THEN 2 * Rules[c].delay ELSE Rules[c].delay

FilterOwned == \A f \in filters : /\ f[1] \in RuleIds /\ f[2] \in Dirs
                                  /\ f[3] \in PortsOf(f[1])
                                  /\ f = <<f[1], f[2], f[3]>>
NetemOwned  == \A x \in netem : /\ x[1] \in RuleIds
                                /\ x = <<x[1], RuleDelay(x[1]), Rules[x[1]].loss>>

(* The inductive invariant behind NeverMisclassified. *)
Ownership == Positions /\ FilterOwned /\ NetemOwned

(* The rules of the configuration, unpacked for the provers. *)
LEMMA RuleShape ==
  ASSUME NEW c \in RuleIds
  PROVE  /\ Rules[c].delay \in Nat /\ Rules[c].loss \in Nat
         /\ Rules[c].ports \in Seq(Int)
         /\ Len(Rules[c].ports) \in Nat \ {0}
         /\ \A i \in 1..Len(Rules[c].ports) : Rules[c].ports[i] \in PortsOf(c)
  <1> DEFINE S == [delay : Nat, loss : Nat, ports : Seq(Int)]
  <1>0. Rules \in Seq(S)
    BY RulesAssumption
  <1>1. Rules[c] \in S
    <2> HIDE DEF S
    <2> QED BY <1>0 DEF RuleIds
  <1>2. Len(Rules[c].ports) > 0
    BY RulesAssumption
  <1>3. \A i \in 1..Len(Rules[c].ports) : Rules[c].ports[i] \in PortsOf(c)
    BY DEF PortsOf
  <1> QED
    BY <1>1, <1>2, <1>3

LEMMA FirstRule == 1 \in RuleIds /\ Len(Rules) \in Nat /\ 1 \in 1..Len(Groups) /\ Len(Groups) \in Nat
  BY RulesAssumption, GroupsAssumption DEF RuleIds

(* A port belongs to one rule. *)
LEMMA OwnerUnique ==
  ASSUME NEW c \in RuleIds, NEW port \in PortsOf(c)
  PROVE  Owner(port) = c /\ port \in Ports
  BY RulesAssumption DEF Owner, Ports

(* The loop positions stay within the configuration. *)
LEMMA PositionsInductive ==
  ASSUME Positions, [Next]_vars
  PROVE  Positions'
  <1> USE FirstRule DEF Positions
  <1> DEFINE LenOk == \A c \in RuleIds : Len(Rules[c].ports) \in Nat \ {0}
  <1>0. LenOk
    BY RuleShape
  <1> HIDE DEF LenOk
  <1>1. CASE Start
    BY <1>0, <1>1 DEF Start, LenOk
  <1>2. CASE Accept \/ Redirect
    BY <1>2 DEF Accept, Redirect, NextGroup
  <1>3. CASE CreateClass
    BY <1>0, <1>3 DEF CreateClass, LenOk
  <1>4. CASE AddDport
    BY <1>4 DEF AddDport, script
  <1>5. CASE AddSport
    BY <1>0, <1>5 DEF AddSport, NextPort, LastPort, Rule, LenOk
  <1>6. CASE AddNetem
    BY <1>0, <1>6 DEF AddNetem, NextRule, LastRule, LenOk, RuleIds
  <1>7. CASE DropUdp
    BY <1>0, <1>7 DEF DropUdp, NextRule, LastRule, LastPort, Rule, LenOk, RuleIds
  <1>8. CASE IgnoredFailure
    <2>1. g' = g /\ r' = r /\ (p' = p \/ (p # Len(Rules[r].ports) /\ p' = p + 1))
      BY <1>8, ConfigAssumption DEF IgnoredFailure, Ignorable, NextPort, LastPort, Rule
    <2> QED
      BY <1>0, <2>1 DEF LenOk
  <1>9. CASE Resolve \/ Snat \/ ShowTables \/ ClearHtb \/ CreateHtb \/ DropTcp \/ ShowRules
             \/ GiveUp \/ ContainerRestart \/ ClearRules \/ Readdress \/ UNCHANGED vars
    BY <1>9 DEF Resolve, Snat, ShowTables, ClearHtb, CreateHtb, DropTcp, ShowRules,
                GiveUp, ContainerRestart, ClearRules, Readdress, vars, script
  <1> QED
    BY <1>1, <1>2, <1>3, <1>4, <1>5, <1>6, <1>7, <1>8, <1>9 DEF Next, Step

(* Steps that leave the queueing tree alone, or drop it as a whole.        *)
TreeKept == UNCHANGED tree
TreeGone == DropTree

(* Only four actions put anything into the tree. *)
LEMMA TreeSteps ==
  ASSUME [Next]_vars
  PROVE  \/ TreeKept \/ TreeGone \/ CreateHtb \/ CreateClass
         \/ AddDport \/ AddSport \/ AddNetem
  BY DEF Next, Step, vars, TreeKept, TreeGone, Start, Resolve, Snat, Accept, Redirect,
         ShowTables, ClearHtb, DropTcp, DropUdp, ShowRules, GiveUp, Fault,
         IgnoredFailure, ContainerRestart, ClearRules, Readdress

LEMMA OwnershipInductive ==
  ASSUME Ownership, [Next]_vars
  PROVE  Ownership'
  <1>1. Positions'
    BY PositionsInductive DEF Ownership
  <1>2. CASE TreeKept
    BY <1>1, <1>2 DEF Ownership, TreeKept, tree, FilterOwned, NetemOwned
  <1>3. CASE TreeGone
    BY <1>1, <1>3 DEF Ownership, TreeGone, DropTree, FilterOwned, NetemOwned
  <1>4. CASE CreateHtb \/ CreateClass
    BY <1>1, <1>4 DEF Ownership, CreateHtb, CreateClass, FilterOwned, NetemOwned
  <1>5. Port \in PortsOf(r)
    BY RuleShape DEF Ownership, Positions, Port, Rule
  <1>6. CASE AddDport \/ AddSport
    BY <1>1, <1>5, <1>6 DEF Ownership, Positions, AddDport, AddSport, AddFilter, Dirs,
                            FilterOwned, NetemOwned
  <1>7. CASE AddNetem
    BY <1>1, <1>7 DEF Ownership, Positions, AddNetem, NetemDelay, RuleDelay, Rule,
                      FilterOwned, NetemOwned
  <1> QED
    BY <1>2, <1>3, <1>4, <1>6, <1>7, TreeSteps

LEMMA OwnershipImplies ==
  ASSUME Ownership
  PROVE  NeverMisclassified
  <1> SUFFICES ASSUME NEW x \in netem, NEW port \in Ports, NEW dir \in Dirs,
                      <<x[1], dir, port>> \in filters
               PROVE  port \in PortsOf(x[1]) /\ <<x[2], x[3]>> = Condition(port)
    BY DEF NeverMisclassified
  <1>1. x[1] \in RuleIds /\ port \in PortsOf(x[1])
    BY DEF Ownership, FilterOwned
  <1>2. Owner(port) = x[1]
    BY <1>1, OwnerUnique
  <1>3. x[2] = RuleDelay(x[1]) /\ x[3] = Rules[x[1]].loss
    BY DEF Ownership, NetemOwned
  <1> QED
    BY <1>1, <1>2, <1>3 DEF Condition, RuleDelay

LEMMA OwnershipInit == Init => Ownership
  BY FirstRule, RuleShape DEF Init, EmptyTree, Ownership, Positions, FilterOwned, NetemOwned

LEMMA OwnershipAlways == Spec => []Ownership
  BY OwnershipInit, OwnershipInductive, PTL DEF Spec

(* No port ever undergoes the condition of another rule, whatever fails    *)
(* and however often configure is run again.                               *)
THEOREM Classification == Spec => []NeverMisclassified
  BY OwnershipAlways, OwnershipImplies, PTL

-----------------------------------------------------------------------------
(* Type correctness. *)

LEMMA GroupShape ==
  ASSUME NEW i \in 1..Len(Groups)
  PROVE  /\ Groups[i].proto \in Protocols
         /\ Groups[i].default \in Int \cup {NoPort}
         /\ Groups[i].ports \in SUBSET Int
  <1> DEFINE S == [proto : Protocols, default : Int \cup {NoPort}, ports : SUBSET Int]
  <1>1. Groups \in Seq(S)
    BY GroupsAssumption
  <1>2. Groups[i] \in S
    <2> HIDE DEF S
    <2> QED BY <1>1
  <1> QED
    BY <1>2

(* The part of TypeOK about the script and the iptables. *)
ScriptTyped == /\ pc \in Commands \cup Ended
               /\ host \in SUBSET Hosts /\ addr \in Hosts
               /\ runs \in Nat /\ faults \in Nat /\ disturbed \in BOOLEAN
TablesTyped == /\ snat \in BOOLEAN
               /\ accepted \subseteq Protocols \X (Int \cup {NoPort})
               /\ nat \subseteq Protocols \X (Int \cup {NoPort}) \X (Int \cup {NoPort} \cup Hosts)
               /\ drops \in [Chains -> Nat]
TreeTyped == /\ root \in BOOLEAN
             /\ classes \subseteq RuleIds

LEMMA ScriptTypedInductive ==
  ASSUME ScriptTyped, [Next]_vars
  PROVE  ScriptTyped'
  <1> USE ConfigAssumption DEF ScriptTyped, Commands, Ended
  <1>1. CASE Start
    <2>1. /\ pc' \in {"accept", "resolve"} /\ host' = {} /\ disturbed' = FALSE
          /\ runs' = runs + 1 /\ UNCHANGED <<addr, faults>>
      BY <1>1 DEF Start
    <2>2. runs' \in Nat
      BY <2>1
    <2>3. disturbed' \in BOOLEAN
      BY <2>1
    <2>4. host' \in SUBSET Hosts /\ addr' \in Hosts /\ faults' \in Nat
      BY <2>1
    <2> QED
      BY <2>1, <2>2, <2>3, <2>4
  <1>2. CASE Resolve
    <2>1. pc' = "snat" /\ host' = {addr} /\ UNCHANGED <<addr, runs, faults, disturbed>>
      BY <1>2 DEF Resolve, bounds
    <2> QED
      BY <2>1
  <1>3. CASE Snat \/ Accept \/ Redirect \/ ShowTables \/ ClearHtb \/ CreateHtb \/ CreateClass
    BY <1>3 DEF Snat, Accept, Redirect, ShowTables, ClearHtb, CreateHtb, CreateClass,
                NextGroup, bounds, script
  <1>4. CASE AddDport \/ AddSport \/ AddNetem \/ DropTcp \/ DropUdp \/ ShowRules
    BY <1>4 DEF AddDport, AddSport, AddNetem, DropTcp, DropUdp, ShowRules,
                NextPort, NextRule, bounds, script
  <1>5. CASE GiveUp
    BY <1>5 DEF GiveUp, Fault, script
  <1>6. CASE IgnoredFailure
    <2>1. pc' \in {"accept", "create", "netem", "dport"}
      BY <1>6 DEF IgnoredFailure, Ignorable, NextPort
    <2>2. host' = host /\ addr' = addr /\ runs' = runs
      BY <1>6 DEF IgnoredFailure, Fault
    <2>3. faults' \in Nat /\ disturbed' \in BOOLEAN
      BY <1>6 DEF IgnoredFailure, Fault
    <2> QED
      BY <2>1, <2>2, <2>3
  <1>7. CASE ContainerRestart \/ ClearRules \/ Readdress \/ UNCHANGED vars
    BY <1>7 DEF ContainerRestart, ClearRules, Readdress, vars, bounds, script
  <1> QED
    BY <1>1, <1>2, <1>3, <1>4, <1>5, <1>6, <1>7 DEF Next, Step

LEMMA TablesTypedInductive ==
  ASSUME TablesTyped, Positions, ScriptTyped, [Next]_vars
  PROVE  TablesTyped'
  <1>1. /\ Group.proto \in Protocols
        /\ PortSet \subseteq Int \cup {NoPort}
        /\ Targets \subseteq Int \cup {NoPort} \cup Hosts
    BY GroupShape DEF Positions, ScriptTyped, Group, PortSet, Targets
  <1>2. \A proto \in Protocols : <<proto, Port>> \in Chains
    BY RuleShape DEF Positions, Chains, Port, Rule, Ports
  <1>3. NoDrops \in [Chains -> Nat]
    BY DEF NoDrops
  <1>4. CASE Accept
    <2>1. accepted' \subseteq Protocols \X (Int \cup {NoPort})
      BY <1>1, <1>4 DEF Accept, TablesTyped
    <2> QED
      BY <1>4, <2>1 DEF Accept, TablesTyped
  <1>5. CASE Redirect
    <2>1. nat' \subseteq Protocols \X (Int \cup {NoPort}) \X (Int \cup {NoPort} \cup Hosts)
      BY <1>1, <1>5 DEF Redirect, TablesTyped
    <2> QED
      BY <1>5, <2>1 DEF Redirect, TablesTyped
  <1>6. CASE Snat
    BY <1>6 DEF Snat, TablesTyped
  <1>7. CASE DropTcp \/ DropUdp
    <2>1. drops' \in [Chains -> Nat]
      BY <1>2, <1>7 DEF DropTcp, DropUdp, AddDrop, TablesTyped, Protocols
    <2> QED
      BY <1>7, <2>1 DEF DropTcp, DropUdp, TablesTyped, ipt
  <1>8. CASE ContainerRestart
    BY <1>3, <1>8 DEF ContainerRestart, TablesTyped
  <1>9. CASE UNCHANGED <<ipt, drops>>
    BY <1>9 DEF ipt, TablesTyped
  <1> QED
    BY <1>4, <1>5, <1>6, <1>7, <1>8, <1>9
    DEF Next, Step, Start, Resolve, ShowTables, ClearHtb, CreateHtb, CreateClass, AddDport,
        AddSport, AddNetem, ShowRules, GiveUp, IgnoredFailure, Fault, ClearRules, Readdress, vars

LEMMA TreeTypedInductive ==
  ASSUME TreeTyped, Positions, [Next]_vars
  PROVE  TreeTyped'
  BY TreeSteps DEF TreeTyped, Positions, TreeKept, TreeGone, DropTree, CreateHtb, CreateClass,
                   AddDport, AddSport, AddNetem, tree

Typed == Ownership /\ ScriptTyped /\ TablesTyped /\ TreeTyped

LEMMA TypedImplies ==
  ASSUME Typed
  PROVE  TypeOK
  <1>1. filters \subseteq RuleIds \X Dirs \X Ports
    BY OwnerUnique DEF Typed, Ownership, FilterOwned
  <1>2. netem \subseteq RuleIds \X Nat \X Nat
    <2> SUFFICES ASSUME NEW x \in netem PROVE x \in RuleIds \X Nat \X Nat
      OBVIOUS
    <2>1. x[1] \in RuleIds /\ x = <<x[1], RuleDelay(x[1]), Rules[x[1]].loss>>
      BY DEF Typed, Ownership, NetemOwned
    <2>2. RuleDelay(x[1]) \in Nat /\ Rules[x[1]].loss \in Nat
      BY <2>1, RuleShape DEF RuleDelay
    <2> QED
      BY <2>1, <2>2
  <1> QED
    BY <1>1, <1>2 DEF Typed, Ownership, Positions, ScriptTyped, TablesTyped, TreeTyped, TypeOK, Rule

LEMMA TypedInit == Init => Typed
  <1> SUFFICES ASSUME Init PROVE Typed
    OBVIOUS
  <1>1. NoDrops \in [Chains -> Nat]
    BY DEF NoDrops
  <1> QED
    BY <1>1, OwnershipInit DEF Init, EmptyTree, Typed, ScriptTyped, TablesTyped, TreeTyped, Ended

LEMMA TypedAlways == Spec => []Typed
  <1>1. Typed /\ [Next]_vars => Typed'
    BY OwnershipInductive, ScriptTypedInductive, TablesTypedInductive, TreeTypedInductive
       DEF Typed, Ownership
  <1> QED
    BY <1>1, TypedInit, PTL DEF Spec

(* The tables only ever hold what the commands can put there. *)
THEOREM TypeCorrect == Spec => []TypeOK
  BY TypedAlways, TypedImplies, PTL

-----------------------------------------------------------------------------
(* A failed run leaves nothing that makes the next run fail. *)

(* "qdisc add" meets an old root only if deleting it failed in this run.   *)
CleanStart == /\ pc = "create" /\ root => disturbed
              /\ pc = "failed" => disturbed

LEMMA CleanStartInductive ==
  ASSUME CleanStart, [Next]_vars
  PROVE  CleanStart'
  <1> USE DEF CleanStart
  <1>1. CASE Start \/ Resolve \/ Snat \/ Accept \/ Redirect \/ ShowTables
    BY <1>1 DEF Start, Resolve, Snat, Accept, Redirect, ShowTables, NextGroup
  <1>2. CASE ClearHtb
    BY <1>2 DEF ClearHtb, DropTree
  <1>3. CASE CreateHtb
    BY <1>3 DEF CreateHtb, bounds
  <1>4. CASE CreateClass \/ AddDport \/ AddSport \/ AddNetem \/ DropTcp \/ DropUdp \/ ShowRules
    BY <1>4 DEF CreateClass, AddDport, AddSport, AddNetem, DropTcp, DropUdp, ShowRules,
                NextPort, NextRule
  <1>5. CASE GiveUp \/ IgnoredFailure
    BY <1>5 DEF GiveUp, IgnoredFailure, Fault
  <1>6. CASE ContainerRestart \/ ClearRules \/ Readdress \/ UNCHANGED vars
    BY <1>6 DEF ContainerRestart, ClearRules, Readdress, vars, bounds, tree
  <1> QED
    BY <1>1, <1>2, <1>3, <1>4, <1>5, <1>6 DEF Next, Step

(* A run fails only if something fails during that run: clear_htb before   *)
(* _create_htb makes configure repeatable after a half-done run.           *)
THEOREM RetryCorrect == Spec => []RetryStartsClean
  <1>1. Init => CleanStart
    BY DEF Init, CleanStart
  <1>2. CleanStart => RetryStartsClean
    BY DEF CleanStart, RetryStartsClean
  <1> QED
    BY <1>1, <1>2, CleanStartInductive, PTL DEF Spec

-----------------------------------------------------------------------------
(***************************************************************************)
(* What success means, when no sport filter fails unnoticed.               *)
(***************************************************************************)
SportReliable == "sport" \notin MayFail

FilteredUpTo(c, n) == \A i \in 1..n, dir \in Dirs : <<c, dir, Rules[c].ports[i]>> \in filters
Filtered(c) == FilteredUpTo(c, Len(Rules[c].ports))
Delayed(c)  == <<c, RuleDelay(c), Rules[c].loss>> \in netem
Built(c)    == Filtered(c) /\ Delayed(c)

(* Rules are built one after the other. *)
Building == pc \in {"class", "dport", "sport", "netem", "droptcp", "dropudp"}
BeforeTree == pc \in {"idle", "resolve", "snat", "accept", "redirect", "tables", "clear", "create"}

Progress ==
  /\ pc \in {"resolve", "snat", "accept", "redirect", "tables", "clear", "create"} => r = 1
  /\ ~root => filters = {} /\ netem = {}
  /\ Building => root
  /\ Building => \A c \in 1..(r - 1) : Built(c)
  /\ pc \in {"dport", "sport"} => FilteredUpTo(r, p - 1)
  /\ pc = "sport" => <<r, "dport", Port>> \in filters
  /\ pc = "netem" => Filtered(r)
  /\ pc \in {"droptcp", "dropudp"} => Built(r)
  /\ pc \in {"class", "dport", "sport", "netem"} => \A x \in netem : x[1] < r
  /\ pc \in {"droptcp", "dropudp"} => \A x \in netem : x[1] \in 1..r
  /\ pc \in {"show", "ok"} /\ WithFiltering => \A c \in RuleIds : Built(c)

(* Every step but these leaves pc, r, p and the tree as Progress wants     *)
(* them: the steps that touch neither the tree nor the loop over rules.    *)
LEMMA ProgressQuiet ==
  ASSUME Progress, FilterOwned, Positions, UNCHANGED <<r, p, tree>>,
         \/ pc' = pc
         \/ pc' \in {"idle", "failed", "cleared"}
         \/ BeforeTree /\ pc # "idle" /\ BeforeTree'
         \/ pc = "droptcp" /\ pc' = "dropudp"
         \/ pc = "show" /\ pc' = "ok"
  PROVE  Progress'
  BY DEF Progress, Building, BeforeTree, Built, Filtered, FilteredUpTo, Delayed, tree, Port, Rule

LEMMA ProgressInductive ==
  ASSUME Progress, Ownership, [Next]_vars, SportReliable
  PROVE  Progress'
  <1> USE DEF Progress
  <1>0. Positions /\ FilterOwned /\ NetemOwned /\ Positions'
    BY PositionsInductive DEF Ownership
  <1>r. /\ r \in 1..Len(Rules) /\ Len(Rules) \in Nat /\ p \in 1..Len(Rules[r].ports)
        /\ Len(Rules[r].ports) \in Nat
    BY <1>0, FirstRule, RuleShape DEF Positions, RuleIds
  <1>1. CASE Start
    BY <1>1 DEF Start, Building, tree
  <1>2. CASE Resolve \/ Snat \/ Accept \/ Redirect
    <2>1. UNCHANGED <<r, p, tree>> /\ BeforeTree /\ pc # "idle" /\ BeforeTree'
      BY <1>2 DEF Resolve, Snat, Accept, Redirect, NextGroup, BeforeTree, script
    <2> QED
      BY <1>0, <2>1, ProgressQuiet
  <1>3. CASE ShowTables
    BY <1>3 DEF ShowTables, Building, tree, script
  <1>4. CASE ClearHtb
    BY <1>4 DEF ClearHtb, Building, DropTree, script
  <1>5. CASE CreateHtb
    BY <1>5, <1>r DEF CreateHtb, Building, script
  (* k and q are the rule and the port of this step, also in the next state. *)
  <1>k. PICK k \in RuleIds, q \in Int : k = r /\ q = p
    BY <1>0, <1>r DEF Positions
  <1>6. CASE CreateClass
    <2>1. /\ UNCHANGED <<r, filters, netem, root>> /\ pc = "class" /\ pc' = "dport"
          /\ p' = 1 /\ root
      BY <1>6 DEF CreateClass, Building
    <2>2. FilteredUpTo(r, p - 1)'
      BY <2>1, <1>r DEF FilteredUpTo
    <2>3. (\A c \in 1..(r - 1) : Built(c))'
      BY <2>1 DEF Building, Built, Filtered, FilteredUpTo, Delayed
    <2> QED
      BY <2>1, <2>2, <2>3 DEF Building
  <1>7. CASE AddDport
    <2>1. /\ UNCHANGED <<r, p, netem, root>> /\ pc = "dport" /\ pc' = "sport"
          /\ filters' = filters \cup {<<r, "dport", Port>>} /\ root
      BY <1>7 DEF AddDport, AddFilter, script, Building
    <2>2. (\A c \in 1..(r - 1) : Built(c))'
      BY <2>1 DEF Building, Built, Filtered, FilteredUpTo, Delayed
    <2>3. FilteredUpTo(r, p - 1)'
      BY <2>1 DEF FilteredUpTo
    <2>4. (<<r, "dport", Port>> \in filters)'
      BY <2>1 DEF Port, Rule
    <2> QED
      BY <2>1, <2>2, <2>3, <2>4 DEF Building
  <1>8. CASE AddSport
    <2>1. /\ UNCHANGED <<r, netem, root>> /\ pc = "sport" /\ root
          /\ filters' = filters \cup {<<k, "sport", Rules[k].ports[q]>>}
      BY <1>8, <1>k DEF AddSport, AddFilter, Building, Port, Rule
    <2>2. (\A c \in 1..(r - 1) : Built(c))'
      BY <2>1 DEF Building, Built, Filtered, FilteredUpTo, Delayed
    <2>3. FilteredUpTo(k, q)'
      <3> SUFFICES ASSUME NEW i \in 1..q, NEW dir \in Dirs
                   PROVE  <<k, dir, Rules[k].ports[i]>> \in filters'
        BY DEF FilteredUpTo
      <3>1. CASE i < q
        <4>1. FilteredUpTo(k, q - 1) /\ i \in 1..(q - 1)
          BY <2>1, <3>1, <1>k, <1>r
        <4> QED
          BY <4>1, <2>1 DEF FilteredUpTo
      <3>2. CASE i = q
        <4>1. <<k, "dport", Rules[k].ports[q]>> \in filters
          BY <2>1, <1>k DEF Port, Rule
        <4> QED
          BY <2>1, <3>2, <4>1 DEF Dirs
      <3> QED
        BY <3>1, <3>2, <1>r, <1>k
    <2>4. CASE LastPort
      <3>1. pc' = "netem" /\ q = Len(Rules[k].ports)
        BY <1>8, <2>4, <1>k DEF AddSport, NextPort, LastPort, Rule
      <3>2. Filtered(r)'
        BY <2>1, <2>3, <3>1, <1>k DEF Filtered, FilteredUpTo
      <3> QED
        BY <2>1, <2>2, <3>1, <3>2 DEF Building
    <2>5. CASE ~LastPort
      <3>1. pc' = "dport" /\ p' = q + 1
        BY <1>8, <2>5, <1>k DEF AddSport, NextPort
      <3>2. p' - 1 = q
        BY <3>1
      <3>3. FilteredUpTo(r, p - 1)'
        BY <2>1, <2>3, <3>2, <1>k DEF FilteredUpTo
      <3> QED
        BY <2>1, <2>2, <3>1, <3>3 DEF Building
    <2> QED
      BY <2>4, <2>5
  (* The step from one rule to the next, after netem or the DROP rules.      *)
  <1>9. ASSUME \A c \in 1..k : Built(c)', NextRule, root, root',
               \A x \in netem' : x[1] \in 1..Len(Rules) /\ x[1] \in 1..k
        PROVE  Progress'
    <2>1. CASE LastRule
      <3>1. pc' = "show" /\ RuleIds = 1..k
        BY <1>9, <2>1, <1>k DEF NextRule, LastRule, RuleIds
      <3>2. (\A c \in RuleIds : Built(c))'
        BY <1>9, <3>1
      <3> QED
        BY <1>9, <3>1, <3>2 DEF Building
    <2>2. CASE ~LastRule
      <3>1. pc' = "class" /\ r' = k + 1
        BY <1>9, <2>2, <1>k DEF NextRule
      <3>2. 1..(r' - 1) = 1..k
        BY <3>1, <1>r, <1>k
      <3>3. (\A c \in 1..(r - 1) : Built(c))'
        BY <1>9, <3>2
      <3>4. (\A x \in netem : x[1] < r)'
        BY <1>9, <3>1, <1>r, <1>k
      <3> QED
        BY <1>9, <3>1, <3>3, <3>4 DEF Building
    <2> QED
      BY <2>1, <2>2
  <1>10. CASE AddNetem
    <2>1. /\ pc = "netem" /\ root /\ UNCHANGED <<root, filters>>
          /\ netem' = netem \cup {<<k, RuleDelay(k), Rules[k].loss>>}
      BY <1>10, <1>k DEF AddNetem, Building, NetemDelay, RuleDelay, Rule
    <2>2. \A c \in 1..(k - 1) : Built(c)'
      <3> SUFFICES ASSUME NEW c \in 1..(k - 1) PROVE Built(c)'
        OBVIOUS
      <3>1. Built(c)
        BY <2>1, <1>k DEF Building
      <3> QED
        BY <2>1, <3>1 DEF Built, Filtered, FilteredUpTo, Delayed
    <2>3. Built(k)'
      <3>1. Filtered(k)
        BY <2>1, <1>k
      <3> QED
        BY <2>1, <3>1 DEF Built, Filtered, FilteredUpTo, Delayed
    <2>4. \A c \in 1..k : Built(c)'
      BY <2>2, <2>3, <1>r, <1>k
    <2>5. CASE WithServices
      <3>1. pc' = "droptcp" /\ r' = k
        BY <1>10, <1>k, <2>5 DEF AddNetem
      <3>2. Built(r)' /\ (\A c \in 1..(r - 1) : Built(c))'
        BY <2>2, <2>3, <3>1
      <3>3. (\A x \in netem : x[1] \in 1..r)'
        BY <1>0, <1>r, <1>k, <2>1, <3>1 DEF NetemOwned, RuleIds
      <3> QED
        BY <2>1, <3>1, <3>2, <3>3 DEF Building
    <2>6. CASE ~WithServices
      <3>1. NextRule
        BY <1>10, <2>6 DEF AddNetem
      <3>2. \A x \in netem' : x[1] \in 1..Len(Rules) /\ x[1] \in 1..k
        BY <1>0, <1>r, <1>k, <2>1 DEF NetemOwned, RuleIds
      <3> QED
        BY <1>9, <2>1, <2>4, <3>1, <3>2
    <2> QED
      BY <2>5, <2>6
  <1>11. CASE DropTcp
    BY <1>0, <1>11, ProgressQuiet DEF DropTcp, script
  <1>12. CASE DropUdp
    <2>1. pc = "dropudp" /\ root /\ UNCHANGED tree /\ Built(k)
      BY <1>12, <1>k DEF DropUdp, Building
    <2>2. \A c \in 1..k : Built(c)'
      <3> SUFFICES ASSUME NEW c \in 1..k PROVE Built(c)'
        OBVIOUS
      <3>1. Built(c)
        BY <2>1, <1>k, <1>r DEF Building
      <3> QED
        BY <2>1, <3>1 DEF Built, Filtered, FilteredUpTo, Delayed, tree
    <2>3. root' /\ netem' = netem /\ filters' = filters
      BY <2>1 DEF tree
    <2>4. \A x \in netem : x[1] \in 1..Len(Rules) /\ x[1] \in 1..k
      BY <2>1, <1>0, <1>k DEF NetemOwned, RuleIds
    <2>5. CASE LastPort
      BY <1>9, <1>12, <2>1, <2>2, <2>3, <2>4, <2>5 DEF DropUdp
    <2>6. CASE ~LastPort
      <3>1. pc' = "droptcp" /\ r' = k
        BY <1>12, <1>k, <2>6 DEF DropUdp
      <3>2. Built(r)' /\ (\A c \in 1..(r - 1) : Built(c))'
        BY <2>2, <3>1, <1>r, <1>k
      <3> QED
        BY <2>1, <2>3, <2>4, <3>1, <3>2, <1>k DEF Building
    <2> QED
      BY <2>5, <2>6
  <1>13. CASE ShowRules
    BY <1>0, <1>13, ProgressQuiet DEF ShowRules, script
  <1>14. CASE GiveUp
    BY <1>0, <1>14, ProgressQuiet DEF GiveUp, Fault, script
  <1>15. CASE IgnoredFailure
    <2>1. UNCHANGED <<r, p, tree>> /\ BeforeTree /\ pc # "idle" /\ BeforeTree'
      <3>1. pc \in {"snat", "clear"}
        BY <1>15, ConfigAssumption DEF IgnoredFailure, Ignorable, SportReliable
      <3> QED
        BY <1>15, <3>1 DEF IgnoredFailure, Fault, BeforeTree
    <2> QED
      BY <1>0, <2>1, ProgressQuiet
  <1>16. CASE ContainerRestart \/ ClearRules
    BY <1>16 DEF ContainerRestart, ClearRules, DropTree, Building
  <1>17. CASE Readdress \/ UNCHANGED vars
    BY <1>0, <1>17, ProgressQuiet DEF Readdress, script, vars
  <1> QED
    BY <1>1, <1>2, <1>3, <1>4, <1>5, <1>6, <1>7, <1>8, <1>10, <1>11, <1>12, <1>13, <1>14,
       <1>15, <1>16, <1>17 DEF Next, Step

Inv == Ownership /\ Progress

LEMMA InvAlways ==
  ASSUME SportReliable
  PROVE  Spec => []Inv
  <1>1. Init => Inv
    BY OwnershipInit DEF Init, EmptyTree, Inv, Progress, Building
  <1>2. Inv /\ [Next]_vars => Inv'
    BY OwnershipInductive, ProgressInductive DEF Inv
  <1> QED
    BY <1>1, <1>2, PTL DEF Spec

(* A rule that is built decides alone, in both directions, for its ports.  *)
LEMMA BuiltExact ==
  ASSUME Ownership, NEW c \in RuleIds, Built(c), NEW port \in PortsOf(c), NEW dir \in Dirs
  PROVE  Treatments(port, dir) = {Condition(port)}
  <1>1. Owner(port) = c /\ Condition(port) = <<RuleDelay(c), Rules[c].loss>>
    BY OwnerUnique DEF Condition, RuleDelay
  <1>2. <<c, dir, port>> \in filters
    BY DEF Built, Filtered, FilteredUpTo, PortsOf
  <1>3. <<RuleDelay(c), Rules[c].loss>> \in Treatments(port, dir)
    BY <1>2 DEF Treatments, Built, Delayed
  <1>4. ASSUME NEW y \in Treatments(port, dir) PROVE y = <<RuleDelay(c), Rules[c].loss>>
    <2>1. PICK n \in netem : <<n[1], dir, port>> \in filters /\ y = <<n[2], n[3]>>
      BY DEF Treatments
    <2>2. n[1] \in RuleIds /\ port \in PortsOf(n[1])
      BY <2>1 DEF Ownership, FilterOwned
    <2>3. n[1] = c
      BY <2>2, <1>1, OwnerUnique
    <2> QED
      BY <2>1, <2>3 DEF Ownership, NetemOwned
  <1> QED
    BY <1>1, <1>3, <1>4

LEMMA InvExact == ASSUME Inv PROVE EmulationExact
  <1> SUFFICES ASSUME pc = "ok", WithFiltering, NEW port \in Ports, NEW dir \in Dirs
               PROVE  Treatments(port, dir) = {Condition(port)}
    BY DEF EmulationExact
  <1>1. PICK c \in RuleIds : port \in PortsOf(c)
    BY DEF Ports
  <1>2. Built(c)
    BY DEF Inv, Progress
  <1> QED
    BY <1>1, <1>2, BuiltExact DEF Inv

(* If adding a sport filter never fails, configure() reports success only  *)
(* when every port is shaped, as configured, in both directions.           *)
THEOREM EmulationCorrect ==
  ASSUME SportReliable
  PROVE  Spec => []EmulationExact
  <1>1. Spec => []Inv
    BY InvAlways
  <1> QED
    BY <1>1, InvExact, PTL

(* In front of remote services, the two halves add up to the delay of the  *)
(* rule, and each direction loses with the probability of the rule, once.  *)
THEOREM RoundTripRemote ==
  ASSUME SportReliable, ~WithServices
  PROVE  Spec => []RoundTripExact
  <1>1. EmulationExact => RoundTripExact
    <2> SUFFICES ASSUME EmulationExact, pc = "ok", WithFiltering,
                        NEW c \in RuleIds, NEW proto \in Protocols, NEW port \in PortsOf(c)
                 PROVE  LET request == Treatments(port, "dport")
                            reply   == Treatments(port, "sport")
                        IN  /\ request # {} /\ reply # {}
                            /\ \A q \in request, a \in reply :
                                 /\ q[1] + a[1] = 2 * Rules[c].delay
                                 /\ q[2] = Rules[c].loss /\ a[2] = Rules[c].loss
      BY DEF RoundTripExact, RequestEffect
    <2> DEFINE t == <<Rules[c].delay, Rules[c].loss>>
    <2>1. Owner(port) = c /\ port \in Ports
      BY OwnerUnique
    <2>2. Treatments(port, "dport") = {t} /\ Treatments(port, "sport") = {t}
      BY <2>1 DEF EmulationExact, Condition, Dirs
    <2>3. t[1] + t[1] = 2 * Rules[c].delay /\ t[2] = Rules[c].loss
      BY RuleShape
    <2> HIDE DEF t
    <2> QED
      BY <2>2, <2>3
  <1>2. Spec => []EmulationExact
    BY EmulationCorrect
  <1> QED
    BY <1>1, <1>2, PTL

-----------------------------------------------------------------------------
(***************************************************************************)
(* The commands implement module Emulation.                                *)
(***************************************************************************)
Shaped == [l \in Lanes |-> Treatments(l[1], l[2])]
Announced == pc = "ok" /\ WithFiltering

LEMMA TreeDecides ==
  ASSUME UNCHANGED <<filters, netem>>
  PROVE  Shaped' = Shaped
  BY DEF Shaped, Treatments

LEMMA NothingShaped ==
  ASSUME filters = {} \/ netem = {}
  PROVE  Shaped = [l \in Lanes |-> {}]
  BY DEF Shaped, Treatments

(* A filter of a class without netem shapes nothing yet. *)
LEMMA FilterAlone ==
  ASSUME NEW dir, NEW port, NEW k, \A x \in netem : x[1] # k,
         filters' = filters \cup {<<k, dir, port>>}, netem' = netem
  PROVE  Shaped' = Shaped
  BY DEF Shaped, Treatments

(* netem starts to shape the lanes of its rule, all at once.               *)
LEMMA NetemShapes ==
  ASSUME Inv, Inv', AddNetem
  PROVE  \E S \in SUBSET Lanes :
           Shaped' = [l \in Lanes |-> IF l \in S THEN {Condition(l[1])} ELSE Shaped[l]]
  <1>k. PICK k \in RuleIds : k = r
    BY DEF Inv, Ownership, Positions
  <1>1. /\ pc = "netem" /\ filters' = filters /\ Filtered(k)
        /\ netem' = netem \cup {<<k, RuleDelay(k), Rules[k].loss>>}
    BY <1>k DEF AddNetem, Inv, Progress, NetemDelay, RuleDelay, Rule
  <1>2. Built(k)'
    BY <1>1 DEF Built, Filtered, FilteredUpTo, Delayed
  <1> DEFINE S == {l \in Lanes : l[1] \in PortsOf(k)}
  <1>3. ASSUME NEW l \in Lanes
        PROVE  Treatments(l[1], l[2])' = IF l \in S THEN {Condition(l[1])} ELSE Treatments(l[1], l[2])
    <2>0. l[1] \in Ports /\ l[2] \in Dirs
      BY DEF Lanes
    <2>1. CASE l \in S
      <3>1. <<k, l[2], l[1]>> \in filters
        BY <1>1, <2>0, <2>1 DEF Filtered, FilteredUpTo, PortsOf
      <3>2. Owner(l[1]) = k
        BY <2>1, OwnerUnique
      <3>3. \A n \in netem : <<n[1], l[2], l[1]>> \notin filters
        <4> SUFFICES ASSUME NEW n \in netem, <<n[1], l[2], l[1]>> \in filters PROVE FALSE
          OBVIOUS
        <4>1. n[1] \in RuleIds /\ l[1] \in PortsOf(n[1])
          BY DEF Inv, Ownership, FilterOwned
        <4>2. n[1] = k
          BY <3>2, <4>1, OwnerUnique
        <4> QED
          BY <1>1, <1>k, <4>2 DEF Inv, Progress, Ownership, Positions, RuleIds
      <3>4. <<RuleDelay(k), Rules[k].loss>> = Condition(l[1])
        BY <3>2 DEF Condition, RuleDelay
      <3>5. Treatments(l[1], l[2])' = {<<RuleDelay(k), Rules[k].loss>>}
        <4>1. <<RuleDelay(k), Rules[k].loss>> \in Treatments(l[1], l[2])'
          <5> DEFINE x == <<k, RuleDelay(k), Rules[k].loss>>
          <5>1. x \in netem' /\ <<x[1], l[2], l[1]>> \in filters'
            BY <1>1, <3>1
          <5>2. <<x[2], x[3]>> \in Treatments(l[1], l[2])'
            <6> HIDE DEF x
            <6> QED BY <5>1 DEF Treatments
          <5> QED
            BY <5>2
        <4>2. ASSUME NEW y \in Treatments(l[1], l[2])'
              PROVE  y = <<RuleDelay(k), Rules[k].loss>>
          <5>1. PICK n \in netem' : <<n[1], l[2], l[1]>> \in filters' /\ y = <<n[2], n[3]>>
            BY DEF Treatments
          <5>2. n = <<k, RuleDelay(k), Rules[k].loss>>
            BY <1>1, <3>3, <5>1
          <5> QED
            BY <5>1, <5>2
        <4> QED
          BY <4>1, <4>2
      <3> QED
        BY <2>1, <3>4, <3>5
    <2>2. CASE l \notin S
      <3>1. <<k, l[2], l[1]>> \notin filters
        BY <2>2 DEF Inv, Ownership, FilterOwned
      <3> QED
        BY <1>1, <2>2, <3>1 DEF Treatments
    <2> QED
      BY <2>1, <2>2
  <1>4. Shaped' = [l \in Lanes |-> IF l \in S THEN {Condition(l[1])} ELSE Shaped[l]]
    BY <1>3 DEF Shaped
  <1> QED
    BY <1>4

(* Every step is a step of Emulation, or changes nothing it knows of.      *)
LEMMA StepRefines ==
  ASSUME Inv, Inv', [Next]_vars
  PROVE  [Promise!Next]_Promise!vars
  <1> USE DEF Promise!vars
  <1> DEFINE Quiet == Shaped' = Shaped /\ (Announced' = Announced \/ Announced' = FALSE)
             Wiped == Shaped' = [l \in Lanes |-> {}] /\ Announced' = FALSE
  <1>1. ASSUME Quiet PROVE [Promise!Next]_Promise!vars
    BY <1>1 DEF Shaped, Announced, Promise!Next, Promise!Reopen
  <1>2. ASSUME Wiped PROVE [Promise!Next]_Promise!vars
    BY <1>2 DEF Shaped, Announced, Promise!Next, Promise!Wipe, Promise!Bare
  <1>3. CASE Start \/ Resolve \/ Snat \/ Accept \/ Redirect \/ ShowTables \/ CreateHtb
             \/ CreateClass \/ DropTcp \/ DropUdp
    <2>1. UNCHANGED <<filters, netem>>
      BY <1>3 DEF Start, Resolve, Snat, Accept, Redirect, ShowTables, CreateHtb, CreateClass,
                  DropTcp, DropUdp, tree
    <2>2. pc' # "ok"
      BY <1>3 DEF Start, Resolve, Snat, Accept, Redirect, ShowTables, CreateHtb, CreateClass,
                  DropTcp, DropUdp, NextGroup, NextRule
    <2> QED
      BY <1>1, <2>1, <2>2, TreeDecides DEF Announced
  <1>4. CASE AddDport \/ AddSport
    <2>1. /\ netem' = netem /\ pc' # "ok" /\ pc \in {"dport", "sport"}
          /\ \E dir \in Dirs : filters' = filters \cup {<<r, dir, Port>>}
      BY <1>4 DEF AddDport, AddSport, AddFilter, NextPort, Dirs
    <2>2. \A x \in netem : x[1] # r
      BY <2>1 DEF Inv, Progress, Ownership, Positions, NetemOwned, RuleIds
    <2> QED
      BY <1>1, <2>1, <2>2, FilterAlone DEF Announced
  <1>5. CASE ClearHtb \/ ContainerRestart \/ ClearRules
    <2>1. filters' = {} /\ pc' # "ok"
      BY <1>5 DEF ClearHtb, ContainerRestart, ClearRules, DropTree
    <2>2. Shaped' = [l \in Lanes |-> {}]
      BY <2>1 DEF Shaped, Treatments
    <2> QED
      BY <1>2, <2>1, <2>2 DEF Announced
  <1>6. CASE AddNetem
    <2>1. ~Announced /\ ~Announced'
      BY <1>6 DEF AddNetem, Announced, NextRule
    <2>2. PICK S \in SUBSET Lanes :
            Shaped' = [l \in Lanes |-> IF l \in S THEN {Condition(l[1])} ELSE Shaped[l]]
      BY <1>6, NetemShapes
    <2>3. Promise!Shape
      BY <2>1, <2>2 DEF Promise!Shape, Shaped, Announced
    <2> QED
      BY <2>3 DEF Promise!Next
  <1>7. CASE ShowRules
    <2>1. pc = "show" /\ pc' = "ok" /\ UNCHANGED <<filters, netem>>
      BY <1>7 DEF ShowRules, tree
    <2>2. CASE WithFiltering
      <3>1. \A l \in Lanes : Treatments(l[1], l[2]) = {Condition(l[1])}
        <4> SUFFICES ASSUME NEW l \in Lanes PROVE Treatments(l[1], l[2]) = {Condition(l[1])}
          OBVIOUS
        <4>1. l[1] \in Ports /\ l[2] \in Dirs
          BY DEF Lanes
        <4>2. PICK c \in RuleIds : l[1] \in PortsOf(c)
          BY <4>1 DEF Ports
        <4>3. Built(c)
          BY <2>1, <2>2 DEF Inv, Progress
        <4> QED
          BY <4>1, <4>2, <4>3, BuiltExact DEF Inv
      <3>2. Promise!Announce
        BY <2>1, <2>2, <3>1, TreeDecides DEF Promise!Announce, Promise!Fully, Shaped, Announced
      <3> QED
        BY <3>2 DEF Promise!Next
    <2>3. CASE ~WithFiltering
      BY <1>1, <2>1, <2>3, TreeDecides DEF Announced
    <2> QED
      BY <2>2, <2>3
  <1>8. CASE GiveUp \/ IgnoredFailure \/ Readdress \/ UNCHANGED vars
    <2>1. UNCHANGED <<filters, netem>>
      BY <1>8 DEF GiveUp, IgnoredFailure, Fault, Readdress, vars, tree
    <2>2. pc' # "ok" \/ pc' = pc
      BY <1>8, ConfigAssumption DEF GiveUp, IgnoredFailure, Ignorable, NextPort, Readdress, vars
    <2> QED
      BY <1>1, <2>1, <2>2, TreeDecides DEF Announced
  <1> QED
    BY <1>3, <1>4, <1>5, <1>6, <1>7, <1>8 DEF Next, Step

(* The sequence of tc commands keeps the promise of module Emulation: lanes*)
(* only ever get their own condition, all are wiped together, and success  *)
(* is announced when all have it.                                          *)
THEOREM Refinement ==
  ASSUME SportReliable
  PROVE  Spec => EmulationPromise
  <1>1. Spec => []Inv
    BY InvAlways
  <1>2. Init => Promise!Init
    BY NothingShaped DEF Init, EmptyTree, Promise!Init, Promise!Bare, Shaped
  <1>3. Inv /\ Inv' /\ [Next]_vars => [Promise!Next]_Promise!vars
    BY StepRefines
  <1> QED
    BY <1>1, <1>2, <1>3, PTL DEF Spec, EmulationPromise, Promise!Spec

-----------------------------------------------------------------------------
(***************************************************************************)
(* Where the redirections lead.                                            *)
(***************************************************************************)
PortsAt(i) == Groups[i].ports \cup (IF Groups[i].default = NoPort THEN {} ELSE {Groups[i].default})

(* No port is in two groups of a protocol. (With remote services it could  *)
(* be: all groups lead to the same address.)                               *)
GroupsApart == \A i, j \in 1..Len(Groups) :
  i # j /\ Groups[i].proto = Groups[j].proto => PortsAt(i) \cap PortsAt(j) = {}

GroupAccepted(i) == {Groups[i].proto} \X PortsAt(i) \subseteq accepted

LocalPlaced(i) ==
  /\ GroupAccepted(i)
  /\ Groups[i].default # NoPort =>
       \A port \in PortsAt(i) : <<Groups[i].proto, port, Groups[i].default>> \in nat

(* Group i is redirected as the present run wants it, *)
Placed(i) == IF WithServices THEN LocalPlaced(i)
             ELSE \A port \in PortsAt(i) : TargetsOf(Groups[i].proto, port) = host
(* or as some run of this container wanted it. *)
Kept(i) == IF WithServices THEN LocalPlaced(i)
           ELSE \A port \in PortsAt(i) : \E h \in Hosts : TargetsOf(Groups[i].proto, port) = {h}

(* With local services each redirection is that of a group. *)
NatOwned == \A y \in nat : \E i \in 1..Len(Groups) :
  /\ y[1] = Groups[i].proto /\ y[2] \in PortsAt(i)
  /\ Groups[i].default # NoPort /\ y[3] = Groups[i].default

Resolved == pc \in (Commands \ {"resolve"}) \cup {"ok"}
Routed == pc \in (Commands \ {"resolve", "snat", "accept", "redirect"}) \cup {"ok"}

HostKnown == /\ WithServices => host = {}
             /\ ~WithServices /\ Resolved => \E h \in Hosts : host = {h}
FirstGroup == pc \in {"resolve", "snat"} => ~WithServices /\ g = 1
GroupsDone == /\ pc \in {"accept", "redirect"} => \A i \in 1..(g - 1) : Placed(i)
              /\ pc = "redirect" => /\ WithServices => GroupAccepted(g) /\ Group.default # NoPort
              /\ Routed => \A i \in 1..Len(Groups) : Placed(i)
TreeAfterRoutes == filters # {} => \A i \in 1..Len(Groups) : Kept(i)

Routing == /\ Positions /\ ScriptTyped
           /\ HostKnown /\ FirstGroup /\ GroupsDone /\ TreeAfterRoutes
           /\ WithServices => NatOwned

RoutesDecidable == ~WithServices \/ GroupsApart

LEMMA PlacedKept ==
  ASSUME HostKnown, Resolved, NEW i \in 1..Len(Groups), Placed(i) PROVE Kept(i)
  BY DEF HostKnown, Placed, Kept

(* Steps that leave the tables, and what the run knows of them, alone. *)
LEMMA RoutesQuiet ==
  ASSUME Routing, Positions', ScriptTyped', UNCHANGED <<g, host, ipt>>,
         pc' = pc \/ pc' \in {"idle", "failed", "cleared"} \/ (Routed /\ Routed'),
         filters' # {} => filters # {} \/ Routed
  PROVE  Routing'
  <1>1. /\ \A i \in 1..Len(Groups) : (Placed(i)' <=> Placed(i)) /\ (Kept(i)' <=> Kept(i))
        /\ (GroupAccepted(g)' <=> GroupAccepted(g)) /\ (NatOwned' <=> NatOwned)
    BY DEF ipt, Placed, Kept, LocalPlaced, GroupAccepted, TargetsOf, NatOwned
  <1>2. /\ Resolved' => Resolved
        /\ Routed' => Routed
        /\ pc' \in {"resolve", "snat"} => pc' = pc
        /\ pc' \in {"accept", "redirect"} => pc' = pc
    BY DEF Resolved, Routed, Commands
  <1>3. HostKnown' /\ FirstGroup' /\ (WithServices => NatOwned')
    BY <1>1, <1>2 DEF Routing, HostKnown, FirstGroup
  <1>4. GroupsDone'
    <2>1. g \in Int /\ g <= Len(Groups) /\ Len(Groups) \in Nat
      BY FirstRule DEF Routing, Positions
    <2>2. \A i \in 1..(g - 1) : i \in 1..Len(Groups)
      BY <2>1
    <2>3. pc' \in {"accept", "redirect"} => \A i \in 1..(g - 1) : Placed(i)'
      BY <1>1, <1>2, <2>2 DEF Routing, GroupsDone
    <2>4. pc' = "redirect" => (WithServices => GroupAccepted(g)' /\ Group.default # NoPort)
      BY <1>1, <1>2 DEF Routing, GroupsDone
    <2>5. Routed' => \A i \in 1..Len(Groups) : Placed(i)'
      BY <1>1, <1>2 DEF Routing, GroupsDone
    <2> QED
      BY <2>3, <2>4, <2>5 DEF GroupsDone, Group, GroupAccepted
  <1>5. TreeAfterRoutes'
    <2>1. Routed => \A i \in 1..Len(Groups) : Kept(i)
      BY PlacedKept DEF Routing, GroupsDone, Routed, Resolved
    <2> QED
      BY <1>1, <2>1 DEF Routing, TreeAfterRoutes
  <1> QED
    BY <1>3, <1>4, <1>5 DEF Routing

(* The loop goes on with the next group, or ends. *)
LEMMA NextGroupKeeps ==
  ASSUME Routing, Positions', ScriptTyped', pc \in {"accept", "redirect"}, NextGroup,
         UNCHANGED <<host, tree>>,
         \A i \in 1..g : Placed(i)', \A i \in 1..Len(Groups) : Kept(i) => Kept(i)',
         WithServices => NatOwned'
  PROVE  Routing'
  <1>1. g \in 1..Len(Groups) /\ Len(Groups) \in Nat
    BY FirstRule DEF Routing, Positions
  <1>2. HostKnown' /\ FirstGroup'
    BY DEF Routing, HostKnown, FirstGroup, NextGroup, Resolved, Commands
  <1>3. GroupsDone'
    <2>1. CASE g < Len(Groups)
      <3>1. pc' = "accept" /\ g' = g + 1
        BY <2>1 DEF NextGroup
      <3>2. 1..(g' - 1) = 1..g
        BY <1>1, <3>1
      <3>3. \A i \in 1..(g' - 1) : Placed(i)'
        BY <3>2
      <3> QED
        BY <3>1, <3>3 DEF GroupsDone, Routed
    <2>2. CASE ~(g < Len(Groups))
      <3>1. pc' = "tables" /\ 1..g = 1..Len(Groups)
        BY <1>1, <2>2 DEF NextGroup
      <3>2. \A i \in 1..Len(Groups) : Placed(i)'
        BY <3>1
      <3> QED
        BY <3>1, <3>2 DEF GroupsDone
    <2> QED
      BY <2>1, <2>2
  <1>4. TreeAfterRoutes'
    BY DEF Routing, TreeAfterRoutes, tree
  <1> QED
    BY <1>2, <1>3, <1>4 DEF Routing

LEMMA GroupPorts ==
  PortSet = PortsAt(g) /\ Group = Groups[g]
  BY DEF PortSet, PortsAt, Group

LEMMA AcceptRoutes == ASSUME Routing, Positions', ScriptTyped', Accept PROVE Routing'
  <1>1. /\ pc = "accept" /\ UNCHANGED <<host, nat, tree>>
        /\ accepted' = accepted \cup ({Group.proto} \X PortSet)
    BY DEF Accept
  <1>2. \A i \in 1..Len(Groups) : (Placed(i) => Placed(i)') /\ (Kept(i) => Kept(i)')
    BY <1>1 DEF Placed, Kept, LocalPlaced, GroupAccepted, TargetsOf
  <1>3. PICK k \in 1..Len(Groups) : k = g
    BY DEF Routing, Positions
  <1>4. GroupAccepted(k)'
    BY <1>1, <1>3, GroupPorts DEF GroupAccepted
  <1>5. \A i \in 1..(k - 1) : i \in 1..Len(Groups) /\ Placed(i)'
    BY <1>1, <1>2, <1>3, FirstRule DEF Routing, GroupsDone
  <1>6. WithServices => NatOwned'
    BY <1>1 DEF Routing, NatOwned
  <1>7. CASE Targets = {}
    <2>1. WithServices /\ Groups[k].default = NoPort
      BY <1>1, <1>3, <1>7 DEF Targets, Routing, HostKnown, Resolved, Commands, Group
    <2>2. Placed(k)'
      BY <1>4, <2>1 DEF Placed, LocalPlaced
    <2>3. \A i \in 1..k : Placed(i)'
      BY <1>5, <2>2, FirstRule
    <2>4. NextGroup
      BY <1>7 DEF Accept
    <2> QED
      BY <1>1, <1>2, <1>3, <1>6, <2>3, <2>4, NextGroupKeeps
  <1>8. CASE Targets # {}
    <2>1. pc' = "redirect" /\ g' = g
      BY <1>8 DEF Accept
    <2>2. HostKnown' /\ FirstGroup'
      BY <1>1, <2>1 DEF Routing, HostKnown, FirstGroup, Resolved, Commands
    <2>3. WithServices => Groups[k].default # NoPort
      BY <1>3, <1>8 DEF Targets, Routing, HostKnown, Group
    <2>4. GroupsDone'
      <3>1. (WithServices => GroupAccepted(g) /\ Group.default # NoPort)'
        BY <1>3, <1>4, <2>1, <2>3 DEF Group, GroupAccepted
      <3>2. (\A i \in 1..(g - 1) : Placed(i))'
        BY <1>3, <1>5, <2>1
      <3> QED
        BY <2>1, <3>1, <3>2 DEF GroupsDone, Routed
    <2>5. TreeAfterRoutes'
      BY <1>1, <1>2 DEF Routing, TreeAfterRoutes, tree
    <2> QED
      BY <1>6, <2>2, <2>4, <2>5 DEF Routing
  <1> QED
    BY <1>7, <1>8

(* The rules that Redirect inserts decide for the ports of its group. *)
LEMMA RedirectDecides ==
  ASSUME Redirect, NEW k, k = g, NEW proto, NEW port
  PROVE  TargetsOf(proto, port)' = IF proto = Groups[k].proto /\ port \in PortsAt(k)
                                     THEN Targets ELSE TargetsOf(proto, port)
  <1>1. nat' = {x \in nat : ~(x[1] = Groups[k].proto /\ x[2] \in PortsAt(k))}
                 \cup ({Groups[k].proto} \X PortsAt(k) \X Targets)
    BY GroupPorts DEF Redirect
  <1>2. CASE proto = Groups[k].proto /\ port \in PortsAt(k)
    <2>1. \A t \in Targets : <<proto, port, t>> \in nat'
      BY <1>1, <1>2
    <2>2. \A x \in nat' : x[1] = proto /\ x[2] = port => x[3] \in Targets
      BY <1>1, <1>2
    <2>3. \A t \in Targets : t \in TargetsOf(proto, port)'
      <3> SUFFICES ASSUME NEW t \in Targets PROVE t \in TargetsOf(proto, port)'
        OBVIOUS
      <3> DEFINE y == <<proto, port, t>>
      <3>1. y \in nat' /\ y[1] = proto /\ y[2] = port /\ y[3] = t
        BY <2>1
      <3> HIDE DEF y
      <3> QED
        BY <3>1 DEF TargetsOf
    <2>4. \A t \in TargetsOf(proto, port)' : t \in Targets
      BY <2>2 DEF TargetsOf
    <2> QED
      BY <1>2, <2>3, <2>4
  <1>3. CASE ~(proto = Groups[k].proto /\ port \in PortsAt(k))
    <2>1. \A x : x[1] = proto /\ x[2] = port => (x \in nat' <=> x \in nat)
      BY <1>1, <1>3
    <2> QED
      BY <1>3, <2>1 DEF TargetsOf
  <1> QED
    BY <1>2, <1>3

LEMMA RedirectRoutes ==
  ASSUME Routing, RoutesDecidable, Positions', ScriptTyped', Redirect PROVE Routing'
  <1>1. pc = "redirect" /\ UNCHANGED <<host, accepted, tree>>
    BY DEF Redirect
  <1>2. PICK k \in 1..Len(Groups) : k = g
    BY DEF Routing, Positions
  <1>3. nat' = {x \in nat : ~(x[1] = Groups[k].proto /\ x[2] \in PortsAt(k))}
                 \cup ({Groups[k].proto} \X PortsAt(k) \X Targets)
    BY <1>2, GroupPorts DEF Redirect
  <1>4. CASE WithServices
    <2>1. Targets = {Groups[k].default} /\ Groups[k].default # NoPort /\ GroupAccepted(k)
      BY <1>1, <1>2, <1>4 DEF Targets, Routing, HostKnown, GroupsDone, Group
    <2>2. LocalPlaced(k)'
      BY <1>1, <1>3, <2>1 DEF LocalPlaced, GroupAccepted
    <2>3. \A i \in 1..Len(Groups) : LocalPlaced(i) => LocalPlaced(i)'
      <3> SUFFICES ASSUME NEW i \in 1..Len(Groups), i # k, LocalPlaced(i),
                          Groups[i].default # NoPort, NEW port \in PortsAt(i)
                   PROVE  <<Groups[i].proto, port, Groups[i].default>> \in nat'
        BY <1>1, <2>2 DEF LocalPlaced, GroupAccepted
      <3>1. ~(Groups[i].proto = Groups[k].proto /\ port \in PortsAt(k))
        BY <1>4 DEF RoutesDecidable, GroupsApart
      <3> QED
        BY <1>3, <3>1 DEF LocalPlaced
    <2>4. NatOwned'
      BY <1>3, <1>4, <2>1 DEF Routing, NatOwned
    <2>5. \A i \in 1..k : i \in 1..Len(Groups)
      BY FirstRule
    <2>6. \A i \in 1..k : Placed(i)'
      <3> SUFFICES ASSUME NEW i \in 1..k PROVE LocalPlaced(i)'
        BY <1>4 DEF Placed
      <3>1. CASE i = k
        BY <2>2, <3>1
      <3>2. CASE i # k
        <4>1. i \in 1..(k - 1)
          BY <3>2
        <4> QED
          BY <1>1, <1>2, <1>4, <2>3, <2>5, <4>1 DEF Routing, GroupsDone, Placed
      <3> QED
        BY <3>1, <3>2
    <2>7. \A i \in 1..Len(Groups) : Kept(i) => Kept(i)'
      BY <1>4, <2>3 DEF Kept
    <2>8. NextGroup
      BY DEF Redirect
    <2> QED
      BY <1>1, <1>2, <2>4, <2>6, <2>7, <2>8, NextGroupKeeps
  <1>5. CASE ~WithServices
    <2>1. PICK h \in Hosts : host = {h}
      BY <1>1, <1>5 DEF Routing, HostKnown, Resolved, Commands
    <2>2. Targets = host
      BY <2>1 DEF Targets
    <2>3. \A proto, port : TargetsOf(proto, port)' = IF proto = Groups[k].proto /\ port \in PortsAt(k)
                                                       THEN host ELSE TargetsOf(proto, port)
      BY <1>2, <2>2, RedirectDecides
    <2>4. \A i \in 1..k : Placed(i)'
      <3> SUFFICES ASSUME NEW i \in 1..k, NEW port \in PortsAt(i)
                   PROVE  TargetsOf(Groups[i].proto, port)' = host
        BY <1>1, <1>5 DEF Placed
      <3>1. CASE i = k
        BY <2>3, <3>1
      <3>2. CASE i # k
        <4>1. i \in 1..(k - 1)
          BY <3>2
        <4>2. TargetsOf(Groups[i].proto, port) = host
          BY <1>1, <1>2, <1>5, <4>1 DEF Routing, GroupsDone, Placed
        <4> QED
          BY <2>3, <4>2
      <3> QED
        BY <3>1, <3>2
    <2>5. \A i \in 1..Len(Groups) : Kept(i) => Kept(i)'
      BY <1>5, <2>1, <2>3 DEF Kept
    <2>6. NextGroup
      BY DEF Redirect
    <2> QED
      BY <1>1, <1>2, <1>5, <2>4, <2>5, <2>6, NextGroupKeeps
  <1> QED
    BY <1>4, <1>5

LEMMA RoutingInductive ==
  ASSUME Routing, RoutesDecidable, [Next]_vars PROVE Routing'
  <1> USE DEF Commands
  <1>0. Positions' /\ ScriptTyped'
    BY PositionsInductive, ScriptTypedInductive DEF Routing
  <1>1. CASE Start
    <2>1. /\ UNCHANGED <<ipt, tree>> /\ host' = {} /\ g' = 1
          /\ pc' = IF WithServices THEN "accept" ELSE "resolve"
      BY <1>1 DEF Start
    <2>2. \A i \in 1..Len(Groups) : (Kept(i)' <=> Kept(i)) /\ (NatOwned' <=> NatOwned)
      BY <2>1 DEF ipt, Kept, LocalPlaced, GroupAccepted, TargetsOf, NatOwned
    <2>3. HostKnown' /\ FirstGroup' /\ GroupsDone'
      BY <2>1 DEF HostKnown, FirstGroup, GroupsDone, Resolved, Routed
    <2>4. TreeAfterRoutes' /\ (WithServices => NatOwned')
      BY <2>1, <2>2, FirstRule DEF Routing, TreeAfterRoutes, tree
    <2> QED
      BY <1>0, <2>3, <2>4 DEF Routing
  <1>2. CASE Resolve \/ Snat \/ (IgnoredFailure /\ pc = "snat")
    <2>1. /\ UNCHANGED <<accepted, nat, tree, g>> /\ g = 1 /\ ~WithServices
          /\ \/ pc' = "snat" /\ \E h \in Hosts : host' = {h}
             \/ pc = "snat" /\ pc' = "accept" /\ host' = host
      BY <1>2 DEF Resolve, Snat, IgnoredFailure, Fault, script, ipt, Routing, FirstGroup, ScriptTyped
    <2>2. \A i \in 1..Len(Groups) : Kept(i)' <=> Kept(i)
      BY <2>1 DEF Kept, LocalPlaced, GroupAccepted, TargetsOf
    <2>3. HostKnown' /\ FirstGroup'
      BY <2>1 DEF Routing, HostKnown, FirstGroup, Resolved
    <2>4. GroupsDone'
      BY <2>1 DEF GroupsDone, Routed
    <2>5. TreeAfterRoutes'
      BY <2>1, <2>2 DEF Routing, TreeAfterRoutes, tree
    <2> QED
      BY <1>0, <2>1, <2>3, <2>4, <2>5 DEF Routing
  <1>3. CASE Accept
    BY <1>0, <1>3, AcceptRoutes
  <1>4. CASE Redirect
    BY <1>0, <1>4, RedirectRoutes
  <1>5. CASE ShowTables \/ ClearHtb \/ CreateHtb \/ CreateClass \/ DropTcp \/ DropUdp \/ ShowRules
             \/ AddDport \/ AddSport \/ AddNetem
    <2>1. UNCHANGED <<g, host, ipt>> /\ Routed /\ (Routed' \/ pc' = "failed")
      BY <1>5 DEF ShowTables, ClearHtb, CreateHtb, CreateClass, DropTcp, DropUdp, ShowRules,
                  AddDport, AddSport, AddNetem, NextPort, NextRule, script, Routed
    <2> QED
      BY <1>0, <2>1, RoutesQuiet
  <1>6. CASE GiveUp \/ ClearRules \/ Readdress \/ UNCHANGED vars
    <2>1. /\ UNCHANGED <<g, host, ipt>> /\ (pc' = pc \/ pc' \in {"idle", "failed", "cleared"})
          /\ filters' = filters \/ filters' = {}
      BY <1>6 DEF GiveUp, Fault, ClearRules, Readdress, vars, script, DropTree, tree
    <2> QED
      BY <1>0, <2>1, RoutesQuiet
  <1>7. CASE IgnoredFailure /\ pc # "snat"
    <2>1. UNCHANGED <<g, host, ipt, filters>> /\ Routed /\ Routed'
      BY <1>7, ConfigAssumption DEF IgnoredFailure, Fault, Ignorable, NextPort, tree, Routed
    <2> QED
      BY <1>0, <2>1, RoutesQuiet
  <1>8. CASE ContainerRestart
    <2>1. pc' = "idle" /\ nat' = {} /\ filters' = {} /\ host' = host
      BY <1>8 DEF ContainerRestart, DropTree, script
    <2>2. HostKnown' /\ FirstGroup' /\ GroupsDone' /\ TreeAfterRoutes' /\ NatOwned'
      BY <2>1 DEF Routing, HostKnown, FirstGroup, GroupsDone, TreeAfterRoutes, NatOwned,
                  Resolved, Routed
    <2> QED
      BY <1>0, <2>2 DEF Routing
  <1> QED
    BY <1>1, <1>2, <1>3, <1>4, <1>5, <1>6, <1>7, <1>8 DEF Next, Step

LEMMA RoutingAlways ==
  ASSUME RoutesDecidable
  PROVE  Spec => []Routing
  <1>1. Init => Routing
    <2> SUFFICES ASSUME Init PROVE Routing
      OBVIOUS
    <2>1. pc = "idle" /\ host = {} /\ nat = {} /\ filters = {}
      BY DEF Init, EmptyTree
    <2>2. Positions /\ ScriptTyped
      BY TypedInit DEF Typed, Ownership
    <2> QED
      BY <2>1, <2>2 DEF Routing, HostKnown, FirstGroup, GroupsDone, TreeAfterRoutes, NatOwned,
                        Resolved, Routed, Commands
  <1>2. Routing /\ [Next]_vars => Routing'
    BY RoutingInductive
  <1> QED
    BY <1>1, <1>2, PTL DEF Spec

(* Local redirections lead to the default port of the group only. *)
LEMMA LocalTargets ==
  ASSUME NatOwned, GroupsApart, NEW i \in 1..Len(Groups), LocalPlaced(i),
         NEW port \in PortsAt(i)
  PROVE  TargetsOf(Groups[i].proto, port)
           = IF Groups[i].default = NoPort THEN {} ELSE {Groups[i].default}
  <1>1. ASSUME NEW y \in nat, y[1] = Groups[i].proto, y[2] = port
        PROVE  Groups[i].default # NoPort /\ y[3] = Groups[i].default
    <2>1. PICK j \in 1..Len(Groups) :
            /\ y[1] = Groups[j].proto /\ y[2] \in PortsAt(j)
            /\ Groups[j].default # NoPort /\ y[3] = Groups[j].default
      BY DEF NatOwned
    <2>2. j = i
      BY <1>1, <2>1 DEF GroupsApart
    <2> QED
      BY <2>1, <2>2
  <1>2. CASE Groups[i].default = NoPort
    BY <1>1, <1>2 DEF TargetsOf
  <1>3. CASE Groups[i].default # NoPort
    <2>1. <<Groups[i].proto, port, Groups[i].default>> \in nat
      BY <1>3 DEF LocalPlaced
    <2>2. Groups[i].default \in TargetsOf(Groups[i].proto, port)
      BY <2>1 DEF TargetsOf
    <2>3. \A x \in TargetsOf(Groups[i].proto, port) : x = Groups[i].default
      BY <1>1 DEF TargetsOf
    <2> QED
      BY <1>3, <2>2, <2>3
  <1> QED
    BY <1>2, <1>3

(* As soon as anything is shaped, and in the middle of later runs, every   *)
(* port of a group leads to the one place it is meant for.                 *)
THEOREM Reaching ==
  ASSUME RoutesDecidable
  PROVE  Spec => []ReachesService
  <1>1. ASSUME Routing PROVE ReachesService
    <2> SUFFICES ASSUME filters # {} \/ pc = "ok",
                        NEW i \in 1..Len(Groups), NEW port \in Groups[i].ports
                 PROVE  LET target == TargetsOf(Groups[i].proto, port)
                            dest   == IF target = {} THEN {port} ELSE target
                        IN  IF WithServices
                              THEN /\ dest = {IF Groups[i].default = NoPort THEN port
                                              ELSE Groups[i].default}
                                   /\ ({Groups[i].proto} \X dest) \subseteq accepted
                              ELSE \E h \in Hosts : target = {h}
      BY DEF ReachesService
    <2>1. Kept(i)
      <3>1. CASE filters # {}
        BY <1>1, <3>1 DEF Routing, TreeAfterRoutes
      <3>2. CASE pc = "ok"
        BY <1>1, <3>2, PlacedKept DEF Routing, GroupsDone, Routed, Resolved
      <3> QED
        BY <3>1, <3>2
    <2>2. port \in PortsAt(i)
      BY DEF PortsAt
    <2>3. CASE ~WithServices
      BY <2>1, <2>2, <2>3 DEF Kept
    <2>4. CASE WithServices
      <3>1. LocalPlaced(i)
        BY <2>1, <2>4 DEF Kept
      <3>2. TargetsOf(Groups[i].proto, port)
              = IF Groups[i].default = NoPort THEN {} ELSE {Groups[i].default}
        BY <1>1, <2>2, <2>4, <3>1, LocalTargets DEF Routing, RoutesDecidable
      <3>3. {Groups[i].proto} \X PortsAt(i) \subseteq accepted
        BY <3>1 DEF LocalPlaced, GroupAccepted
      <3>4. Groups[i].default # NoPort => Groups[i].default \in PortsAt(i)
        BY DEF PortsAt
      <3> QED
        BY <2>2, <2>4, <3>2, <3>3, <3>4
    <2> QED
      BY <2>3, <2>4
  <1>2. Spec => []Routing
    BY RoutingAlways
  <1> QED
    BY <1>1, <1>2, PTL

(* A successful run leads everything to the address it resolved, whatever  *)
(* redirections were there before.                                         *)
THEOREM NewestWins == Spec => []NewestHostWins
  <1>1. CASE WithServices
    <2>1. NewestHostWins
      BY <1>1 DEF NewestHostWins
    <2> QED
      BY <2>1, PTL
  <1>2. CASE ~WithServices
    <2>1. Routing => NewestHostWins
      BY <1>2 DEF Routing, GroupsDone, Routed, Placed, PortsAt, NewestHostWins
    <2>2. Spec => []Routing
      BY <1>2, RoutingAlways DEF RoutesDecidable
    <2> QED
      BY <2>1, <2>2, PTL
  <1> QED
    BY <1>1, <1>2
-----------------------------------------------------------------------------
(***************************************************************************)
(* The DROP rules of local services.                                       *)
(***************************************************************************)
(* No rule names a port twice. *)
PortsOnce == \A c \in RuleIds : \A i, j \in 1..Len(Rules[c].ports) :
               i # j => Rules[c].ports[i] # Rules[c].ports[j]

(* The container is new at each run, and has the services. *)
DropsCounted == SportReliable /\ PortsOnce /\ WithServices /\ ~Live

(* There is a DROP rule for each port before rule k, and for the first n   *)
(* ports of rule k.                                                        *)
DroppedUpTo(proto, k, n) ==
  \A c \in RuleIds : \A i \in 1..Len(Rules[c].ports) :
    drops[<<proto, Rules[c].ports[i]>>] = IF c < k \/ (c = k /\ i <= n) THEN 1 ELSE 0

AllDropped == \A proto \in Protocols, port \in Ports : drops[<<proto, port>>] = 1

Dropping ==
  /\ BeforeTree \/ pc \in {"class", "dport", "sport", "netem"} =>
       \A proto \in Protocols : DroppedUpTo(proto, IF pc = "idle" THEN 1 ELSE r, 0)
  /\ pc = "droptcp" => \A proto \in Protocols : DroppedUpTo(proto, r, p - 1)
  /\ pc = "dropudp" => DroppedUpTo("tcp", r, p) /\ DroppedUpTo("udp", r, p - 1)
  /\ pc \in {"show", "ok"} /\ WithFiltering => AllDropped

DropsExact == Inv /\ drops \in [Chains -> Nat] /\ Dropping

LEMMA PortChains ==
  ASSUME NEW c \in RuleIds, NEW i \in 1..Len(Rules[c].ports), NEW proto \in Protocols
  PROVE  <<proto, Rules[c].ports[i]>> \in Chains
  BY RuleShape DEF Chains, Ports

(* Ports are only equal if they are the same port of the same rule. *)
LEMMA PortUnique ==
  ASSUME PortsOnce, NEW c \in RuleIds, NEW i \in 1..Len(Rules[c].ports),
         NEW d \in RuleIds, NEW j \in 1..Len(Rules[d].ports),
         Rules[c].ports[i] = Rules[d].ports[j]
  PROVE  c = d /\ i = j
  <1>1. Rules[c].ports[i] \in PortsOf(c) /\ Rules[d].ports[j] \in PortsOf(d)
    BY RuleShape
  <1>2. c = d
    BY <1>1, RulesAssumption
  <1> QED
    BY <1>2 DEF PortsOnce

LEMMA NoneDropped ==
  ASSUME NEW c \in RuleIds, NEW i \in 1..Len(Rules[c].ports), NEW proto \in Protocols
  PROVE  /\ NoDrops[<<proto, Rules[c].ports[i]>>] = 0
         /\ ~(c < 1 \/ (c = 1 /\ i <= 0))
  BY PortChains DEF NoDrops, RuleIds

(* One more DROP rule. *)
LEMMA OneDropped ==
  ASSUME PortsOnce, drops \in [Chains -> Nat], NEW k \in RuleIds, NEW n \in 1..Len(Rules[k].ports),
         NEW proto \in Protocols, DroppedUpTo(proto, k, n - 1),
         drops' = [drops EXCEPT ![<<proto, Rules[k].ports[n]>>] = @ + 1]
  PROVE  /\ DroppedUpTo(proto, k, n)'
         /\ \A other \in Protocols \ {proto}, m \in Int :
              DroppedUpTo(other, k, m) => DroppedUpTo(other, k, m)'
  <1>1. ASSUME NEW c \in RuleIds, NEW i \in 1..Len(Rules[c].ports), NEW q \in Protocols
        PROVE  drops'[<<q, Rules[c].ports[i]>>]
                 = IF q = proto /\ c = k /\ i = n THEN drops[<<q, Rules[c].ports[i]>>] + 1
                                                   ELSE drops[<<q, Rules[c].ports[i]>>]
    <2>1. <<q, Rules[c].ports[i]>> \in Chains /\ <<proto, Rules[k].ports[n]>> \in Chains
      BY PortChains
    <2>2. drops[<<q, Rules[c].ports[i]>>] \in Nat
      BY <2>1
    <2>3. CASE q = proto /\ c = k /\ i = n
      BY <2>1, <2>2, <2>3
    <2>4. CASE ~(q = proto /\ c = k /\ i = n)
      <3>1. <<q, Rules[c].ports[i]>> # <<proto, Rules[k].ports[n]>>
        BY <2>4, PortUnique
      <3> QED
        BY <2>1, <2>2, <2>4, <3>1
    <2> QED
      BY <2>3, <2>4
  <1>2. DroppedUpTo(proto, k, n)'
    <2> SUFFICES ASSUME NEW c \in RuleIds, NEW i \in 1..Len(Rules[c].ports)
                 PROVE  drops'[<<proto, Rules[c].ports[i]>>]
                          = IF c < k \/ (c = k /\ i <= n) THEN 1 ELSE 0
      BY DEF DroppedUpTo
    <2>1. drops[<<proto, Rules[c].ports[i]>>] = IF c < k \/ (c = k /\ i <= n - 1) THEN 1 ELSE 0
      BY DEF DroppedUpTo
    <2> DEFINE d == drops[<<proto, Rules[c].ports[i]>>]
               e == drops'[<<proto, Rules[c].ports[i]>>]
    <2>2. (c = k /\ i = n => e = d + 1) /\ (~(c = k /\ i = n) => e = d)
      <3>1. e = IF proto = proto /\ c = k /\ i = n THEN d + 1 ELSE d
        BY <1>1, Zenon
      <3> QED
        BY <3>1
    <2>3. c \in Int /\ k \in Int /\ i \in Int /\ n \in Int
      BY DEF RuleIds
    <2> HIDE DEF d, e
    <2>4. d = IF c < k \/ (c = k /\ i <= n - 1) THEN 1 ELSE 0
      BY <2>1 DEF d
    <2>5. e = IF c < k \/ (c = k /\ i <= n) THEN 1 ELSE 0
      BY <2>2, <2>3, <2>4
    <2> QED
      BY <2>5 DEF e
  <1>3. ASSUME NEW other \in Protocols \ {proto}, NEW m \in Int, DroppedUpTo(other, k, m)
        PROVE  DroppedUpTo(other, k, m)'
    <2> SUFFICES ASSUME NEW c \in RuleIds, NEW i \in 1..Len(Rules[c].ports)
                 PROVE  drops'[<<other, Rules[c].ports[i]>>]
                          = IF c < k \/ (c = k /\ i <= m) THEN 1 ELSE 0
      BY DEF DroppedUpTo
    <2>1. drops[<<other, Rules[c].ports[i]>>] = IF c < k \/ (c = k /\ i <= m) THEN 1 ELSE 0
      BY <1>3 DEF DroppedUpTo
    <2>2. drops'[<<other, Rules[c].ports[i]>>] = drops[<<other, Rules[c].ports[i]>>]
      BY <1>1
    <2> QED
      BY <2>1, <2>2
  <1> QED
    BY <1>2, <1>3

(* The loop goes on with the next rule, or ends. *)
LEMMA RuleDropped ==
  ASSUME NEW k \in RuleIds, NEW proto \in Protocols,
         DroppedUpTo(proto, k, Len(Rules[k].ports))'
  PROVE  /\ DroppedUpTo(proto, k + 1, 0)'
         /\ k = Len(Rules) => \A port \in Ports : drops'[<<proto, port>>] = 1
  <1>1. ASSUME NEW c \in RuleIds, NEW i \in 1..Len(Rules[c].ports)
        PROVE  drops'[<<proto, Rules[c].ports[i]>>] = IF c <= k THEN 1 ELSE 0
    BY DEF DroppedUpTo, RuleIds
  <1>2. DroppedUpTo(proto, k + 1, 0)'
    BY <1>1 DEF DroppedUpTo, RuleIds
  <1>3. ASSUME k = Len(Rules), NEW port \in Ports PROVE drops'[<<proto, port>>] = 1
    <2>1. PICK c \in RuleIds : port \in PortsOf(c)
      BY DEF Ports
    <2>2. PICK i \in 1..Len(Rules[c].ports) : port = Rules[c].ports[i]
      BY <2>1 DEF PortsOf
    <2> QED
      BY <1>1, <1>3, <2>2, FirstRule DEF RuleIds
  <1> QED
    BY <1>2, <1>3

LEMMA DroppingQuiet ==
  ASSUME Dropping, UNCHANGED drops,
         \/ pc' \in {"failed", "cleared"}
         \/ UNCHANGED <<pc, r, p>>
         \/ /\ BeforeTree \/ pc \in {"class", "dport", "sport", "netem"}
            /\ BeforeTree' \/ pc' \in {"class", "dport", "sport", "netem"}
            /\ pc # "idle" /\ pc' # "idle" /\ r' = r
         \/ pc = "show" /\ pc' = "ok"
  PROVE  Dropping'
  <1>1. \A proto, k, n : DroppedUpTo(proto, k, n)' <=> DroppedUpTo(proto, k, n)
    BY DEF DroppedUpTo
  <1>2. AllDropped' <=> AllDropped
    BY DEF AllDropped
  <1> QED
    BY <1>1, <1>2 DEF Dropping, BeforeTree

LEMMA DroppingInductive ==
  ASSUME DropsExact, Inv', (drops \in [Chains -> Nat])', DropsCounted, [Next]_vars PROVE Dropping'
  <1>0. Positions /\ Positions' /\ Progress /\ Dropping
    BY DEF DropsExact, Inv, Ownership
  <1>r. PICK k \in RuleIds : k = r
    BY <1>0 DEF Positions
  <1>p. PICK q \in 1..Len(Rules[k].ports) : q = p
    BY <1>0, <1>r DEF Positions
  <1>k. k = r /\ q = p
    BY <1>r, <1>p
  <1>n. k \in Int /\ q \in Int /\ Len(Rules[k].ports) \in Nat
    BY RuleShape DEF RuleIds
  <1>1. CASE Start
    <2>1. pc = "idle" /\ UNCHANGED drops /\ pc' = "accept" /\ r' = 1
      BY <1>1 DEF Start, MayStart, DropsCounted
    <2>2. \A proto \in Protocols : DroppedUpTo(proto, 1, 0)'
      BY <1>0, <2>1 DEF Dropping, BeforeTree, DroppedUpTo
    <2> QED
      BY <2>1, <2>2 DEF Dropping, BeforeTree
  <1>2. CASE Resolve \/ Snat \/ Accept \/ Redirect \/ ShowTables \/ ClearHtb \/ CreateHtb
             \/ CreateClass \/ AddDport \/ AddSport
    <2>1. UNCHANGED <<drops, r>> /\ pc # "idle" /\ pc' # "idle"
      BY <1>2 DEF Resolve, Snat, Accept, Redirect, ShowTables, ClearHtb, CreateHtb,
             CreateClass, AddDport, AddSport, NextGroup, NextPort, script
    <2>2. BeforeTree \/ pc \in {"class", "dport", "sport", "netem"}
      BY <1>2 DEF Resolve, Snat, Accept, Redirect, ShowTables, ClearHtb, CreateHtb,
             CreateClass, AddDport, AddSport, BeforeTree
    <2>3. \/ BeforeTree' \/ pc' \in {"class", "dport", "sport", "netem", "failed"}
          \/ pc' = "show" /\ ~WithFiltering
      BY <1>2 DEF Resolve, Snat, Accept, Redirect, ShowTables, ClearHtb, CreateHtb,
             CreateClass, AddDport, AddSport, NextGroup, NextPort, BeforeTree
    <2>4. CASE pc' = "show" /\ ~WithFiltering
      BY <2>4 DEF Dropping, BeforeTree
    <2> QED
      BY <1>0, <2>1, <2>2, <2>3, <2>4, DroppingQuiet
  <1>3. CASE AddNetem
    <2>1. /\ UNCHANGED <<drops, r>> /\ pc = "netem" /\ pc' = "droptcp" /\ p' = 1
      BY <1>3 DEF AddNetem, DropsCounted
    <2>2. \A proto \in Protocols : DroppedUpTo(proto, k, 0)'
      BY <1>0, <1>k, <2>1 DEF Dropping, DroppedUpTo
    <2> QED
      BY <2>1, <2>2, <1>k DEF Dropping, BeforeTree
  <1>4. CASE DropTcp
    <2>1. /\ UNCHANGED <<r, p>> /\ pc = "droptcp" /\ pc' = "dropudp"
          /\ drops' = [drops EXCEPT ![<<"tcp", Rules[k].ports[q]>>] = @ + 1]
      BY <1>4, <1>k DEF DropTcp, AddDrop, Port, Rule, script
    <2>2. \A proto \in Protocols : DroppedUpTo(proto, k, q - 1)
      BY <1>0, <1>k, <2>1 DEF Dropping
    <2>3. DroppedUpTo("tcp", k, q)' /\ DroppedUpTo("udp", k, q - 1)'
      <3>1. PortsOnce /\ drops \in [Chains -> Nat] /\ q - 1 \in Int
        BY <1>n DEF DropsCounted, DropsExact
      <3>2. "tcp" \in Protocols /\ "udp" \in Protocols \ {"tcp"}
        BY DEF Protocols
      <3> QED
        BY <2>1, <2>2, <3>1, <3>2, OneDropped
    <2> QED
      BY <1>k, <2>1, <2>3 DEF Dropping, BeforeTree
  <1>5. CASE DropUdp
    <2>1. /\ pc = "dropudp"
          /\ drops' = [drops EXCEPT ![<<"udp", Rules[k].ports[q]>>] = @ + 1]
      BY <1>5, <1>k DEF DropUdp, AddDrop, Port, Rule
    <2>2. DroppedUpTo("tcp", k, q) /\ DroppedUpTo("udp", k, q - 1)
      BY <1>0, <1>k, <2>1 DEF Dropping
    <2>3. DroppedUpTo("tcp", k, q)' /\ DroppedUpTo("udp", k, q)'
      BY <1>n, <2>1, <2>2, OneDropped DEF Protocols, DropsCounted, DropsExact
    <2>4. \A proto \in Protocols : DroppedUpTo(proto, k, q)'
      BY <2>3 DEF Protocols
    <2>5. CASE ~LastPort
      <3>1. pc' = "droptcp" /\ p' = q + 1 /\ r' = k /\ p' - 1 = q
        BY <1>5, <1>k, <1>n, <2>5 DEF DropUdp
      <3> QED
        BY <2>4, <3>1 DEF Dropping, BeforeTree
    <2>6. CASE LastPort
      <3>1. NextRule /\ q = Len(Rules[k].ports)
        BY <1>5, <1>k, <2>6 DEF DropUdp, LastPort, Rule
      <3>2. CASE LastRule
        <4>1. pc' = "show" /\ k = Len(Rules)
          BY <1>k, <3>1, <3>2 DEF NextRule, LastRule
        <4>2. AllDropped'
          BY <2>4, <3>1, <4>1, RuleDropped DEF AllDropped
        <4> QED
          BY <4>1, <4>2 DEF Dropping, BeforeTree
      <3>3. CASE ~LastRule
        <4>1. pc' = "class" /\ r' = k + 1
          BY <1>k, <3>1, <3>3 DEF NextRule
        <4>2. \A proto \in Protocols : DroppedUpTo(proto, k + 1, 0)'
          BY <2>4, <3>1, RuleDropped
        <4> QED
          BY <4>1, <4>2 DEF Dropping, BeforeTree
      <3> QED
        BY <3>2, <3>3
    <2> QED
      BY <2>5, <2>6
  <1>6. CASE ShowRules \/ GiveUp \/ ClearRules \/ Readdress \/ UNCHANGED vars
    <2>1. UNCHANGED drops
      BY <1>6 DEF ShowRules, GiveUp, Fault, ClearRules, Readdress, vars
    <2>2. \/ pc' \in {"failed", "cleared"} \/ UNCHANGED <<pc, r, p>>
          \/ pc = "show" /\ pc' = "ok"
      BY <1>6 DEF ShowRules, GiveUp, Fault, ClearRules, Readdress, vars, script
    <2> QED
      BY <1>0, <2>1, <2>2, DroppingQuiet
  <1>7. CASE IgnoredFailure
    <2>1. UNCHANGED <<drops, r>> /\ pc \in {"snat", "clear"} /\ pc' \in {"accept", "create"}
      BY <1>7, ConfigAssumption DEF IgnoredFailure, Fault, Ignorable, DropsCounted, SportReliable
    <2> QED
      BY <1>0, <2>1, DroppingQuiet DEF BeforeTree
  <1>8. CASE ContainerRestart
    <2>1. pc' = "idle" /\ drops' = NoDrops
      BY <1>8 DEF ContainerRestart
    <2>2. \A proto \in Protocols : DroppedUpTo(proto, 1, 0)'
      BY <2>1, NoneDropped DEF DroppedUpTo
    <2> QED
      BY <2>1, <2>2 DEF Dropping, BeforeTree
  <1> QED
    BY <1>1, <1>2, <1>3, <1>4, <1>5, <1>6, <1>7, <1>8 DEF Next, Step

LEMMA DropsAlways ==
  ASSUME DropsCounted
  PROVE  Spec => []DropsExact
  <1>1. Init => Dropping
    BY NoneDropped DEF Init, Dropping, BeforeTree, DroppedUpTo
  <1>2. Inv /\ Inv' /\ Typed /\ Typed' /\ Dropping /\ [Next]_vars => Dropping'
    BY DroppingInductive DEF Typed, TablesTyped, DropsExact
  <1>3. Spec => []Inv
    BY InvAlways DEF DropsCounted
  <1>4. Inv /\ Typed /\ Dropping => DropsExact
    BY DEF Typed, TablesTyped, DropsExact
  <1> QED
    BY <1>1, <1>2, <1>3, <1>4, TypedAlways, PTL DEF Spec

(* With local services a request meets one DROP rule, a reply the netem of *)
(* its rule, which carries the delay of both directions.                   *)
THEOREM RoundTripLocal ==
  ASSUME DropsCounted
  PROVE  Spec => []RoundTripExact
  <1>1. ASSUME DropsExact PROVE RoundTripExact
    <2> SUFFICES ASSUME pc = "ok", WithFiltering,
                        NEW c \in RuleIds, NEW proto \in Protocols, NEW port \in PortsOf(c)
                 PROVE  LET request == RequestEffect(proto, port, Rules[c].loss)
                            reply   == Treatments(port, "sport")
                        IN  /\ request # {} /\ reply # {}
                            /\ \A q \in request, a \in reply :
                                 /\ q[1] + a[1] = 2 * Rules[c].delay
                                 /\ q[2] = Rules[c].loss /\ a[2] = Rules[c].loss
      BY DEF RoundTripExact
    <2>1. Owner(port) = c /\ port \in Ports
      BY OwnerUnique
    <2>2. Rules[c].delay \in Nat /\ Rules[c].loss \in Nat
      BY RuleShape
    <2>3. Treatments(port, "sport") = {<<2 * Rules[c].delay, Rules[c].loss>>}
      BY <1>1, <2>1, InvExact DEF DropsExact, EmulationExact, Condition, Dirs, DropsCounted
    <2>4. drops[<<proto, port>>] = 1
      BY <1>1, <2>1 DEF DropsExact, Dropping, AllDropped
    <2>5. RequestEffect(proto, port, Rules[c].loss) = {<<0, Rules[c].loss>>}
      BY <2>2, <2>4 DEF RequestEffect, DropsCounted
    <2> DEFINE request == RequestEffect(proto, port, Rules[c].loss)
               reply   == Treatments(port, "sport")
    <2>6. request # {} /\ reply # {}
      BY <2>3, <2>5
    <2>7. ASSUME NEW q \in request, NEW a \in reply
          PROVE  q[1] + a[1] = 2 * Rules[c].delay /\ q[2] = Rules[c].loss /\ a[2] = Rules[c].loss
      <3>1. q = <<0, Rules[c].loss>> /\ a = <<2 * Rules[c].delay, Rules[c].loss>>
        BY <2>3, <2>5
      <3>2. q[1] = 0 /\ q[2] = Rules[c].loss /\ a[1] = 2 * Rules[c].delay /\ a[2] = Rules[c].loss
        BY <3>1
      <3> QED
        BY <2>2, <3>2
    <2> QED
      BY <2>6, <2>7
  <1>2. Spec => []DropsExact
    BY DropsAlways
  <1> QED
    BY <1>1, <1>2, PTL
=============================================================================
