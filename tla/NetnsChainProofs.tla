-------------------------- MODULE NetnsChainProofs --------------------------
(***************************************************************************)
(* Proofs about the plugins that change a network namespace, for any       *)
(* attachments, lists of plugins and configurations, with failing calls    *)
(* and kills.                                                              *)
(***************************************************************************)
EXTENDS NetnsChain, SequenceTheorems, WellFoundedInduction, TLAPS

Plugins == {chain[i] : i \in DOMAIN chain}

\* No list names a plugin twice.
OnePerChain ==
    \A c \in Chains : \A i, j \in DOMAIN c : c[i] = c[j] => i = j

\* Where plugin stands in the list, seen from the process of a.
Behind(a, plugin) == \E j \in DOMAIN chain : chain[j] = plugin /\ j < proc[a].i
Ahead(a, plugin) == \E j \in DOMAIN chain : chain[j] = plugin /\ j > proc[a].i

\* The part of plugin is done in an ADD, or it is not begun; it is undone by a DEL.
Done(a, plugin) ==
    \/ Ready(a, plugin)
    \/ /\ proc[a].cmd = "add"
       /\ Behind(a, plugin) \/ (Running(a, plugin) /\ proc[a].todo = <<>>)
NotBegun(a, plugin) == proc[a].cmd = "add" /\ Ahead(a, plugin)
Undone(a, plugin) ==
    /\ proc[a].cmd = "del"
    /\ Ahead(a, plugin) \/ (Running(a, plugin) /\ proc[a].todo = <<>>)

Start == <<[op |-> "start"]>>

\* The runtime: which command runs, and what it can rely on.
IsProc(p) == p = [cmd |-> p.cmd, i |-> p.i, todo |-> p.todo]

ProcOK(a) ==
    /\ IsProc(proc[a])
    /\ proc[a].cmd \in {"none", "add", "del", "check"}
    /\ proc[a].cmd # "none" => proc[a].i \in DOMAIN chain
    /\ proc[a].cmd \in {"add", "del"} => told[a] = "unknown"
    /\ proc[a].cmd = "check" => told[a] = "ready"

LinkOK(a) ==
    /\ link[a] \in Links \cup {NoLink}
    /\ told[a] = "gone" => link[a] = NoLink \/ Stays(a)
    /\ proc[a].cmd = "add" \/ told[a] = "ready" => link[a] # NoLink

IpOK(a) ==
    /\ told[a] = "gone" => ip[a] = NoIP
    /\ proc[a].cmd = "add" \/ told[a] = "ready" => ip[a] \in IPs
    /\ \A b \in Att \ {a} : ip[a] # NoIP => ip[b] # ip[a]

ChainInv ==
    /\ chain \in Chains
    /\ proc = [a \in Att |-> proc[a]] /\ link = [a \in Att |-> link[a]]
    /\ told = [a \in Att |-> told[a]] /\ ip = [a \in Att |-> ip[a]]
    /\ \A a \in Att : ProcOK(a) /\ LinkOK(a) /\ IpOK(a)

-----------------------------------------------------------------------------
(* What the processes have left to do.                                     *)

Files == [mac : STRING, mtu : Nat, promisc : {"unset", "on", "off"}]
Rules == [src : IPs \X {4, 6}, table : SbrTables]

TuningAddCalls ==
    [op : {"start", "read attributes", "set mac", "set promisc", "set mtu"}]
    \cup [op : {"sysctl"}, keys : SUBSET SysctlKeys]
    \cup [op : {"truncate", "write"}, file : Files]
TuningDelCalls == [op : {"start", "restore mac", "restore promisc", "restore mtu", "remove"}]

VrfAddCalls ==
    [op : {"start", "list links", "vrf up", "get link"}]
    \cup [op : {"add vrf"}, table : Nat]
    \cup [op : {"set master", "restore"}, before : SUBSET STRING]
VrfDelCalls == [op : {"start", "reset master", "list members", "delete vrf"}]

SbrAddCalls ==
    [op : {"start"}]
    \cup [op : {"rule"}, fams : SUBSET {4, 6}, table : SbrTables]
    \cup [op : {"default"}, f : {4, 6}, table : SbrTables]
    \cup [op : {"list routes"}, table : SbrTables]
    \cup [op : {"delete"}, routes : SUBSET Routes, table : SbrTables]
    \cup [op : {"replace"}, r : Routes, table : SbrTables]
SbrDelCalls == [op : {"start", "abort"}] \cup [op : {"tidy"}, rules : SUBSET Rules]

CheckCalls == [op : {"start"}]

\* The removal of the file is the last call of all.
RemovalLast(s) == \A i \in DOMAIN s : s[i].op = "remove" => i = Len(s)

\* An attribute is restored from a file, to an interface.
Restores(a) ==
    /\ RemovalLast(proc[a].todo)
    /\ proc[a].todo \notin {<<>>, Start} => link[a] # NoLink /\ backup[a] \in Files

TuningTodo(a) ==
    Running(a, "tuning") =>
       \/ proc[a].cmd = "add" /\ proc[a].todo \in Seq(TuningAddCalls)
       \/ proc[a].cmd = "del" /\ proc[a].todo \in Seq(TuningDelCalls) /\ Restores(a)
       \/ proc[a].cmd = "check" /\ proc[a].todo \in Seq(CheckCalls)
VrfTodo(a) ==
    Running(a, "vrf") =>
       \/ proc[a].cmd = "add" /\ proc[a].todo \in Seq(VrfAddCalls)
       \/ proc[a].cmd = "del" /\ proc[a].todo \in Seq(VrfDelCalls)
       \/ proc[a].cmd = "check" /\ proc[a].todo \in Seq(CheckCalls)
SbrTodo(a) ==
    Running(a, "sbr") =>
       \/ proc[a].cmd = "add" /\ proc[a].todo \in Seq(SbrAddCalls)
       \/ proc[a].cmd = "del" /\ proc[a].todo \in Seq(SbrDelCalls)
       \/ proc[a].cmd = "check" /\ proc[a].todo \in Seq(CheckCalls)

TypeInv ==
    /\ ChainInv
    /\ backup \in [Att -> Files \cup {NoBackup, Torn}]
    /\ vrfConf \in VrfConfs
    /\ vrfs \in [VrfNames -> Nat]
    /\ rules \subseteq Rules
    /\ \A a \in Att : TuningTodo(a) /\ VrfTodo(a) /\ SbrTodo(a)

-----------------------------------------------------------------------------
(* The VRFs.                                                               *)

\* No interface of a list with plugin outlives its attachment.
FreshEachTime(plugin) ==
    \A c \in Chains, a \in Att :
       (\E i \in DOMAIN c : c[i] = plugin) => <<c, a>> \notin Persistent

\* Where some attachments leave the table of a VRF to the plugin and another
\* one does not, this is the only VRF whose table is left to the plugin.
OneChooser ==
    \A c \in VrfConfs : \A a, b, d \in Att :
       /\ c[a].vrfname = c[b].vrfname
       /\ c[a].table # 0 /\ c[b].table = 0 /\ c[d].table = 0
       => c[d].vrfname = c[a].vrfname

Bare(a) == link[a] # NoLink /\ link[a].master = "none" /\ link[a].v6 = Fresh[a].v6
Enslaved(a) == link[a] # NoLink /\ link[a].master = NameOf(a) /\ vrfs[NameOf(a)] # 0
Member(a) == Enslaved(a) /\ link[a].v6 = Fresh[a].v6
Loose(a) == link[a] = NoLink \/ link[a].master = "none"

VrfAdding(a) ==
    LET s == proc[a].todo IN
    \/ s = <<>> /\ Member(a)
    \/ s \in {Start, <<[op |-> "list links"]>>, <<[op |-> "get link"]>>,
              <<[op |-> "vrf up"], [op |-> "get link"]>>} /\ Bare(a)
    \/ /\ Bare(a)
       /\ \E t \in Nat \ {0} :
             /\ s = <<[op |-> "add vrf", table |-> t], [op |-> "vrf up"], [op |-> "get link"]>>
             /\ IF vrfConf[a].table = 0 THEN t \notin takenTables ELSE t = vrfConf[a].table
    \/ s = <<[op |-> "set master", before |-> Fresh[a].v6]>> /\ Bare(a)
    \/ /\ s = <<[op |-> "restore", before |-> Fresh[a].v6]>>
       /\ Enslaved(a) /\ link[a].v6 \subseteq Fresh[a].v6

VrfDeleting(a) ==
    LET s == proc[a].todo IN
    \/ s \in {<<>>, <<[op |-> "list members"]>>} /\ Loose(a)
    \/ s \in {Start, <<[op |-> "reset master"]>>}
    \/ s = <<[op |-> "delete vrf"]>> /\ Loose(a) /\ assignedInterfaces(NameOf(a)) = {}

VrfRuns(a) ==
    Running(a, "vrf") => /\ proc[a].cmd = "add" => VrfAdding(a)
                         /\ proc[a].cmd = "del" => VrfDeleting(a)
                         /\ proc[a].cmd = "check" => proc[a].todo \in {Start, <<>>}

\* Only its attachments have a VRF as their master, and only while it exists.
MasterOK(a) == link[a] # NoLink => link[a].master = "none" \/ Enslaved(a)

\* The tables that the plugin chose differ.
TablesApart ==
    \A a, b \in Att : vrfConf[a].table = 0 /\ vrfConf[b].table = 0 =>
       NameOf(a) = NameOf(b) \/ vrfs[NameOf(a)] = 0 \/ vrfs[NameOf(a)] # vrfs[NameOf(b)]

\* Somebody will remove the VRF.
Kept(n) ==
    vrfs[n] # 0 => \E a \in Att : NameOf(a) = n /\ told[a] # "gone" /\ ~Undone(a, "vrf")

OneVrfProcess ==
    \A a, b \in Att : Running(a, "vrf") /\ Running(b, "vrf") => a = b

VrfOK(a) ==
    /\ VrfRuns(a)
    /\ MasterOK(a)
    /\ Done(a, "vrf") => Member(a)
    /\ NotBegun(a, "vrf") => Bare(a)
    /\ Undone(a, "vrf") => Loose(a)

VrfInv ==
    /\ OneVrfProcess
    /\ TablesApart
    /\ \A n \in VrfNames : Kept(n)
    /\ "vrf" \notin Plugins => \A n \in VrfNames : vrfs[n] = 0
    /\ \A a \in Att : VrfOK(a)

-----------------------------------------------------------------------------
(* The attributes of an interface.                                         *)

Own(a) == /\ link[a].mac = Fresh[a].mac
          /\ link[a].mtu = Fresh[a].mtu
          /\ link[a].promisc = Fresh[a].promisc

Saved(a) == ConfigToRestore(TuningConf[a], Fresh[a])

\* Only what the configuration names is changed, and the file has the rest.
Recoverable(a) ==
    /\ TuningConf[a].mac = "" => link[a].mac = Fresh[a].mac
    /\ TuningConf[a].mtu = 0 => link[a].mtu = Fresh[a].mtu
    /\ ~TuningConf[a].promisc => link[a].promisc = Fresh[a].promisc
    /\ Own(a) \/ backup[a] = Saved(a)

\* A call does what the configuration wants, or undoes it.
Fits(a, k) ==
    /\ k.op # "start"
    /\ k.op \in {"truncate", "write"} => k.file = Saved(a)
    /\ k.op \in {"set mac", "restore mac"} => TuningConf[a].mac # ""
    /\ k.op \in {"set mtu", "restore mtu"} => TuningConf[a].mtu # 0
    /\ k.op \in {"set promisc", "restore promisc"} => TuningConf[a].promisc
AllFit(a, s) == \A i \in DOMAIN s : Fits(a, s[i])

Saving == {"read attributes", "truncate", "write"}
Setting == {"set mac", "set promisc", "set mtu"}

Has(s, ops) == \E i \in DOMAIN s : s[i].op \in ops
\* No attribute is set before the file is complete.
SavesFirst(s) ==
    \A i, j \in DOMAIN s : i < j /\ s[i].op \in Setting => s[j].op \notin Saving

TuningAdding(a) ==
    LET s == proc[a].todo IN
    \/ s = Start /\ Own(a)
    \/ /\ AllFit(a, s)
       /\ SavesFirst(s)
       /\ Has(s, Saving) => Own(a)
       /\ Has(s, Setting) /\ ~Has(s, Saving) => backup[a] = Saved(a)

\* An attribute is as it was, or yet to be restored.
Restoring(a, s) ==
    /\ link[a].mac = Fresh[a].mac \/ Has(s, {"restore mac"})
    /\ link[a].mtu = Fresh[a].mtu \/ Has(s, {"restore mtu"})
    /\ link[a].promisc = Fresh[a].promisc \/ Has(s, {"restore promisc"})

TuningDeleting(a) ==
    LET s == proc[a].todo IN
    \/ s = Start
    \/ link[a] = NoLink
    \/ /\ AllFit(a, s)
       /\ Restoring(a, s)
       /\ s # <<>> => backup[a] = Saved(a)

TuningRuns(a) ==
    Running(a, "tuning") => /\ proc[a].cmd = "add" => TuningAdding(a)
                            /\ proc[a].cmd = "del" => TuningDeleting(a)

TuningOK(a) ==
    /\ TuningRuns(a)
    /\ backup[a] \in {NoBackup, Torn, Saved(a)}
    /\ link[a] # NoLink =>
          /\ Recoverable(a)
          /\ told[a] = "gone" => Own(a)
          /\ NotBegun(a, "tuning") => Own(a)
          /\ Undone(a, "tuning") => Own(a)
          /\ "tuning" \notin Plugins => Own(a)

TuningInv == \A a \in Att : TuningOK(a)

-----------------------------------------------------------------------------
(* Source based routing.                                                   *)

\* Of the addresses in prevResult one at least may be the interface's own, and
\* the main plugin has put the routes of the interface into the main table.
Routable ==
    \A a \in Att : getIPCfgs(a) # {} /\ \A r \in Fresh[a].routes : r[1] = Main

RuleCall(F, t) == [op |-> "rule", fams |-> F, table |-> t]
DefaultCall(f, t) == [op |-> "default", f |-> f, table |-> t]
ListCall(t) == [op |-> "list routes", table |-> t]
DeleteCall(R, t) == [op |-> "delete", routes |-> R, table |-> t]
ReplaceCall(r, t) == [op |-> "replace", r |-> r, table |-> t]
TidyCall(R) == [op |-> "tidy", rules |-> R]
AbortCall == [op |-> "abort"]

\* A DEL that succeeds has looked at every rule of the address.
SbrDeleting(a) ==
    LET s == proc[a].todo IN
    \/ s \in {Start, <<AbortCall>>}
    \/ s = <<>> /\ RulesOf(a) = {}
    \/ s = <<TidyCall(RulesOf(a))>>
    \/ \E R \in SUBSET RulesOf(a) : s = <<TidyCall(R), AbortCall>>

TidyOK(a) ==
    /\ Running(a, "sbr") /\ proc[a].cmd = "del" => SbrDeleting(a)
    /\ Undone(a, "sbr") => RulesOf(a) = {}

CleanInv ==
    /\ SbrClean
    /\ "sbr" \notin Plugins => rules = {}
    /\ \A a \in Att : TidyOK(a)

\* Family f of a is looked up in table t, with its default route if it has one.
RuleFor(a, f, t) == [src |-> <<ip[a], f>>, table |-> t]
Default(a, f, t) == Gateway[a] => <<t, f, "default">> \in link[a].routes
Rooted(a, f, t) == RuleFor(a, f, t) \in RulesOf(a) /\ Default(a, f, t)
AllIn(a, t) == \A r \in RulesOf(a) : \E f \in getIPCfgs(a) : r = RuleFor(a, f, t)
Moved(a, t, r) == <<t, r[2], r[3]>> \in link[a].routes

\* An ADD that uses table t: nobody else has a rule for it, and its interface has
\* routes in no third table.
Mine(a, t) ==
    /\ AllIn(a, t)
    /\ \A r \in rules : r.table = t => r \in RulesOf(a)
    /\ \A q \in link[a].routes : q[1] \in {Main, t}

Untouched(a) == link[a].routes = Fresh[a].routes /\ RulesOf(a) = {}

\* The main table still has all routes of the interface.
Whole(a) == {r \in link[a].routes : r[1] = Main} = Fresh[a].routes

\* Where an ADD is that uses table t.
AtRule(a, t, F) ==
    /\ proc[a].todo = <<RuleCall(F, t), ListCall(t)>>
    /\ Whole(a)
    /\ \A f \in getIPCfgs(a) \ F : Rooted(a, f, t)
AtDefault(a, t, F, f) ==
    /\ proc[a].todo = <<DefaultCall(f, t), RuleCall(F, t), ListCall(t)>>
    /\ Whole(a)
    /\ RuleFor(a, f, t) \in RulesOf(a)
    /\ \A g \in getIPCfgs(a) \ (F \cup {f}) : Rooted(a, g, t)
AllRooted(a, t) == \A f \in getIPCfgs(a) : Rooted(a, f, t)
AtList(a, t) ==
    /\ proc[a].todo = <<ListCall(t)>>
    /\ Whole(a)
    /\ AllRooted(a, t)
AtDelete(a, t, R) ==
    /\ proc[a].todo = <<DeleteCall(R, t)>>
    /\ \A r \in Fresh[a].routes \ R : Moved(a, t, r)
    /\ AllRooted(a, t)
AtReplace(a, t, R, q) ==
    /\ proc[a].todo = <<ReplaceCall(q, t), DeleteCall(R, t)>>
    /\ \A r \in Fresh[a].routes \ (R \cup {q}) : Moved(a, t, r)
    /\ AllRooted(a, t)
\* What an ADD has made.
RoutedBy(a, t) ==
    /\ AllIn(a, t)
    /\ AllRooted(a, t)
    /\ \A r \in Fresh[a].routes : Moved(a, t, r)
Routed(a) == \E t \in SbrTables : RoutedBy(a, t)

AddingBy(a, t) ==
    \/ \E F \in SUBSET getIPCfgs(a) : AtRule(a, t, F)
    \/ \E F \in SUBSET getIPCfgs(a), f \in getIPCfgs(a) : AtDefault(a, t, F, f)
    \/ AtList(a, t)
    \/ \E R \in SUBSET Fresh[a].routes : AtDelete(a, t, R)
    \/ \E R \in SUBSET Fresh[a].routes, q \in Fresh[a].routes : AtReplace(a, t, R, q)

SbrAdding(a) ==
    \/ proc[a].todo = Start /\ Untouched(a)
    \/ proc[a].todo = <<>> /\ Routed(a)
    \/ \E t \in SbrTables : Mine(a, t) /\ AddingBy(a, t)

RouteOK(a) ==
    /\ Running(a, "sbr") /\ proc[a].cmd = "add" => SbrAdding(a)
    /\ Done(a, "sbr") => Routed(a)
    /\ NotBegun(a, "sbr") => Untouched(a)

\* The rules of an interface lead to all its routes that are not in the main
\* table, as long as there is one.
Leads(a) ==
    link[a] # NoLink =>
       \A r \in RulesOf(a), q \in link[a].routes : q[1] \in {Main, r.table}

\* Rules for one table are of one attachment.
RulesSplit == \A r, s \in rules : r.table = s.table => r.src[1] = s.src[1]

OneLock == \A a, b \in Att : HasLock(a) /\ HasLock(b) => a = b

RouteInv ==
    /\ OneLock
    /\ RulesSplit
    /\ \A a \in Att : Leads(a)
    /\ \A a \in Att : RouteOK(a)

-----------------------------------------------------------------------------
(* The runtime.                                                            *)

\* What a call of a plugin does to the runtime's state.
Steps(a) ==
    /\ ~Idle(a)
    /\ UNCHANGED <<chain, ip>>
    /\ \/ (\E calls : proc' = [proc EXCEPT ![a].todo = calls]) /\ UNCHANGED told
       \/ Ends(a)

LEMMA ChainFacts ==
  ASSUME ChainInv
  PROVE  /\ Len(chain) \in Nat /\ Len(chain) >= 1 /\ DOMAIN chain = 1 .. Len(chain)
  BY ChainAssumption DEF ChainInv

LEMMA CallSteps ==
  ASSUME NEW a \in Att, ~Idle(a), NEW calls,
         Do(a, calls) \/ Error(a) \/ Fault(a, calls)
  PROVE  Steps(a)
  BY DEF Do, Error, Fault, Steps

LEMMA TuningSteps ==
  ASSUME NEW a \in Att, Running(a, "tuning"), TuningStep(a)
  PROVE  Steps(a)
<1>1. ~Idle(a)
  BY DEF Running
<1>2. CASE TuningStart(a)
  BY <1>1, <1>2, CallSteps DEF TuningStart, TuningAdd, TuningDel, TuningCheck
<1>3. CASE WriteSysctl(a)
  BY <1>1, <1>3, CallSteps DEF WriteSysctl
<1>4. CASE ReadAttributes(a) \/ TruncateBackup(a) \/ WriteBackup(a) \/ SetAttribute(a)
  BY <1>1, <1>4, CallSteps DEF ReadAttributes, TruncateBackup, WriteBackup, SetAttribute
<1>5. CASE TuningFails(a) \/ RestoreAttribute(a) \/ RemoveBackup(a)
  BY <1>1, <1>5, CallSteps DEF TuningFails, RestoreAttribute, RemoveBackup
<1> QED
  BY <1>2, <1>3, <1>4, <1>5 DEF TuningStep

LEMMA VrfSteps ==
  ASSUME NEW a \in Att, Running(a, "vrf"), VrfStep(a)
  PROVE  Steps(a)
<1>1. ~Idle(a)
  BY DEF Running
<1>2. CASE VrfStart(a)
  BY <1>1, <1>2, CallSteps DEF VrfStart, VrfAdd, VrfDel, VrfCheck
<1>3. CASE ChooseTable(a) \/ AddVrf(a) \/ SetVrfUp(a) \/ GetLink(a)
  BY <1>1, <1>3, CallSteps DEF ChooseTable, AddVrf, SetVrfUp, GetLink
<1>4. CASE SetMaster(a) \/ RestoreAddress(a) \/ resetMaster(a) \/ ListMembers(a)
  BY <1>1, <1>4, CallSteps DEF SetMaster, RestoreAddress, resetMaster, ListMembers
<1>5. CASE DeleteVrf(a) \/ VrfFails(a)
  BY <1>1, <1>5, CallSteps DEF DeleteVrf, VrfFails
<1> QED
  BY <1>2, <1>3, <1>4, <1>5 DEF VrfStep

LEMMA SbrSteps ==
  ASSUME NEW a \in Att, Running(a, "sbr"), SbrStep(a)
  PROVE  Steps(a)
<1>1. ~Idle(a)
  BY DEF Running
<1>2. CASE SbrStart(a)
  BY <1>1, <1>2, CallSteps DEF SbrStart, SbrAdd, SbrDel, SbrCheck
<1>3. CASE AddRule(a) \/ AddDefault(a) \/ ListRoutes(a) \/ DeleteRoute(a)
  BY <1>1, <1>3, CallSteps DEF AddRule, AddDefault, ListRoutes, DeleteRoute
<1>4. CASE ReplaceRoute(a) \/ DeleteRuleOf(a) \/ SbrReturnsError(a) \/ SbrFails(a)
  BY <1>1, <1>4, CallSteps DEF ReplaceRoute, DeleteRuleOf, SbrReturnsError, SbrFails
<1> QED
  BY <1>2, <1>3, <1>4 DEF SbrStep

\* The processes after a call of a plugin.
LEMMA StepsFacts ==
  ASSUME ChainInv, NEW a \in Att, Steps(a)
  PROVE  /\ proc' = [b \in Att |-> proc'[b]] /\ told' = [b \in Att |-> told'[b]]
         /\ \A b \in Att \ {a} : proc'[b] = proc[b] /\ told'[b] = told[b]
         /\ \/ /\ told' = told
               /\ proc'[a].cmd = proc[a].cmd /\ proc'[a].i = proc[a].i
               /\ IsProc(proc'[a])
            \/ /\ proc'[a] = Quit
               /\ told'[a] \in {"refused", "unknown"}
<1>1. CASE (\E calls : proc' = [proc EXCEPT ![a].todo = calls]) /\ UNCHANGED told
  <2>1. PICK calls : proc' = [proc EXCEPT ![a].todo = calls]
    BY <1>1
  <2>2. IsProc(proc[a]) /\ proc = [b \in Att |-> proc[b]]
    BY DEF ChainInv, ProcOK
  <2>3. proc'[a] = [cmd |-> proc[a].cmd, i |-> proc[a].i, todo |-> calls]
    BY <2>1, <2>2 DEF IsProc
  <2>4. IsProc(proc'[a])
    BY <2>3 DEF IsProc
  <2> QED
    BY <1>1, <2>1, <2>2, <2>3, <2>4 DEF ChainInv
<1>2. CASE Ends(a)
  BY <1>2 DEF Ends, ChainInv, Quit
<1> QED
  BY <1>1, <1>2 DEF Steps

\* A call of another plugin leaves the processes of plugin alone.
LEMMA OtherPlugin ==
  ASSUME ChainInv, NEW a \in Att, Steps(a), NEW plugin, ~Running(a, plugin)
  PROVE  /\ ~Running(a, plugin)' /\ Plugins' = Plugins
         /\ \A b \in Att :
               /\ Running(b, plugin)' => Running(b, plugin) /\ proc'[b] = proc[b]
               /\ Done(b, plugin)' => Done(b, plugin)
               /\ NotBegun(b, plugin)' => NotBegun(b, plugin)
               /\ Undone(b, plugin)' => Undone(b, plugin)
               /\ told'[b] = "gone" <=> told[b] = "gone"
<1>1. chain' = chain
  BY DEF Steps
<1>2. ~Running(a, plugin)'
  BY <1>1, StepsFacts DEF Running, Idle, Quit
<1>3. ASSUME NEW b \in Att \ {a}
      PROVE  /\ Running(b, plugin)' => Running(b, plugin) /\ proc'[b] = proc[b]
             /\ Done(b, plugin)' => Done(b, plugin)
             /\ NotBegun(b, plugin)' => NotBegun(b, plugin)
             /\ Undone(b, plugin)' => Undone(b, plugin)
             /\ told'[b] = "gone" <=> told[b] = "gone"
  BY <1>1, <1>3, StepsFacts DEF Running, Idle, Done, NotBegun, Undone, Ready, Behind, Ahead
<1>4. /\ Done(a, plugin)' => Done(a, plugin)
      /\ NotBegun(a, plugin)' => NotBegun(a, plugin)
      /\ Undone(a, plugin)' => Undone(a, plugin)
  BY <1>1, <1>2, StepsFacts DEF Quit, Done, NotBegun, Undone, Ready, Behind, Ahead
<1>5. told'[a] = "gone" <=> told[a] = "gone"
  BY StepsFacts DEF Steps, Idle, ChainInv, ProcOK
<1> QED
  BY <1>1, <1>2, <1>3, <1>4, <1>5 DEF Plugins

\* A call of plugin changes what is known of its own process only.
LEMMA OwnPlugin ==
  ASSUME ChainInv, OnePerChain, NEW a \in Att, Steps(a), NEW plugin, Running(a, plugin)
  PROVE  /\ Plugins' = Plugins /\ plugin \in Plugins
         /\ \A b \in Att \ {a} :
               /\ proc'[b] = proc[b] /\ told'[b] = told[b]
               /\ Running(b, plugin)' <=> Running(b, plugin)
               /\ Done(b, plugin)' <=> Done(b, plugin)
               /\ NotBegun(b, plugin)' <=> NotBegun(b, plugin)
               /\ Undone(b, plugin)' <=> Undone(b, plugin)
         /\ told[a] # "gone" /\ told'[a] # "gone"
         /\ ~NotBegun(a, plugin)'
         /\ Running(a, plugin)' => /\ proc'[a].cmd = proc[a].cmd
                                   /\ Done(a, plugin)' <=>
                                         (Ready(a, plugin) \/
                                            (proc[a].cmd = "add" /\ proc'[a].todo = <<>>))
                                   /\ Undone(a, plugin)' <=>
                                         (proc[a].cmd = "del" /\ proc'[a].todo = <<>>)
         /\ ~Running(a, plugin)' => /\ ~Done(a, plugin)' /\ ~Undone(a, plugin)'
                                    /\ proc'[a] = Quit
<1>1. chain' = chain /\ chain \in Chains
  BY DEF Steps, ChainInv
<1>2. \A b \in Att \ {a} : proc'[b] = proc[b] /\ told'[b] = told[b]
  BY StepsFacts
<1>3. ASSUME NEW b \in Att \ {a}
      PROVE  /\ Running(b, plugin)' <=> Running(b, plugin)
             /\ Done(b, plugin)' <=> Done(b, plugin)
             /\ NotBegun(b, plugin)' <=> NotBegun(b, plugin)
             /\ Undone(b, plugin)' <=> Undone(b, plugin)
  BY <1>1, <1>2, <1>3 DEF Running, Idle, Done, NotBegun, Undone, Ready, Behind, Ahead
<1>4. proc[a].cmd \in {"add", "del", "check"} /\ proc[a].i \in DOMAIN chain
  BY DEF ChainInv, ProcOK, Running, Idle
<1>5. told[a] # "gone"
  BY <1>4 DEF ChainInv, ProcOK
<1>6. \A j \in DOMAIN chain : chain[j] = plugin => j = proc[a].i
  BY <1>1, <1>4 DEF OnePerChain, Running
<1>7. proc[a].i \in Nat
  BY <1>4, ChainFacts
<1>8. ~Behind(a, plugin) /\ ~Ahead(a, plugin)
  BY <1>6, <1>7 DEF Behind, Ahead
<1>9. CASE proc'[a] = Quit /\ told'[a] \in {"refused", "unknown"}
  <2>1. proc'[a].cmd = "none"
    BY <1>9 DEF Quit
  <2> QED
    BY <1>1, <1>2, <1>3, <1>4, <1>5, <1>9, <2>1
       DEF Running, Idle, Done, NotBegun, Undone, Ready, Plugins
<1>10. CASE told' = told /\ proc'[a].cmd = proc[a].cmd /\ proc'[a].i = proc[a].i
  <2>1. Running(a, plugin)' /\ ~Behind(a, plugin)' /\ ~Ahead(a, plugin)'
    BY <1>1, <1>8, <1>10 DEF Running, Idle, Behind, Ahead
  <2>2. Ready(a, plugin)' <=> Ready(a, plugin)
    BY <1>1, <1>10 DEF Ready
  <2>3. Plugins' = Plugins /\ plugin \in Plugins
    BY <1>1, <1>4 DEF Plugins, Running
  <2>4. /\ Done(a, plugin)' <=> (Ready(a, plugin) \/ (proc[a].cmd = "add" /\ proc'[a].todo = <<>>))
        /\ Undone(a, plugin)' <=> (proc[a].cmd = "del" /\ proc'[a].todo = <<>>)
        /\ ~NotBegun(a, plugin)'
    BY <1>10, <2>1, <2>2 DEF Done, Undone, NotBegun
  <2> QED
    BY <1>2, <1>3, <1>5, <1>10, <2>1, <2>3, <2>4
<1> QED
  BY <1>9, <1>10, StepsFacts

\* A step of the runtime starts plugin anew, or leaves what is known of it.
LEMMA RuntimeFacts ==
  ASSUME ChainInv, NEW a \in Att, Runtime(a), NEW plugin
  PROVE  /\ chain' = chain /\ Plugins' = Plugins
         /\ \A b \in Att \ {a} :
               /\ proc'[b] = proc[b] /\ told'[b] = told[b]
               /\ link'[b] = link[b] /\ ip'[b] = ip[b]
               /\ Running(b, plugin)' <=> Running(b, plugin)
               /\ Done(b, plugin)' <=> Done(b, plugin)
               /\ NotBegun(b, plugin)' <=> NotBegun(b, plugin)
               /\ Undone(b, plugin)' <=> Undone(b, plugin)
         /\ Running(a, plugin)' =>
               /\ proc'[a].todo = Start
               /\ proc'[a].cmd \in {"add", "del", "check"}
               /\ proc'[a].cmd = "add" => BeginAdd(a) \/ NotBegun(a, plugin)
               /\ Running(a, plugin) \/ MayRun(a, plugin)
         /\ Done(a, plugin)' => Done(a, plugin)
         /\ NotBegun(a, plugin)' => BeginAdd(a) \/ NotBegun(a, plugin)
         /\ Undone(a, plugin)' => Undone(a, plugin)
         /\ told'[a] = "gone" => EndDel(a) /\ (plugin \in Plugins => Undone(a, plugin))
<1> USE DEF ChainInv
<1>1. chain' = chain /\ Plugins' = Plugins
  BY DEF Runtime, BeginAdd, BeginDel, BeginCheck, NextPlugin, EndAdd, EndDel, Killed, Plugins
<1>2. ASSUME NEW b \in Att \ {a}
      PROVE  /\ proc'[b] = proc[b] /\ told'[b] = told[b]
             /\ link'[b] = link[b] /\ ip'[b] = ip[b]
  BY DEF Runtime, BeginAdd, BeginDel, BeginCheck, NextPlugin, EndAdd, EndDel, Killed, Ends
<1>3. ASSUME NEW b \in Att \ {a}
      PROVE  /\ Running(b, plugin)' <=> Running(b, plugin)
             /\ Done(b, plugin)' <=> Done(b, plugin)
             /\ NotBegun(b, plugin)' <=> NotBegun(b, plugin)
             /\ Undone(b, plugin)' <=> Undone(b, plugin)
  BY <1>1, <1>2, <1>3 DEF Running, Idle, Done, NotBegun, Undone, Ready, Behind, Ahead
<1>4. Start # <<>>
  BY DEF Start
<1>len. Len(chain) \in Nat /\ Len(chain) >= 1 /\ DOMAIN chain = 1 .. Len(chain)
  BY ChainFacts
<1> DEFINE Goal ==
              /\ Running(a, plugin)' =>
                    /\ proc'[a].todo = Start
                    /\ proc'[a].cmd \in {"add", "del", "check"}
                    /\ proc'[a].cmd = "add" => BeginAdd(a) \/ NotBegun(a, plugin)
                    /\ Running(a, plugin) \/ MayRun(a, plugin)
              /\ Done(a, plugin)' => Done(a, plugin)
              /\ NotBegun(a, plugin)' => BeginAdd(a) \/ NotBegun(a, plugin)
              /\ Undone(a, plugin)' => Undone(a, plugin)
              /\ told'[a] = "gone" => EndDel(a) /\ (plugin \in Plugins => Undone(a, plugin))
<1>5. ASSUME BeginAdd(a) PROVE Goal
  <2>1. proc'[a] = [cmd |-> "add", i |-> 1, todo |-> Start] /\ told'[a] = "unknown"
    BY <1>5 DEF BeginAdd, Begin, Start
  <2>2. proc'[a].cmd = "add" /\ proc'[a].i = 1 /\ proc'[a].todo = Start
    BY <2>1
  <2>3. ~Behind(a, plugin)'
    BY <1>1, <1>len, <2>2 DEF Behind
  <2>4. Running(a, plugin)' => MayRun(a, plugin)
    BY <1>1, <1>5, <2>2 DEF Running, BeginAdd
  <2> QED
    BY <1>4, <1>5, <2>1, <2>2, <2>3, <2>4 DEF Done, Undone, Ready
<1>6. ASSUME BeginDel(a) PROVE Goal
  <2>1. proc'[a] = [cmd |-> "del", i |-> Len(chain), todo |-> Start] /\ told'[a] = "unknown"
    BY <1>6 DEF BeginDel, Begin, Start
  <2>2. proc'[a].cmd = "del" /\ proc'[a].i = Len(chain) /\ proc'[a].todo = Start
    BY <2>1
  <2>3. ~Ahead(a, plugin)'
    BY <1>1, <1>len, <2>2 DEF Ahead
  <2>4. Running(a, plugin)' => MayRun(a, plugin)
    BY <1>1, <1>6, <2>2 DEF Running, BeginDel
  <2> QED
    BY <1>4, <2>1, <2>2, <2>3, <2>4 DEF Done, NotBegun, Undone, Ready
<1>7. ASSUME BeginCheck(a) PROVE Goal
  <2>1. proc'[a] = [cmd |-> "check", i |-> 1, todo |-> Start] /\ told' = told /\ told[a] = "ready"
    BY <1>7 DEF BeginCheck, Begin, Start
  <2>2. proc'[a].cmd = "check" /\ proc'[a].i = 1 /\ proc'[a].todo = Start
    BY <2>1
  <2>3. Running(a, plugin)' => MayRun(a, plugin)
    BY <1>1, <1>7, <2>2 DEF Running, BeginCheck
  <2> QED
    BY <1>1, <2>1, <2>2, <2>3 DEF Done, NotBegun, Undone, Ready
<1>8. ASSUME NextPlugin(a) PROVE Goal
  <2>1. PICK j \in 1 .. Len(chain) :
           /\ j = IF proc[a].cmd = "del" THEN proc[a].i - 1 ELSE proc[a].i + 1
           /\ MayRun(a, chain[j])
           /\ proc' = [proc EXCEPT ![a] = Begin(proc[a].cmd, j)]
           /\ ~Idle(a) /\ proc[a].todo = <<>> /\ told' = told
    BY <1>8 DEF NextPlugin
  <2>2. proc'[a] = [cmd |-> proc[a].cmd, i |-> j, todo |-> Start]
    BY <2>1 DEF Begin, Start
  <2>3. proc'[a].cmd = proc[a].cmd /\ proc'[a].i = j /\ proc'[a].todo = Start
    BY <2>2
  <2>4. proc[a].cmd \in {"add", "del", "check"} /\ proc[a].i \in DOMAIN chain
    BY <2>1 DEF ProcOK, Idle
  <2>5. Running(a, plugin)' => chain[j] = plugin /\ MayRun(a, plugin)
    BY <1>1, <2>1, <2>3 DEF Running
  <2>6. proc[a].cmd = "add" /\ Running(a, plugin)' => NotBegun(a, plugin)
    BY <1>len, <2>1, <2>4, <2>5 DEF NotBegun, Ahead
  <2>7. proc[a].cmd = "add" /\ Behind(a, plugin)' =>
           Behind(a, plugin) \/ Running(a, plugin)
    <3> SUFFICES ASSUME proc[a].cmd = "add", NEW k \in DOMAIN chain, chain[k] = plugin, k < j
                 PROVE  Behind(a, plugin) \/ Running(a, plugin)
      BY <1>1, <2>3 DEF Behind
    <3>1. j = proc[a].i + 1 /\ proc[a].i \in Nat /\ k \in Nat
      BY <1>len, <2>1, <2>4
    <3>2. k < proc[a].i \/ k = proc[a].i
      BY <3>1
    <3> QED
      BY <2>1, <3>2 DEF Behind, Running
  <2>8. proc[a].cmd = "add" /\ Ahead(a, plugin)' => Ahead(a, plugin)
    BY <1>1, <1>len, <2>1, <2>3, <2>4 DEF Ahead
  <2>9. proc[a].cmd = "del" /\ Ahead(a, plugin)' => Ahead(a, plugin) \/ Running(a, plugin)
    <3> SUFFICES ASSUME proc[a].cmd = "del", NEW k \in DOMAIN chain, chain[k] = plugin, k > j
                 PROVE  Ahead(a, plugin) \/ Running(a, plugin)
      BY <1>1, <2>3 DEF Ahead
    <3>1. j = proc[a].i - 1 /\ proc[a].i \in Nat /\ k \in Nat /\ j \in Nat
      BY <1>len, <2>1, <2>4
    <3>2. k > proc[a].i \/ k = proc[a].i
      BY <3>1
    <3> QED
      BY <2>1, <3>2 DEF Ahead, Running
  <2>10. Ready(a, plugin)' => Ready(a, plugin)
    BY <1>1, <2>1 DEF Ready
  <2>11. told'[a] # "gone"
    BY <2>1, <2>4 DEF ProcOK
  <2> QED
    BY <1>4, <2>1, <2>3, <2>4, <2>5, <2>6, <2>7, <2>8, <2>9, <2>10, <2>11
       DEF Done, NotBegun, Undone
<1>9. ASSUME EndAdd(a) PROVE Goal
  <2>1. /\ proc'[a] = Quit /\ told'[a] = "ready" /\ proc[a].todo = <<>>
        /\ proc[a].cmd \in {"add", "check"} /\ proc[a].i = Len(chain)
    BY <1>9 DEF EndAdd
  <2>2. Ready(a, plugin)' => Done(a, plugin)
    <3> SUFFICES ASSUME NEW k \in DOMAIN chain, chain[k] = plugin
                 PROVE  Done(a, plugin)
      BY <1>1 DEF Ready
    <3>1. CASE proc[a].cmd = "check"
      BY <3>1 DEF Done, Ready, ProcOK
    <3>2. CASE proc[a].cmd = "add"
      <4>1. k < proc[a].i \/ k = proc[a].i
        BY <1>len, <2>1
      <4> QED
        BY <2>1, <3>2, <4>1 DEF Done, Behind, Running, Idle
    <3> QED
      BY <2>1, <3>1, <3>2
  <2> QED
    BY <2>1, <2>2 DEF Quit, Running, Idle, Done, NotBegun, Undone
<1>10. ASSUME EndDel(a) PROVE Goal
  <2>1. /\ proc'[a] = Quit /\ told'[a] = "gone" /\ proc[a].todo = <<>>
        /\ proc[a].cmd = "del" /\ proc[a].i = 1
    BY <1>10 DEF EndDel
  <2>2. ASSUME plugin \in Plugins PROVE Undone(a, plugin)
    <3>1. PICK k \in DOMAIN chain : chain[k] = plugin
      BY <2>2 DEF Plugins
    <3>2. k > 1 \/ k = 1
      BY <1>len
    <3> QED
      BY <2>1, <3>1, <3>2 DEF Undone, Ahead, Running, Idle
  <2> QED
    BY <1>10, <2>1, <2>2 DEF Quit, Running, Idle, Done, NotBegun, Undone, Ready
<1>11. ASSUME Killed(a) PROVE Goal
  <2>1. proc'[a] = Quit /\ told'[a] \in {"refused", "unknown"}
    BY <1>11 DEF Killed, Ends
  <2> QED
    BY <2>1 DEF Quit, Running, Idle, Done, NotBegun, Undone, Ready
<1>12. Goal
  BY <1>5, <1>6, <1>7, <1>8, <1>9, <1>10, <1>11 DEF Runtime
<1> QED
  BY <1>1, <1>2, <1>3, <1>12

-----------------------------------------------------------------------------
(* What the plugins do to the interfaces.                                  *)

\* What a call does to the process that makes it.
LEMMA DoFacts ==
  ASSUME ChainInv, NEW a \in Att, NEW calls, Do(a, calls)
  PROVE  /\ proc'[a].todo = calls
         /\ proc'[a].cmd = proc[a].cmd /\ proc'[a].i = proc[a].i
         /\ told' = told /\ chain' = chain /\ ip' = ip
         /\ \A plugin : Running(a, plugin)' <=> Running(a, plugin)
<1>1. IsProc(proc[a]) /\ proc = [b \in Att |-> proc[b]]
  BY DEF ChainInv, ProcOK
<1>2. proc'[a] = [cmd |-> proc[a].cmd, i |-> proc[a].i, todo |-> calls]
  BY <1>1 DEF Do, IsProc
<1> QED
  BY <1>2 DEF Do, Running, Idle

LEMMA ErrorFacts ==
  ASSUME ChainInv, NEW a \in Att, Error(a)
  PROVE  /\ proc'[a] = Quit
         /\ \A plugin : ~Running(a, plugin)'
BY DEF ChainInv, Error, Ends, Running, Idle, Quit

LEMMA FaultFacts ==
  ASSUME ChainInv, NEW a \in Att, NEW calls, Fault(a, calls)
  PROVE  /\ calls = Failed => proc'[a] = Quit /\ \A plugin : ~Running(a, plugin)'
         /\ calls # Failed => /\ proc'[a].todo = calls
                              /\ proc'[a].cmd = proc[a].cmd
                              /\ told' = told
<1>1. IsProc(proc[a]) /\ proc = [b \in Att |-> proc[b]] /\ told = [b \in Att |-> told[b]]
  BY DEF ChainInv, ProcOK
<1>2. CASE calls = Failed
  BY <1>1, <1>2 DEF Fault, Ends, Running, Idle, Quit
<1>3. CASE calls # Failed
  <2>1. proc'[a] = [cmd |-> proc[a].cmd, i |-> proc[a].i, todo |-> calls]
    BY <1>1, <1>3 DEF Fault, IsProc
  <2> QED
    BY <1>3, <2>1 DEF Fault
<1> QED
  BY <1>2, <1>3

\* The interfaces are there as before, and still interfaces.
SameLinks ==
    /\ link' = [b \in Att |-> link'[b]]
    /\ \A b \in Att : /\ link'[b] \in Links \cup {NoLink}
                      /\ link'[b] = NoLink <=> link[b] = NoLink

\* The fields that a plugin leaves alone.
SameTuning(b) == /\ link'[b].mac = link[b].mac
                 /\ link'[b].mtu = link[b].mtu
                 /\ link'[b].promisc = link[b].promisc
SameVrf(b) == link'[b].master = link[b].master /\ link'[b].v6 = link[b].v6
SameSbr(b) == link'[b].routes = link[b].routes

LEMMA SameLink ==
  ASSUME ChainInv, UNCHANGED link
  PROVE  SameLinks /\ \A b \in Att : SameTuning(b) /\ SameVrf(b) /\ SameSbr(b)
BY DEF ChainInv, LinkOK, SameLinks, SameTuning, SameVrf, SameSbr

LEMMA HeadTail ==
  ASSUME NEW S, NEW s \in Seq(S), s # <<>>
  PROVE  /\ Head(s) \in S /\ Tail(s) \in Seq(S) /\ Head(s) = s[1]
         /\ Len(s) \in Nat /\ Len(s) >= 1 /\ Len(Tail(s)) = Len(s) - 1
         /\ DOMAIN s = 1 .. Len(s) /\ DOMAIN Tail(s) = 1 .. (Len(s) - 1)
         /\ \A i \in 1 .. (Len(s) - 1) : Tail(s)[i] = s[i + 1]
BY EmptySeq, HeadTailProperties, ElementOfSeq, LenProperties

LEMMA RemovalLastTail ==
  ASSUME NEW S, NEW s \in Seq(S), s # <<>>, RemovalLast(s)
  PROVE  RemovalLast(Tail(s)) /\ (Head(s).op = "remove" => Tail(s) = <<>>)
<1>1. /\ Tail(s) \in Seq(S) /\ Head(s) = s[1]
      /\ Len(s) \in Nat /\ Len(s) >= 1 /\ Len(Tail(s)) = Len(s) - 1
      /\ DOMAIN s = 1 .. Len(s) /\ DOMAIN Tail(s) = 1 .. (Len(s) - 1)
      /\ \A i \in 1 .. (Len(s) - 1) : Tail(s)[i] = s[i + 1]
  BY HeadTail
<1>2. RemovalLast(Tail(s))
  BY <1>1 DEF RemovalLast
<1>3. ASSUME Head(s).op = "remove" PROVE Tail(s) = <<>>
  <2>1. 1 \in DOMAIN s /\ s[1].op = "remove"
    BY <1>1, <1>3
  <2>2. Len(s) = 1
    BY <2>1 DEF RemovalLast
  <2>3. Len(Tail(s)) = 0
    BY <1>1, <2>2
  <2> QED
    BY <1>1, <2>3, EmptySeq
<1> QED
  BY <1>2, <1>3

LEMMA RemovalLastConcat ==
  ASSUME NEW S, NEW s \in Seq(S), \A i \in DOMAIN s : s[i].op # "remove",
         NEW t \in Seq(S), RemovalLast(t)
  PROVE  RemovalLast(s \o t)
<1>1. /\ s \o t \in Seq(S) /\ Len(s) \in Nat /\ Len(t) \in Nat
      /\ Len(s \o t) = Len(s) + Len(t) /\ DOMAIN (s \o t) = 1 .. (Len(s) + Len(t))
      /\ DOMAIN s = 1 .. Len(s) /\ DOMAIN t = 1 .. Len(t)
      /\ \A i \in 1 .. (Len(s) + Len(t)) : (s \o t)[i] =
            IF i <= Len(s) THEN s[i] ELSE t[i - Len(s)]
  BY ConcatProperties, LenProperties
<1>2. ASSUME NEW i \in 1 .. (Len(s) + Len(t)), (s \o t)[i].op = "remove"
      PROVE  i = Len(s) + Len(t)
  <2>1. CASE i <= Len(s)
    BY <1>1, <1>2, <2>1
  <2>2. CASE i > Len(s)
    <3>1. i - Len(s) \in DOMAIN t /\ t[i - Len(s)].op = "remove"
      BY <1>1, <1>2, <2>2
    <3>2. i - Len(s) = Len(t)
      BY <3>1 DEF RemovalLast
    <3> QED
      BY <1>1, <3>2
  <2> QED
    BY <1>1, <2>1, <2>2
<1> QED
  BY <1>1, <1>2 DEF RemovalLast

LEMMA RemovalLastFront ==
  ASSUME NEW S, NEW s \in Seq(S), RemovalLast(s)
  PROVE  KeepFile(s) \in Seq(S) /\ RemovalLast(KeepFile(s))
<1>1. Len(s) \in Nat /\ DOMAIN s = 1 .. Len(s) /\ \A i \in 1 .. Len(s) : s[i] \in S
  BY LenProperties, ElementOfSeq
<1> DEFINE r == SubSeq(s, 1, Len(s) - 1)
<1>2. CASE s # <<>> /\ s[Len(s)].op = "remove"
  <2>1. Len(s) >= 1
    BY <1>1, <1>2, EmptySeq
  <2>2. \A i \in 1 .. (Len(s) - 1) : s[i] \in S
    BY <1>1
  <2>3. /\ r \in Seq(S) /\ Len(r) = Len(s) - 1
        /\ \A i \in 1 .. (Len(s) - 1) : r[i] = s[i]
    BY <1>1, <2>1, <2>2, SubSeqProperties
  <2>4. DOMAIN r = 1 .. (Len(s) - 1)
    BY <2>3, LenProperties
  <2>5. RemovalLast(r)
    BY <1>1, <2>1, <2>3, <2>4 DEF RemovalLast
  <2> QED
    BY <1>2, <2>3, <2>5 DEF KeepFile
<1>3. CASE ~(s # <<>> /\ s[Len(s)].op = "remove")
  BY <1>3 DEF KeepFile
<1> QED
  BY <1>2, <1>3

\* Which command a call of tuning belongs to.
LEMMA TuningCall ==
  ASSUME TypeInv, NEW a \in Att, NEW op, op # "start", At(a, "tuning", op)
  PROVE  \/ /\ proc[a].cmd = "add" /\ link[a] # NoLink
            /\ Call(a) \in TuningAddCalls /\ Rest(a) \in Seq(TuningAddCalls)
            /\ Call(a).op = op
         \/ /\ proc[a].cmd = "del" /\ link[a] # NoLink /\ backup[a] \in Files
            /\ op \in {"restore mac", "restore promisc", "restore mtu", "remove"}
            /\ Rest(a) \in Seq(TuningDelCalls) /\ RemovalLast(Rest(a))
            /\ op = "remove" => Rest(a) = <<>>
<1>1. Running(a, "tuning") /\ proc[a].todo # <<>> /\ Call(a).op = op /\ proc[a].todo # Start
  BY DEF At, Call, Start
<1>2. CASE proc[a].cmd = "add" /\ proc[a].todo \in Seq(TuningAddCalls)
  BY <1>1, <1>2, HeadTail DEF TypeInv, ChainInv, LinkOK, Call, Rest
<1>3. CASE proc[a].cmd = "del" /\ proc[a].todo \in Seq(TuningDelCalls) /\ Restores(a)
  <2>1. Call(a) \in TuningDelCalls /\ Rest(a) \in Seq(TuningDelCalls)
    BY <1>1, <1>3, HeadTail DEF Call, Rest
  <2>2. RemovalLast(Rest(a)) /\ (Call(a).op = "remove" => Rest(a) = <<>>)
    BY <1>1, <1>3, RemovalLastTail DEF Restores, Call, Rest
  <2>3. op \in {"restore mac", "restore promisc", "restore mtu", "remove"}
    BY <1>1, <2>1 DEF TuningDelCalls
  <2> QED
    BY <1>1, <1>3, <2>1, <2>2, <2>3 DEF Restores
<1>4. CASE proc[a].cmd = "check" /\ proc[a].todo \in Seq(CheckCalls)
  <2>1. Call(a) \in CheckCalls
    BY <1>1, <1>4, HeadTail DEF Call
  <2> QED
    BY <1>1, <2>1 DEF CheckCalls
<1> QED
  BY <1>1, <1>2, <1>3, <1>4 DEF TypeInv, TuningTodo

LEMMA NotFailed ==
  ASSUME NEW s \in Seq(TuningDelCalls)
  PROVE  s # Failed
<1> SUFFICES ASSUME s = Failed PROVE FALSE
  OBVIOUS
<1>1. s[1] = [op |-> "abort"] /\ Len(s) = 1
  BY DEF Failed
<1>2. s[1] \in TuningDelCalls
  BY <1>1, ElementOfSeq
<1>3. s[1].op = "abort"
  BY <1>1
<1> QED
  BY <1>2, <1>3 DEF TuningDelCalls

\* A change of one field of an interface.
LEMMA FieldSet ==
  ASSUME ChainInv, NEW a \in Att, link[a] # NoLink
  PROVE  /\ \A x \in STRING : link' = [link EXCEPT ![a].mac = x] =>
               /\ SameLinks /\ (\A b \in Att : SameVrf(b) /\ SameSbr(b))
               /\ \A b \in Att \ {a} : link'[b] = link[b]
               /\ link'[a].mac = x /\ link'[a].mtu = link[a].mtu
               /\ link'[a].promisc = link[a].promisc
         /\ \A x \in Nat : link' = [link EXCEPT ![a].mtu = x] =>
               /\ SameLinks /\ (\A b \in Att : SameVrf(b) /\ SameSbr(b))
               /\ \A b \in Att \ {a} : link'[b] = link[b]
               /\ link'[a].mtu = x /\ link'[a].mac = link[a].mac
               /\ link'[a].promisc = link[a].promisc
         /\ \A x \in BOOLEAN : link' = [link EXCEPT ![a].promisc = x] =>
               /\ SameLinks /\ (\A b \in Att : SameVrf(b) /\ SameSbr(b))
               /\ \A b \in Att \ {a} : link'[b] = link[b]
               /\ link'[a].promisc = x /\ link'[a].mac = link[a].mac
               /\ link'[a].mtu = link[a].mtu
<1>1. /\ link = [b \in Att |-> link[b]] /\ link[a] \in Links /\ NoLink \notin Links
      /\ \A b \in Att : link[b] \in Links \cup {NoLink}
  BY FreshAssumption DEF ChainInv, LinkOK
<1>2. ASSUME NEW x \in STRING, link' = [link EXCEPT ![a].mac = x]
      PROVE  /\ SameLinks /\ (\A b \in Att : SameVrf(b) /\ SameSbr(b))
             /\ \A b \in Att \ {a} : link'[b] = link[b]
             /\ link'[a].mac = x /\ link'[a].mtu = link[a].mtu
             /\ link'[a].promisc = link[a].promisc
  <2> DEFINE r == [link[a] EXCEPT !.mac = x]
  <2>1. /\ r \in Links /\ r.mac = x /\ r.mtu = link[a].mtu /\ r.promisc = link[a].promisc
        /\ r.master = link[a].master /\ r.v6 = link[a].v6 /\ r.routes = link[a].routes
    BY <1>1 DEF Links
  <2>2. link' = [link EXCEPT ![a] = r]
    BY <1>2
  <2> HIDE DEF r
  <2> QED
    BY <1>1, <2>1, <2>2 DEF SameLinks, SameVrf, SameSbr
<1>3. ASSUME NEW x \in Nat, link' = [link EXCEPT ![a].mtu = x]
      PROVE  /\ SameLinks /\ (\A b \in Att : SameVrf(b) /\ SameSbr(b))
             /\ \A b \in Att \ {a} : link'[b] = link[b]
             /\ link'[a].mtu = x /\ link'[a].mac = link[a].mac
             /\ link'[a].promisc = link[a].promisc
  <2> DEFINE r == [link[a] EXCEPT !.mtu = x]
  <2>1. /\ r \in Links /\ r.mtu = x /\ r.mac = link[a].mac /\ r.promisc = link[a].promisc
        /\ r.master = link[a].master /\ r.v6 = link[a].v6 /\ r.routes = link[a].routes
    BY <1>1 DEF Links
  <2>2. link' = [link EXCEPT ![a] = r]
    BY <1>3
  <2> HIDE DEF r
  <2> QED
    BY <1>1, <2>1, <2>2 DEF SameLinks, SameVrf, SameSbr
<1>4. ASSUME NEW x \in BOOLEAN, link' = [link EXCEPT ![a].promisc = x]
      PROVE  /\ SameLinks /\ (\A b \in Att : SameVrf(b) /\ SameSbr(b))
             /\ \A b \in Att \ {a} : link'[b] = link[b]
             /\ link'[a].promisc = x /\ link'[a].mac = link[a].mac
             /\ link'[a].mtu = link[a].mtu
  <2> DEFINE r == [link[a] EXCEPT !.promisc = x]
  <2>1. /\ r \in Links /\ r.promisc = x /\ r.mac = link[a].mac /\ r.mtu = link[a].mtu
        /\ r.master = link[a].master /\ r.v6 = link[a].v6 /\ r.routes = link[a].routes
    BY <1>1 DEF Links
  <2>2. link' = [link EXCEPT ![a] = r]
    BY <1>4
  <2> HIDE DEF r
  <2> QED
    BY <1>1, <2>1, <2>2 DEF SameLinks, SameVrf, SameSbr
<1> QED
  BY <1>2, <1>3, <1>4

LEMMA SavedType ==
  ASSUME TypeInv, NEW a \in Att, link[a] # NoLink
  PROVE  ConfigToRestore(TuningConf[a], link[a]) \in Files
<1>1. link[a] \in Links
  BY DEF TypeInv, ChainInv, LinkOK
<1> DEFINE f == ConfigToRestore(TuningConf[a], link[a])
           m == IF TuningConf[a].mac # "" THEN link[a].mac ELSE ""
           u == IF TuningConf[a].mtu # 0 THEN link[a].mtu ELSE 0
           p == IF ~TuningConf[a].promisc THEN "unset"
                ELSE IF link[a].promisc THEN "on" ELSE "off"
<1>4. m \in STRING
  <2>1. link[a].mac \in STRING
    BY <1>1 DEF Links
  <2> QED
    BY <2>1, StringAssumption
<1>5. u \in Nat
  BY <1>1 DEF Links
<1>2. p \in {"unset", "on", "off"}
  OBVIOUS
<1>3. f = [mac |-> m, mtu |-> u, promisc |-> p]
  BY DEF ConfigToRestore
<1> HIDE DEF m, u, p
<1> QED
  BY <1>2, <1>3, <1>4, <1>5 DEF Files

\* Lists of calls.
LEMMA Optional ==
  ASSUME NEW S, NEW k \in S, NEW c \in BOOLEAN
  PROVE  (IF c THEN <<k>> ELSE <<>>) \in Seq(S)
OBVIOUS

LEMMA OptionalKeeps ==
  ASSUME NEW k, k.op # "remove", NEW c \in BOOLEAN, NEW s, s = IF c THEN <<k>> ELSE <<>>
  PROVE  \A i \in DOMAIN s : s[i].op # "remove"
<1>1. CASE c
  <2>1. s = <<k>>
    BY <1>1
  <2> QED
    BY <2>1
<1>2. CASE ~c
  <2>1. s = <<>>
    BY <1>2
  <2> QED
    BY <2>1
<1> QED
  BY <1>1, <1>2

LEMMA Short ==
  ASSUME NEW S
  PROVE  /\ <<>> \in Seq(S)
         /\ \A k \in S : <<k>> \in Seq(S)
         /\ \A k, l \in S : <<k, l>> \in Seq(S)
         /\ \A k, l, m \in S : <<k, l, m>> \in Seq(S)
OBVIOUS

LEMMA Cons ==
  ASSUME NEW S, NEW k \in S, NEW s \in Seq(S)
  PROVE  <<k>> \o s \in Seq(S)
BY ConcatProperties

TuningAddOps == {"sysctl", "read attributes", "truncate", "write",
                 "set mac", "set promisc", "set mtu"}
TuningDelOps == {"restore mac", "restore promisc", "restore mtu", "remove"}

LEMMA TuningAddCall ==
  ASSUME TypeInv, NEW a \in Att, NEW op \in TuningAddOps, At(a, "tuning", op)
  PROVE  /\ proc[a].cmd = "add" /\ link[a] # NoLink
         /\ Call(a) \in TuningAddCalls /\ Rest(a) \in Seq(TuningAddCalls)
         /\ Call(a).op = op
<1>1. op # "start" /\ op \notin {"restore mac", "restore promisc", "restore mtu", "remove"}
  BY DEF TuningAddOps
<1> QED
  BY <1>1, TuningCall

LEMMA TuningDelCall ==
  ASSUME TypeInv, NEW a \in Att, NEW op \in TuningDelOps, At(a, "tuning", op)
  PROVE  /\ proc[a].cmd = "del" /\ link[a] # NoLink /\ backup[a] \in Files
         /\ Rest(a) \in Seq(TuningDelCalls) /\ RemovalLast(Rest(a))
         /\ op = "remove" => Rest(a) = <<>>
<1>1. op # "start"
  BY DEF TuningDelOps
<1>2. ASSUME Call(a) \in TuningAddCalls, Call(a).op = op PROVE FALSE
  <2>1. Call(a).op \in {"start"} \cup TuningAddOps
    BY <1>2 DEF TuningAddCalls, TuningAddOps
  <2> QED
    BY <1>2, <2>1 DEF TuningAddOps, TuningDelOps
<1> QED
  BY <1>1, <1>2, TuningCall

LEMMA TuningTouches ==
  ASSUME TypeInv, NEW a \in Att, Running(a, "tuning"), TuningStep(a)
  PROVE  /\ SameLinks
         /\ \A b \in Att : SameSbr(b) /\ SameVrf(b)
         /\ \A b \in Att \ {a} : SameTuning(b) /\ backup'[b] = backup[b]
         /\ backup' \in [Att -> Files \cup {NoBackup, Torn}]
         /\ TuningTodo(a)'
<1> DEFINE S == TuningAddCalls
           T == TuningDelCalls
<1>1. /\ ChainInv
      /\ backup \in [Att -> Files \cup {NoBackup, Torn}]
  BY DEF TypeInv
<1>2. CASE TuningStart(a)
  <2>1. UNCHANGED link /\ UNCHANGED backup
    BY <1>2 DEF TuningStart, tuningVars
  <2>2. CASE TuningAdd(a)
    <3> DEFINE conf == TuningConf[a]
               c1 == <<[op |-> "sysctl", keys |-> DOMAIN conf.sysctl]>>
               c2 == IF ChangesLink(conf) THEN <<[op |-> "read attributes"]>> ELSE <<>>
               c3 == IF conf.mac # "" THEN <<[op |-> "set mac"]>> ELSE <<>>
               c4 == IF conf.promisc THEN <<[op |-> "set promisc"]>> ELSE <<>>
               c5 == IF conf.mtu # 0 THEN <<[op |-> "set mtu"]>> ELSE <<>>
    <3>1. c1 \in Seq(S)
      <4>1. DOMAIN conf.sysctl \in SUBSET SysctlKeys
        BY DEF SysctlKeys
      <4>2. [op |-> "sysctl", keys |-> DOMAIN conf.sysctl] \in S
        BY <4>1 DEF TuningAddCalls
      <4> QED
        BY <4>2
    <3>2. /\ [op |-> "read attributes"] \in S /\ [op |-> "set mac"] \in S
          /\ [op |-> "set promisc"] \in S /\ [op |-> "set mtu"] \in S
      BY DEF TuningAddCalls
    <3>3. c2 \in Seq(S) /\ c3 \in Seq(S) /\ c4 \in Seq(S) /\ c5 \in Seq(S)
      BY <3>2, Optional
    <3>4. proc[a].cmd = "add" /\ Do(a, c1 \o c2 \o c3 \o c4 \o c5)
      BY <2>2 DEF TuningAdd
    <3> HIDE DEF c1, c2, c3, c4, c5, S
    <3>5. c1 \o c2 \o c3 \o c4 \o c5 \in Seq(S)
      BY <3>1, <3>3, ConcatProperties
    <3>6. proc'[a].todo \in Seq(S) /\ proc'[a].cmd = "add"
      BY <1>1, <3>4, <3>5, DoFacts
    <3> QED
      BY <1>1, <2>1, <3>6, SameLink DEF TuningTodo, S
  <2>3. CASE TuningDel(a)
    <3> DEFINE c1 == IF backup[a].mtu # 0 THEN <<[op |-> "restore mtu"]>> ELSE <<>>
               c2 == IF backup[a].mac # "" THEN <<[op |-> "restore mac"]>> ELSE <<>>
               c3 == IF backup[a].promisc # "unset" THEN <<[op |-> "restore promisc"]>> ELSE <<>>
               c4 == <<[op |-> "remove"]>>
    <3>1. /\ [op |-> "restore mtu"] \in T /\ [op |-> "restore mac"] \in T
          /\ [op |-> "restore promisc"] \in T /\ [op |-> "remove"] \in T
      BY DEF TuningDelCalls
    <3>2. c1 \in Seq(T) /\ c2 \in Seq(T) /\ c3 \in Seq(T) /\ c4 \in Seq(T)
      BY <3>1, Optional
    <3>k. /\ [op |-> "restore mtu"].op # "remove" /\ [op |-> "restore mac"].op # "remove"
          /\ [op |-> "restore promisc"].op # "remove"
      OBVIOUS
    <3>3. /\ \A i \in DOMAIN c1 : c1[i].op # "remove"
          /\ \A i \in DOMAIN c2 : c2[i].op # "remove"
          /\ \A i \in DOMAIN c3 : c3[i].op # "remove"
      BY <3>k, OptionalKeeps
    <3>l. RemovalLast(c4)
      BY DEF RemovalLast
    <3>4. proc[a].cmd = "del"
      BY <2>3 DEF TuningDel
    <3>5. CASE backup[a] \in {NoBackup, Torn} \/ link[a] = NoLink
      <4>1. Do(a, <<>>)
        BY <2>3, <3>5 DEF TuningDel
      <4>2. proc'[a].todo = <<>> /\ proc'[a].cmd = "del"
        BY <1>1, <3>4, <4>1, DoFacts
      <4>3. RemovalLast(<<>>) /\ <<>> \in Seq(T)
        BY DEF RemovalLast
      <4> QED
        BY <1>1, <2>1, <4>2, <4>3, SameLink DEF TuningTodo, Restores
    <3>6. CASE backup[a] \in Files /\ link[a] # NoLink
      <4>1. backup[a] \notin {NoBackup, Torn}
        BY <3>6, TuningAssumption DEF Files
      <4>2. Do(a, c1 \o c2 \o c3 \o c4)
        BY <2>3, <3>6, <4>1 DEF TuningDel
      <4> HIDE DEF c1, c2, c3, c4, T
      <4>4. c3 \o c4 \in Seq(T) /\ RemovalLast(c3 \o c4)
        BY <3>2, <3>3, <3>l, RemovalLastConcat, ConcatProperties
      <4>8. c1 \o c2 \in Seq(T)
        BY <3>2, ConcatProperties
      <4>11. \A s, t, u \in Seq(T) : (s \o t) \o u = s \o (t \o u)
        BY ConcatAssociative
      <4>9. (c1 \o c2) \o c3 \o c4 = (c1 \o c2) \o (c3 \o c4)
        BY <3>2, <4>11, <4>8
      <4>10. \A u \in Seq(T) : (c1 \o c2) \o u = c1 \o (c2 \o u)
        BY <3>2, <4>11
      <4>3. c1 \o c2 \o c3 \o c4 = c1 \o (c2 \o (c3 \o c4))
        BY <4>4, <4>9, <4>10
      <4>5. c2 \o (c3 \o c4) \in Seq(T) /\ RemovalLast(c2 \o (c3 \o c4))
        BY <3>2, <3>3, <4>4, RemovalLastConcat, ConcatProperties
      <4>6. c1 \o (c2 \o (c3 \o c4)) \in Seq(T) /\ RemovalLast(c1 \o (c2 \o (c3 \o c4)))
        BY <3>2, <3>3, <4>5, RemovalLastConcat, ConcatProperties
      <4>7. proc'[a].todo \in Seq(T) /\ RemovalLast(proc'[a].todo) /\ proc'[a].cmd = "del"
        BY <1>1, <3>4, <4>2, <4>3, <4>6, DoFacts
      <4> QED
        BY <1>1, <2>1, <3>6, <4>7, SameLink DEF TuningTodo, Restores, T
    <3> QED
      BY <1>1, <3>5, <3>6
  <2>4. CASE TuningCheck(a)
    <3>1. CASE Do(a, <<>>)
      BY <1>1, <2>1, <2>4, <3>1, DoFacts, EmptySeq, SameLink DEF TuningCheck, TuningTodo
    <3>2. CASE Error(a)
      BY <1>1, <2>1, <3>2, ErrorFacts, SameLink DEF TuningTodo
    <3> QED
      BY <2>4, <3>1, <3>2 DEF TuningCheck
  <2> QED
    BY <1>2, <2>2, <2>3, <2>4 DEF TuningStart
<1>3. CASE WriteSysctl(a)
  <2>1. UNCHANGED link /\ UNCHANGED backup
    BY <1>3 DEF WriteSysctl
  <2>2. /\ proc[a].cmd = "add" /\ Call(a) \in S /\ Rest(a) \in Seq(S)
        /\ Call(a).op = "sysctl"
    BY <1>3, TuningAddCall DEF WriteSysctl, TuningAddOps
  <2>3. CASE Error(a)
    BY <1>1, <2>1, <2>3, ErrorFacts, SameLink DEF TuningTodo
  <2>4. CASE Do(a, Rest(a))
    BY <1>1, <2>1, <2>2, <2>4, DoFacts, SameLink DEF TuningTodo
  <2>5. ASSUME NEW key, Do(a, <<[Call(a) EXCEPT !.keys = @ \ {key}]>> \o Rest(a))
        PROVE  TuningTodo(a)'
    <3> DEFINE k == [Call(a) EXCEPT !.keys = @ \ {key}]
    <3>1. Call(a) \in [op : {"sysctl"}, keys : SUBSET SysctlKeys]
      BY <2>2 DEF TuningAddCalls
    <3>2. k \in [op : {"sysctl"}, keys : SUBSET SysctlKeys]
      BY <3>1
    <3>3. k \in S
      BY <3>2 DEF TuningAddCalls
    <3> HIDE DEF k, S
    <3>4. <<k>> \o Rest(a) \in Seq(S)
      BY <2>2, <3>3, Cons
    <3>5. Do(a, <<k>> \o Rest(a))
      BY <2>5 DEF k
    <3>6. proc'[a].todo \in Seq(S) /\ proc'[a].cmd = "add"
      BY <1>1, <2>2, <3>4, <3>5, DoFacts
    <3> QED
      BY <3>6 DEF TuningTodo, S
  <2> QED
    BY <1>1, <1>3, <2>1, <2>3, <2>4, <2>5, SameLink DEF WriteSysctl
<1>4. CASE ReadAttributes(a)
  <2>1. UNCHANGED link /\ UNCHANGED backup
    BY <1>4 DEF ReadAttributes, tuningVars
  <2>2. proc[a].cmd = "add" /\ link[a] # NoLink /\ Rest(a) \in Seq(S)
    BY <1>4, TuningAddCall DEF ReadAttributes, TuningAddOps
  <2> DEFINE k == [op |-> "truncate", file |-> ConfigToRestore(TuningConf[a], link[a])]
  <2>3. k \in S
    BY <2>2, SavedType DEF TuningAddCalls
  <2>4. Do(a, <<k>> \o Rest(a))
    BY <1>4, <2>2 DEF ReadAttributes
  <2> HIDE DEF k, S
  <2>6. <<k>> \o Rest(a) \in Seq(S)
    BY <2>2, <2>3, Cons
  <2>5. proc'[a].todo \in Seq(S) /\ proc'[a].cmd = "add"
    BY <1>1, <2>2, <2>4, <2>6, DoFacts
  <2> QED
    BY <1>1, <2>1, <2>5, SameLink DEF TuningTodo, S
<1>5. CASE TruncateBackup(a)
  <2>1. UNCHANGED link /\ backup' = [backup EXCEPT ![a] = Torn]
    BY <1>5 DEF TruncateBackup
  <2>2. /\ proc[a].cmd = "add" /\ Call(a) \in S /\ Rest(a) \in Seq(S)
        /\ Call(a).op = "truncate"
    BY <1>5, TuningAddCall DEF TruncateBackup, TuningAddOps
  <2> DEFINE k == [Call(a) EXCEPT !.op = "write"]
  <2>3. Call(a) \in [op : {"truncate", "write"}, file : Files]
    BY <2>2 DEF TuningAddCalls
  <2>4. k \in [op : {"truncate", "write"}, file : Files]
    BY <2>3
  <2>5. k \in S
    BY <2>4 DEF TuningAddCalls
  <2>6. Do(a, <<k>> \o Rest(a))
    BY <1>5 DEF TruncateBackup
  <2> HIDE DEF k, S
  <2>8. <<k>> \o Rest(a) \in Seq(S)
    BY <2>2, <2>5, Cons
  <2>7. proc'[a].todo \in Seq(S) /\ proc'[a].cmd = "add"
    BY <1>1, <2>2, <2>6, <2>8, DoFacts
  <2> QED
    BY <1>1, <2>1, <2>7, SameLink DEF TuningTodo, S
<1>6. CASE WriteBackup(a)
  <2>1. UNCHANGED link /\ backup' = [backup EXCEPT ![a] = Call(a).file] /\ Do(a, Rest(a))
    BY <1>6 DEF WriteBackup
  <2>2. /\ proc[a].cmd = "add" /\ Call(a) \in S /\ Rest(a) \in Seq(S)
        /\ Call(a).op = "write"
    BY <1>6, TuningAddCall DEF WriteBackup, TuningAddOps
  <2>3. Call(a).file \in Files
    BY <2>2 DEF TuningAddCalls
  <2>4. proc'[a].todo \in Seq(S) /\ proc'[a].cmd = "add"
    BY <1>1, <2>1, <2>2, DoFacts
  <2> QED
    BY <1>1, <2>1, <2>3, <2>4, SameLink DEF TuningTodo
<1>7. CASE SetAttribute(a)
  <2>1. UNCHANGED backup /\ Do(a, Rest(a))
    BY <1>7 DEF SetAttribute, tuningVars
  <2>2. proc[a].cmd = "add" /\ link[a] # NoLink /\ Rest(a) \in Seq(S)
    BY <1>7, TuningAddCall DEF SetAttribute, TuningAddOps
  <2>3. \/ link' = [link EXCEPT ![a].mac = TuningConf[a].mac]
        \/ link' = [link EXCEPT ![a].promisc = TRUE]
        \/ link' = [link EXCEPT ![a].mtu = TuningConf[a].mtu]
    BY <1>7 DEF SetAttribute
  <2>4. /\ SameLinks /\ (\A b \in Att : SameVrf(b) /\ SameSbr(b))
        /\ \A b \in Att \ {a} : link'[b] = link[b]
    BY <1>1, <2>2, <2>3, FieldSet, TuningAssumption
  <2>5. proc'[a].todo \in Seq(S) /\ proc'[a].cmd = "add"
    BY <1>1, <2>1, <2>2, DoFacts
  <2> QED
    BY <1>1, <2>1, <2>4, <2>5 DEF TuningTodo, SameTuning
<1>8. CASE TuningFails(a)
  <2>1. UNCHANGED link /\ UNCHANGED backup /\ Fault(a, Failed)
    BY <1>8 DEF TuningFails, tuningVars
  <2> QED
    BY <1>1, <2>1, FaultFacts, SameLink DEF TuningTodo
<1>9. CASE RestoreAttribute(a)
  <2>1. UNCHANGED backup
    BY <1>9 DEF RestoreAttribute, tuningVars
  <2>2. PICK op \in {"restore mtu", "restore mac", "restore promisc", "remove"} :
           /\ At(a, "tuning", op)
           /\ \/ /\ Do(a, Rest(a))
                 /\ op # "remove"
                 /\ \/ link' = [link EXCEPT ![a].mac = backup[a].mac]
                    \/ link' = [link EXCEPT ![a].mtu = backup[a].mtu]
                    \/ link' = [link EXCEPT ![a].promisc = (backup[a].promisc = "on")]
              \/ UNCHANGED link /\ Fault(a, KeepFile(Rest(a)))
    BY <1>9 DEF RestoreAttribute
  <2>3. /\ proc[a].cmd = "del" /\ link[a] # NoLink /\ backup[a] \in Files
        /\ Rest(a) \in Seq(T) /\ RemovalLast(Rest(a))
    BY <2>2, TuningDelCall DEF TuningDelOps
  <2>4. CASE Do(a, Rest(a)) /\ ~UNCHANGED link
    <3>1. backup[a].mac \in STRING /\ backup[a].mtu \in Nat /\ (backup[a].promisc = "on") \in BOOLEAN
      BY <2>3 DEF Files
    <3>2. /\ SameLinks /\ (\A b \in Att : SameVrf(b) /\ SameSbr(b))
          /\ \A b \in Att \ {a} : link'[b] = link[b]
      BY <1>1, <2>2, <2>3, <2>4, <3>1, FieldSet
    <3>3. proc'[a].todo = Rest(a) /\ proc'[a].cmd = "del"
      BY <1>1, <2>3, <2>4, DoFacts
    <3>4. TuningTodo(a)'
      BY <2>1, <2>3, <3>2, <3>3 DEF TuningTodo, Restores, SameLinks
    <3> QED
      BY <1>1, <2>1, <3>2, <3>4 DEF SameTuning
  <2>5. CASE UNCHANGED link
    <3>1. /\ KeepFile(Rest(a)) \in Seq(T) /\ RemovalLast(KeepFile(Rest(a)))
          /\ KeepFile(Rest(a)) # Failed
      BY <2>3, RemovalLastFront, NotFailed
    <3>2. proc'[a].todo \in {Rest(a), KeepFile(Rest(a))} /\ proc'[a].cmd = "del"
      BY <1>1, <2>2, <2>3, <3>1, DoFacts, FaultFacts
    <3>3. TuningTodo(a)'
      BY <2>1, <2>3, <2>5, <3>1, <3>2 DEF TuningTodo, Restores
    <3> QED
      BY <1>1, <2>1, <2>5, <3>3, SameLink
  <2> QED
    BY <2>2, <2>4, <2>5
<1>10. CASE RemoveBackup(a)
  <2>1. UNCHANGED link /\ backup' = [backup EXCEPT ![a] = NoBackup] /\ Do(a, Rest(a))
    BY <1>10 DEF RemoveBackup
  <2>2. proc[a].cmd = "del" /\ Rest(a) = <<>>
    BY <1>10, TuningDelCall DEF RemoveBackup, TuningDelOps
  <2>3. proc'[a].todo = <<>> /\ proc'[a].cmd = "del"
    BY <1>1, <2>1, <2>2, DoFacts
  <2>4. TuningTodo(a)'
    BY <2>3 DEF TuningTodo, Restores, RemovalLast
  <2> QED
    BY <1>1, <2>1, <2>4, SameLink
<1> QED
  BY <1>2, <1>3, <1>4, <1>5, <1>6, <1>7, <1>8, <1>9, <1>10 DEF TuningStep

\* Which command a call of vrf belongs to.
LEMMA VrfCall ==
  ASSUME TypeInv, NEW a \in Att, NEW op, op # "start", At(a, "vrf", op)
  PROVE  \/ /\ proc[a].cmd = "add" /\ link[a] # NoLink
            /\ Call(a) \in VrfAddCalls /\ Rest(a) \in Seq(VrfAddCalls)
            /\ Call(a).op = op
         \/ /\ proc[a].cmd = "del"
            /\ op \in {"reset master", "list members", "delete vrf"}
<1>1. Running(a, "vrf") /\ proc[a].todo # <<>> /\ Call(a).op = op
  BY DEF At, Call
<1>2. CASE proc[a].cmd = "add" /\ proc[a].todo \in Seq(VrfAddCalls)
  BY <1>1, <1>2, HeadTail DEF TypeInv, ChainInv, LinkOK, Call, Rest
<1>3. CASE proc[a].cmd = "del" /\ proc[a].todo \in Seq(VrfDelCalls)
  <2>1. Call(a) \in VrfDelCalls
    BY <1>1, <1>3, HeadTail DEF Call
  <2> QED
    BY <1>1, <1>3, <2>1 DEF VrfDelCalls
<1>4. CASE proc[a].cmd = "check" /\ proc[a].todo \in Seq(CheckCalls)
  <2>1. Call(a) \in CheckCalls
    BY <1>1, <1>4, HeadTail DEF Call
  <2> QED
    BY <1>1, <2>1 DEF CheckCalls
<1> QED
  BY <1>1, <1>2, <1>3, <1>4 DEF TypeInv, VrfTodo

VrfAddOps == {"list links", "add vrf", "vrf up", "get link", "set master", "restore"}
VrfDelOps == {"reset master", "list members", "delete vrf"}

LEMMA VrfAddCall ==
  ASSUME TypeInv, NEW a \in Att, NEW op \in VrfAddOps, At(a, "vrf", op)
  PROVE  /\ proc[a].cmd = "add" /\ link[a] # NoLink
         /\ Call(a) \in VrfAddCalls /\ Rest(a) \in Seq(VrfAddCalls)
         /\ Call(a).op = op
<1>1. op # "start" /\ op \notin {"reset master", "list members", "delete vrf"}
  BY DEF VrfAddOps
<1> QED
  BY <1>1, VrfCall

LEMMA VrfDelCall ==
  ASSUME TypeInv, NEW a \in Att, NEW op \in VrfDelOps, At(a, "vrf", op)
  PROVE  proc[a].cmd = "del"
<1>1. op # "start"
  BY DEF VrfDelOps
<1>2. ASSUME Call(a) \in VrfAddCalls, Call(a).op = op PROVE FALSE
  <2>1. Call(a).op \in {"start"} \cup VrfAddOps
    BY <1>2 DEF VrfAddCalls, VrfAddOps
  <2> QED
    BY <1>2, <2>1 DEF VrfAddOps, VrfDelOps
<1> QED
  BY <1>1, <1>2, VrfCall

LEMMA NamesOf ==
  ASSUME TypeInv, NEW a \in Att
  PROVE  /\ NameOf(a) \in VrfNames /\ NameOf(a) \in STRING /\ NameOf(a) # "none"
         /\ vrfConf[a].table \in Nat
<1>1. vrfConf \in VrfConfs /\ vrfConf \in [Att -> [vrfname : STRING \ {"none"}, table : Nat]]
  BY VrfAssumption DEF TypeInv
<1> QED
  BY <1>1 DEF NameOf, VrfNames

\* A change of one interface.
LEMMA LinkSet ==
  ASSUME ChainInv, NEW a \in Att, link[a] # NoLink, NEW r \in Links,
         link' = [link EXCEPT ![a] = r]
  PROVE  SameLinks /\ link'[a] = r /\ \A b \in Att \ {a} : link'[b] = link[b]
BY FreshAssumption DEF ChainInv, LinkOK, SameLinks

\* The least of some numbers.
LEMMA LeastNat ==
  ASSUME NEW T \in SUBSET Nat, T # {}
  PROVE  Min(T) \in T /\ \A y \in T : Min(T) <= y
<1> DEFINE R == {ss \in Nat \X Nat : ss[1] < ss[2]}
<1>1. R = OpToRel(<, Nat)
  BY DEF OpToRel
<1>2. IsWellFoundedOn(R, Nat)
  BY <1>1, NatLessThanWellFounded
<1> HIDE DEF R
<1>3. PICK x \in T : \A y \in T : ~(<<y, x>> \in R)
  BY <1>2, WFMin
<1>4. \A y \in T : ~(y < x)
  BY <1>3 DEF R
<1>5. \A y \in T : x <= y
  BY <1>4
<1> QED
  BY <1>5 DEF Min

LEMMA FreeTable ==
  ASSUME TypeInv, NEW free, free = (1 .. MaxTable) \ takenTables, free # {}
  PROVE  Min(free) \in Nat \ {0} /\ Min(free) \notin takenTables
<1>1. free \in SUBSET Nat
  BY VrfAssumption
<1>2. Min(free) \in free
  BY <1>1, LeastNat
<1> QED
  BY <1>2, VrfAssumption

LEMMA VrfTouches ==
  ASSUME TypeInv, NEW a \in Att, Running(a, "vrf"), VrfStep(a)
  PROVE  /\ SameLinks
         /\ \A b \in Att : SameTuning(b) /\ SameSbr(b)
         /\ vrfConf' = vrfConf
         /\ vrfs' \in [VrfNames -> Nat]
         /\ VrfTodo(a)'
<1> DEFINE S == VrfAddCalls
           T == VrfDelCalls
<1>1. /\ ChainInv /\ vrfConf \in VrfConfs /\ vrfs \in [VrfNames -> Nat]
  BY DEF TypeInv
<1>2. /\ [op |-> "list links"] \in S /\ [op |-> "vrf up"] \in S /\ [op |-> "get link"] \in S
      /\ \A t \in Nat : [op |-> "add vrf", table |-> t] \in S
      /\ \A v \in SUBSET STRING : [op |-> "set master", before |-> v] \in S
      /\ \A v \in SUBSET STRING : [op |-> "restore", before |-> v] \in S
  BY DEF VrfAddCalls
<1>3. /\ [op |-> "reset master"] \in T /\ [op |-> "list members"] \in T
      /\ [op |-> "delete vrf"] \in T
  BY DEF VrfDelCalls
<1> HIDE DEF S, T
<1>4. ASSUME UNCHANGED <<link, vrfVars>>, VrfTodo(a)'
      PROVE  /\ SameLinks
             /\ \A b \in Att : SameTuning(b) /\ SameSbr(b)
             /\ vrfConf' = vrfConf
             /\ vrfs' \in [VrfNames -> Nat]
             /\ VrfTodo(a)'
  BY <1>1, <1>4, SameLink DEF vrfVars
<1>5. ASSUME Error(a) \/ Fault(a, Failed) PROVE VrfTodo(a)'
  BY <1>1, <1>5, ErrorFacts, FaultFacts DEF VrfTodo
<1>6. ASSUME NEW calls \in Seq(S), proc[a].cmd = "add", Do(a, calls) PROVE VrfTodo(a)'
  BY <1>1, <1>6, DoFacts DEF VrfTodo, S
<1>7. ASSUME NEW calls \in Seq(T), proc[a].cmd = "del", Do(a, calls) PROVE VrfTodo(a)'
  BY <1>1, <1>7, DoFacts DEF VrfTodo, T
<1>8. CASE VrfStart(a)
  <2>1. CASE VrfAdd(a)
    <3>1. <<[op |-> "list links"]>> \in Seq(S) /\ <<[op |-> "get link"]>> \in Seq(S)
      BY <1>2, Short
    <3>2. VrfTodo(a)'
      BY <1>5, <1>6, <2>1, <3>1 DEF VrfAdd
    <3> QED
      BY <1>4, <1>8, <3>2 DEF VrfStart
  <2>2. CASE VrfDel(a)
    <3>1. <<>> \in Seq(T) /\ <<[op |-> "reset master"]>> \in Seq(T)
      BY <1>3, Short
    <3>2. VrfTodo(a)'
      BY <1>7, <2>2, <3>1 DEF VrfDel
    <3> QED
      BY <1>4, <1>8, <3>2 DEF VrfStart
  <2>3. CASE VrfCheck(a)
    <3>1. VrfTodo(a)'
      <4>1. <<>> \in Seq(CheckCalls)
        BY Short
      <4>2. proc'[a].cmd = "check" /\ proc'[a].todo = <<>>
        BY <1>1, <2>3, DoFacts DEF VrfCheck
      <4> QED
        BY <4>1, <4>2 DEF VrfTodo
    <3> QED
      BY <1>4, <1>8, <3>1 DEF VrfStart
  <2> QED
    BY <1>8, <2>1, <2>2, <2>3 DEF VrfStart
<1>9. CASE ChooseTable(a)
  <2> DEFINE free == (1..MaxTable) \ takenTables
             t == IF vrfConf[a].table # 0 THEN vrfConf[a].table ELSE Min(free)
             k == [op |-> "add vrf", table |-> t]
  <2>1. proc[a].cmd = "add"
    BY <1>9, VrfAddCall DEF ChooseTable, VrfAddOps
  <2>2. CASE Error(a)
    BY <1>4, <1>5, <1>9, <2>2 DEF ChooseTable
  <2>3. CASE ~Error(a)
    <3>1. /\ vrfConf[a].table # 0 \/ free # {}
          /\ Do(a, <<k, [op |-> "vrf up"], [op |-> "get link"]>>)
      BY <1>9, <2>3 DEF ChooseTable
    <3>2. t \in Nat
      BY <3>1, NamesOf, FreeTable
    <3>3. k \in S
      BY <1>2, <3>2
    <3> HIDE DEF k
    <3>4. <<k, [op |-> "vrf up"], [op |-> "get link"]>> \in Seq(S)
      BY <1>2, <3>3, Short
    <3> QED
      BY <1>4, <1>6, <1>9, <2>1, <3>1, <3>4 DEF ChooseTable
  <2> QED
    BY <2>2, <2>3
<1>10. CASE AddVrf(a)
  <2>1. proc[a].cmd = "add" /\ Call(a) \in VrfAddCalls /\ Rest(a) \in Seq(S) /\ Call(a).op = "add vrf"
    BY <1>10, VrfAddCall DEF AddVrf, VrfAddOps, S
  <2>2. Call(a).table \in Nat
    BY <2>1 DEF VrfAddCalls
  <2>3. vrfs' \in [VrfNames -> Nat] /\ vrfConf' = vrfConf /\ UNCHANGED link
    BY <1>1, <1>10, <2>2, NamesOf DEF AddVrf
  <2>4. VrfTodo(a)'
    BY <1>5, <1>6, <1>10, <2>1 DEF AddVrf
  <2> QED
    BY <1>1, <2>3, <2>4, SameLink
<1>11. CASE SetVrfUp(a)
  <2>1. proc[a].cmd = "add" /\ Rest(a) \in Seq(S)
    BY <1>11, VrfAddCall DEF SetVrfUp, VrfAddOps, S
  <2> QED
    BY <1>4, <1>5, <1>6, <1>11, <2>1 DEF SetVrfUp
<1>12. CASE GetLink(a)
  <2>1. proc[a].cmd = "add" /\ link[a] # NoLink
    BY <1>12, VrfAddCall DEF GetLink, VrfAddOps
  <2>2. link[a] \in Links
    BY <1>1, <2>1 DEF ChainInv, LinkOK
  <2>3. link[a].v6 \in SUBSET STRING
    BY <2>2 DEF Links
  <2>4. <<[op |-> "set master", before |-> link[a].v6]>> \in Seq(S)
    BY <1>2, <2>3, Short
  <2> QED
    BY <1>4, <1>5, <1>6, <1>12, <2>1, <2>4 DEF GetLink
<1>13. CASE SetMaster(a)
  <2>1. /\ proc[a].cmd = "add" /\ link[a] # NoLink /\ Call(a) \in VrfAddCalls
        /\ Call(a).op = "set master"
    BY <1>13, VrfAddCall DEF SetMaster, VrfAddOps
  <2>2. Call(a).before \in SUBSET STRING
    BY <2>1 DEF VrfAddCalls
  <2>3. CASE vrfs[NameOf(a)] = 0
    BY <1>4, <1>5, <1>13, <2>3 DEF SetMaster, vrfVars
  <2>4. CASE vrfs[NameOf(a)] # 0
    <3> DEFINE r == [link[a] EXCEPT !.master = NameOf(a), !.v6 = IF KeepAddr THEN @ ELSE {}]
    <3>1. link[a] \in Links
      BY <1>1, <2>1 DEF ChainInv, LinkOK
    <3>2. /\ r \in Links /\ r.mac = link[a].mac /\ r.mtu = link[a].mtu
          /\ r.promisc = link[a].promisc /\ r.routes = link[a].routes
      BY <3>1, NamesOf DEF Links
    <3>3. link' = [link EXCEPT ![a] = r]
      BY <1>13, <2>4 DEF SetMaster
    <3> HIDE DEF r
    <3>4. SameLinks /\ link'[a] = r /\ \A b \in Att \ {a} : link'[b] = link[b]
      BY <1>1, <2>1, <3>2, <3>3, LinkSet
    <3>5. <<[op |-> "restore", before |-> Call(a).before]>> \in Seq(S)
      BY <1>2, <2>2, Short
    <3>6. VrfTodo(a)'
      BY <1>6, <1>13, <2>1, <2>4, <3>5 DEF SetMaster
    <3> QED
      BY <1>1, <1>13, <3>2, <3>4, <3>6 DEF SetMaster, vrfVars, SameTuning, SameSbr
  <2> QED
    BY <2>3, <2>4
<1>14. CASE RestoreAddress(a)
  <2>1. /\ proc[a].cmd = "add" /\ link[a] # NoLink /\ Call(a) \in VrfAddCalls
        /\ Call(a).op = "restore" /\ Rest(a) \in Seq(S)
    BY <1>14, VrfAddCall DEF RestoreAddress, VrfAddOps, S
  <2>2. Call(a).before \in SUBSET STRING
    BY <2>1 DEF VrfAddCalls
  <2>3. CASE UNCHANGED link /\ Do(a, <<>>)
    <3>1. <<>> \in Seq(S)
      BY EmptySeq
    <3> QED
      BY <1>4, <1>6, <1>14, <2>1, <2>3, <3>1 DEF RestoreAddress, vrfVars
  <2>4. ASSUME NEW i \in Call(a).before \ link[a].v6,
               link' = [link EXCEPT ![a].v6 = @ \cup {i}], Do(a, proc[a].todo)
        PROVE  /\ SameLinks
               /\ \A b \in Att : SameTuning(b) /\ SameSbr(b)
               /\ VrfTodo(a)'
    <3> DEFINE r == [link[a] EXCEPT !.v6 = @ \cup {i}]
    <3>1. link[a] \in Links /\ i \in STRING
      BY <1>1, <2>1, <2>2 DEF ChainInv, LinkOK
    <3>2. /\ r \in Links /\ r.mac = link[a].mac /\ r.mtu = link[a].mtu
          /\ r.promisc = link[a].promisc /\ r.routes = link[a].routes
      BY <3>1 DEF Links
    <3>3. link' = [link EXCEPT ![a] = r]
      BY <2>4
    <3> HIDE DEF r
    <3>4. SameLinks /\ link'[a] = r /\ \A b \in Att \ {a} : link'[b] = link[b]
      BY <1>1, <2>1, <3>2, <3>3, LinkSet
    <3>5. VrfTodo(a)'
      <4>1. proc[a].todo \in Seq(S)
        BY <2>1 DEF TypeInv, VrfTodo, S
      <4> QED
        BY <1>6, <2>1, <2>4, <4>1
    <3> QED
      BY <3>2, <3>4, <3>5 DEF SameTuning, SameSbr
  <2> QED
    BY <1>1, <1>14, <2>3, <2>4 DEF RestoreAddress, vrfVars
<1>15. CASE resetMaster(a)
  <2>1. proc[a].cmd = "del"
    BY <1>15, VrfDelCall DEF resetMaster, VrfDelOps
  <2>2. CASE link[a] = NoLink
    BY <1>4, <1>5, <1>15, <2>2 DEF resetMaster, vrfVars
  <2>3. CASE link[a] # NoLink
    <3> DEFINE r == [link[a] EXCEPT !.master = "none"]
    <3>1. link[a] \in Links
      BY <1>1, <2>3 DEF ChainInv, LinkOK
    <3>2. /\ r \in Links /\ r.mac = link[a].mac /\ r.mtu = link[a].mtu
          /\ r.promisc = link[a].promisc /\ r.routes = link[a].routes
      BY <3>1, StringAssumption DEF Links
    <3>3. link' = [link EXCEPT ![a] = r]
      BY <1>15, <2>3 DEF resetMaster
    <3> HIDE DEF r
    <3>4. SameLinks /\ link'[a] = r /\ \A b \in Att \ {a} : link'[b] = link[b]
      BY <1>1, <2>3, <3>2, <3>3, LinkSet
    <3>5. <<[op |-> "list members"]>> \in Seq(T)
      BY <1>3, Short
    <3>6. VrfTodo(a)'
      BY <1>7, <1>15, <2>1, <2>3, <3>5 DEF resetMaster
    <3> QED
      BY <1>1, <1>15, <3>2, <3>4, <3>6 DEF resetMaster, vrfVars, SameTuning, SameSbr
  <2> QED
    BY <2>2, <2>3
<1>16. CASE ListMembers(a)
  <2>1. proc[a].cmd = "del"
    BY <1>16, VrfDelCall DEF ListMembers, VrfDelOps
  <2>2. <<>> \in Seq(T) /\ <<[op |-> "delete vrf"]>> \in Seq(T)
    BY <1>3, Short
  <2> QED
    BY <1>4, <1>7, <1>16, <2>1, <2>2 DEF ListMembers
<1>17. CASE DeleteVrf(a)
  <2>1. proc[a].cmd = "del"
    BY <1>17, VrfDelCall DEF DeleteVrf, VrfDelOps
  <2>2. CASE vrfs[NameOf(a)] = 0
    BY <1>4, <1>5, <1>17, <2>2 DEF DeleteVrf, vrfVars
  <2>3. CASE vrfs[NameOf(a)] # 0
    <3>1. /\ vrfs' = [vrfs EXCEPT ![NameOf(a)] = 0] /\ vrfConf' = vrfConf /\ Do(a, <<>>)
          /\ link' = [b \in Att |-> IF b \in assignedInterfaces(NameOf(a))
                                    THEN [link[b] EXCEPT !.master = "none"] ELSE link[b]]
      BY <1>17, <2>3 DEF DeleteVrf
    <3>2. ASSUME NEW b \in Att
          PROVE  /\ link'[b] \in Links \cup {NoLink} /\ (link'[b] = NoLink <=> link[b] = NoLink)
                 /\ SameTuning(b) /\ SameSbr(b)
      <4>1. CASE b \in assignedInterfaces(NameOf(a))
        <5> DEFINE r == [link[b] EXCEPT !.master = "none"]
        <5>1. link[b] \in Links /\ link[b] # NoLink
          BY <1>1, <4>1 DEF ChainInv, LinkOK, assignedInterfaces
        <5>2. /\ r \in Links /\ r.mac = link[b].mac /\ r.mtu = link[b].mtu
              /\ r.promisc = link[b].promisc /\ r.routes = link[b].routes
          BY <5>1, StringAssumption DEF Links
        <5>3. link'[b] = r
          BY <3>1, <4>1
        <5> HIDE DEF r
        <5> QED
          BY <5>1, <5>2, <5>3, FreshAssumption DEF SameTuning, SameSbr
      <4>2. CASE b \notin assignedInterfaces(NameOf(a))
        <5>1. link'[b] = link[b]
          BY <3>1, <4>2
        <5> QED
          BY <1>1, <5>1 DEF ChainInv, LinkOK, SameTuning, SameSbr
      <4> QED
        BY <4>1, <4>2
    <3>3. link' = [b \in Att |-> link'[b]]
      BY <3>1
    <3>4. <<>> \in Seq(T)
      BY EmptySeq
    <3>5. VrfTodo(a)'
      BY <1>7, <2>1, <3>1, <3>4
    <3>6. vrfs' \in [VrfNames -> Nat]
      BY <1>1, <3>1, NamesOf
    <3> QED
      BY <3>1, <3>2, <3>3, <3>5, <3>6 DEF SameLinks
  <2> QED
    BY <2>2, <2>3
<1>18. CASE VrfFails(a)
  BY <1>4, <1>5, <1>18 DEF VrfFails
<1> QED
  BY <1>8, <1>9, <1>10, <1>11, <1>12, <1>13, <1>14, <1>15, <1>16, <1>17, <1>18 DEF VrfStep

\* Which command a call of sbr belongs to.
LEMMA SbrCall ==
  ASSUME TypeInv, NEW a \in Att, NEW op, op # "start", At(a, "sbr", op)
  PROVE  \/ /\ proc[a].cmd = "add" /\ link[a] # NoLink /\ ip[a] \in IPs
            /\ Call(a) \in SbrAddCalls /\ Rest(a) \in Seq(SbrAddCalls)
            /\ Call(a).op = op
         \/ /\ proc[a].cmd = "del"
            /\ op \in {"tidy", "abort"}
            /\ Call(a) \in SbrDelCalls /\ Rest(a) \in Seq(SbrDelCalls)
            /\ Call(a).op = op
<1>1. Running(a, "sbr") /\ proc[a].todo # <<>> /\ Call(a).op = op
  BY DEF At, Call
<1>2. CASE proc[a].cmd = "add" /\ proc[a].todo \in Seq(SbrAddCalls)
  <2>1. Call(a) \in SbrAddCalls /\ Rest(a) \in Seq(SbrAddCalls)
    BY <1>1, <1>2, HeadTail DEF Call, Rest
  <2>2. link[a] # NoLink /\ ip[a] \in IPs
    BY <1>2 DEF TypeInv, ChainInv, LinkOK, IpOK
  <2> QED
    BY <1>1, <1>2, <2>1, <2>2
<1>3. CASE proc[a].cmd = "del" /\ proc[a].todo \in Seq(SbrDelCalls)
  <2>1. Call(a) \in SbrDelCalls /\ Rest(a) \in Seq(SbrDelCalls)
    BY <1>1, <1>3, HeadTail DEF Call, Rest
  <2>2. op \in {"tidy", "abort"}
    BY <1>1, <2>1 DEF SbrDelCalls
  <2> QED
    BY <1>1, <1>3, <2>1, <2>2
<1>4. CASE proc[a].cmd = "check" /\ proc[a].todo \in Seq(CheckCalls)
  <2>1. Call(a) \in CheckCalls
    BY <1>1, <1>4, HeadTail DEF Call
  <2> QED
    BY <1>1, <2>1 DEF CheckCalls
<1> QED
  BY <1>1, <1>2, <1>3, <1>4 DEF TypeInv, SbrTodo

SbrAddOps == {"rule", "default", "list routes", "delete", "replace"}
SbrDelOps == {"tidy", "abort"}

LEMMA SbrAddCall ==
  ASSUME TypeInv, NEW a \in Att, NEW op \in SbrAddOps, At(a, "sbr", op)
  PROVE  /\ proc[a].cmd = "add" /\ link[a] # NoLink /\ ip[a] \in IPs
         /\ Call(a) \in SbrAddCalls /\ Rest(a) \in Seq(SbrAddCalls)
         /\ Call(a).op = op
<1>1. op # "start" /\ op \notin {"tidy", "abort"}
  BY DEF SbrAddOps
<1> QED
  BY <1>1, SbrCall

LEMMA SbrDelCall ==
  ASSUME TypeInv, NEW a \in Att, NEW op \in SbrDelOps, At(a, "sbr", op)
  PROVE  /\ proc[a].cmd = "del"
         /\ Call(a) \in SbrDelCalls /\ Rest(a) \in Seq(SbrDelCalls)
         /\ Call(a).op = op
<1>1. op # "start"
  BY DEF SbrDelOps
<1>2. ASSUME Call(a) \in SbrAddCalls, Call(a).op = op PROVE FALSE
  <2>1. Call(a).op \in {"start"} \cup SbrAddOps
    BY <1>2 DEF SbrAddCalls, SbrAddOps
  <2> QED
    BY <1>2, <2>1 DEF SbrAddOps, SbrDelOps
<1> QED
  BY <1>1, <1>2, SbrCall

LEMMA SbrTable ==
  ASSUME FreeTables # {}
  PROVE  Min(FreeTables) \in SbrTables /\ \A r \in rules : r.table # Min(FreeTables)
<1>1. FreeTables \in SUBSET Nat
  BY SbrAssumption DEF FreeTables
<1>2. Min(FreeTables) \in FreeTables
  BY <1>1, LeastNat
<1> QED
  BY <1>2 DEF FreeTables

\* The fields of the calls.
LEMMA SbrFields ==
  ASSUME NEW k \in SbrAddCalls
  PROVE  /\ k.op = "rule" =>
               /\ k = [op |-> "rule", fams |-> k.fams, table |-> k.table]
               /\ k.fams \in SUBSET {4, 6} /\ k.table \in SbrTables
         /\ k.op = "default" =>
               /\ k = [op |-> "default", f |-> k.f, table |-> k.table]
               /\ k.f \in {4, 6} /\ k.table \in SbrTables
         /\ k.op = "list routes" =>
               k = [op |-> "list routes", table |-> k.table] /\ k.table \in SbrTables
         /\ k.op = "delete" =>
               /\ k = [op |-> "delete", routes |-> k.routes, table |-> k.table]
               /\ k.routes \in SUBSET Routes /\ k.table \in SbrTables
         /\ k.op = "replace" =>
               /\ k = [op |-> "replace", r |-> k.r, table |-> k.table]
               /\ k.r \in Routes /\ k.table \in SbrTables
BY DEF SbrAddCalls

LEMMA RouteType ==
  ASSUME NEW t \in SbrTables, NEW f \in {4, 6}, NEW d \in STRING
  PROVE  <<t, f, d>> \in Routes
BY SbrAssumption DEF Routes

\* A change of the routes of one interface.
LEMMA RoutesSet ==
  ASSUME ChainInv, NEW a \in Att, link[a] # NoLink, NEW R \in SUBSET Routes,
         link' = [link EXCEPT ![a].routes = R]
  PROVE  /\ SameLinks
         /\ \A b \in Att : SameTuning(b) /\ SameVrf(b)
         /\ \A b \in Att \ {a} : link'[b] = link[b]
         /\ link'[a].routes = R
<1> DEFINE r == [link[a] EXCEPT !.routes = R]
<1>1. link[a] \in Links
  BY DEF ChainInv, LinkOK
<1>2. /\ r \in Links /\ r.mac = link[a].mac /\ r.mtu = link[a].mtu
      /\ r.promisc = link[a].promisc /\ r.master = link[a].master
      /\ r.v6 = link[a].v6 /\ r.routes = R
  BY <1>1 DEF Links
<1>3. link' = [link EXCEPT ![a] = r]
  OBVIOUS
<1> HIDE DEF r
<1>4. SameLinks /\ link'[a] = r /\ \A b \in Att \ {a} : link'[b] = link[b]
  BY <1>2, <1>3, LinkSet
<1> QED
  BY <1>2, <1>4 DEF SameTuning, SameVrf

\* What ReplaceRoute does: the route is the interface's own from then on.
LEMMA ReplaceFacts ==
  ASSUME TypeInv, NEW a \in Att, link[a] # NoLink, NEW new \in Routes,
         link' = [b \in Att |->
                     IF b = a THEN [link[b] EXCEPT !.routes = @ \cup {new}]
                     ELSE IF link[b] = NoLink THEN NoLink
                     ELSE [link[b] EXCEPT !.routes = @ \ {new}]]
  PROVE  /\ SameLinks
         /\ \A b \in Att : SameTuning(b) /\ SameVrf(b)
         /\ link'[a].routes = link[a].routes \cup {new}
         /\ \A b \in Att \ {a} : link[b] # NoLink => link'[b].routes = link[b].routes \ {new}
<1>1. \A b \in Att : link[b] \in Links \cup {NoLink}
  BY DEF TypeInv, ChainInv, LinkOK
<1>2. /\ link'[a] \in Links /\ SameTuning(a) /\ SameVrf(a)
      /\ link'[a].routes = link[a].routes \cup {new}
  <2> DEFINE r == [link[a] EXCEPT !.routes = @ \cup {new}]
  <2>1. /\ r \in Links /\ r.mac = link[a].mac /\ r.mtu = link[a].mtu
        /\ r.promisc = link[a].promisc /\ r.master = link[a].master
        /\ r.v6 = link[a].v6 /\ r.routes = link[a].routes \cup {new}
    BY <1>1 DEF Links
  <2>2. link'[a] = r
    OBVIOUS
  <2> HIDE DEF r
  <2> QED
    BY <2>1, <2>2 DEF SameTuning, SameVrf
<1>3. ASSUME NEW b \in Att \ {a}, link[b] # NoLink
      PROVE  /\ link'[b] \in Links /\ SameTuning(b) /\ SameVrf(b)
             /\ link'[b].routes = link[b].routes \ {new}
  <2> DEFINE r == [link[b] EXCEPT !.routes = @ \ {new}]
  <2>1. /\ r \in Links /\ r.mac = link[b].mac /\ r.mtu = link[b].mtu
        /\ r.promisc = link[b].promisc /\ r.master = link[b].master
        /\ r.v6 = link[b].v6 /\ r.routes = link[b].routes \ {new}
    BY <1>1, <1>3 DEF Links
  <2>2. link'[b] = r
    BY <1>3
  <2> HIDE DEF r
  <2> QED
    BY <2>1, <2>2 DEF SameTuning, SameVrf
<1>4. ASSUME NEW b \in Att \ {a}, link[b] = NoLink
      PROVE  link'[b] = NoLink /\ SameTuning(b) /\ SameVrf(b)
  BY <1>4 DEF SameTuning, SameVrf
<1>5. link' = [b \in Att |-> link'[b]]
  OBVIOUS
<1>6. ASSUME NEW b \in Att
      PROVE  /\ link'[b] \in Links \cup {NoLink} /\ (link'[b] = NoLink <=> link[b] = NoLink)
             /\ SameTuning(b) /\ SameVrf(b)
  <2>1. CASE b = a
    BY <1>2, <2>1, FreshAssumption
  <2>2. CASE b # a /\ link[b] # NoLink
    BY <1>3, <2>2, FreshAssumption
  <2>3. CASE b # a /\ link[b] = NoLink
    BY <1>4, <2>3
  <2> QED
    BY <2>1, <2>2, <2>3
<1> QED
  BY <1>2, <1>3, <1>5, <1>6 DEF SameLinks

LEMMA SbrTouches ==
  ASSUME TypeInv, NEW a \in Att, Running(a, "sbr"), SbrStep(a)
  PROVE  /\ SameLinks
         /\ \A b \in Att : SameTuning(b) /\ SameVrf(b)
         /\ rules' \subseteq Rules
         /\ SbrTodo(a)'
<1> DEFINE S == SbrAddCalls
           T == SbrDelCalls
<1>1. ChainInv /\ rules \subseteq Rules
  BY DEF TypeInv
<1>2. /\ \A F \in SUBSET {4, 6}, t \in SbrTables : [op |-> "rule", fams |-> F, table |-> t] \in S
      /\ \A f \in {4, 6}, t \in SbrTables : [op |-> "default", f |-> f, table |-> t] \in S
      /\ \A t \in SbrTables : [op |-> "list routes", table |-> t] \in S
      /\ \A R \in SUBSET Routes, t \in SbrTables :
            [op |-> "delete", routes |-> R, table |-> t] \in S
      /\ \A r \in Routes, t \in SbrTables : [op |-> "replace", r |-> r, table |-> t] \in S
  BY DEF SbrAddCalls
<1>3. [op |-> "abort"] \in T /\ \A R \in SUBSET Rules : [op |-> "tidy", rules |-> R] \in T
  BY DEF SbrDelCalls
<1> HIDE DEF S, T
<1>4. ASSUME UNCHANGED <<link, rules>>, SbrTodo(a)'
      PROVE  /\ SameLinks
             /\ \A b \in Att : SameTuning(b) /\ SameVrf(b)
             /\ rules' \subseteq Rules
             /\ SbrTodo(a)'
  BY <1>1, <1>4, SameLink
<1>5. ASSUME Error(a) \/ Fault(a, Failed) PROVE SbrTodo(a)'
  BY <1>1, <1>5, ErrorFacts, FaultFacts DEF SbrTodo
<1>6. ASSUME NEW calls \in Seq(S), proc[a].cmd = "add", Do(a, calls) PROVE SbrTodo(a)'
  BY <1>1, <1>6, DoFacts DEF SbrTodo, S
<1>7. ASSUME NEW calls \in Seq(T), proc[a].cmd = "del", Do(a, calls) \/ Fault(a, calls)
      PROVE  SbrTodo(a)'
  BY <1>1, <1>7, DoFacts, FaultFacts DEF SbrTodo, T
<1>8. CASE SbrStart(a)
  <2>1. CASE SbrAdd(a)
    <3> DEFINE t == Min(FreeTables)
               k == [op |-> "rule", fams |-> getIPCfgs(a), table |-> t]
               l == [op |-> "list routes", table |-> t]
    <3>1. CASE Error(a)
      BY <1>4, <1>5, <1>8, <3>1 DEF SbrStart
    <3>2. CASE ~Error(a)
      <4>1. FreeTables # {} /\ Do(a, <<k, l>>) /\ proc[a].cmd = "add"
        BY <2>1, <3>2 DEF SbrAdd
      <4>2. t \in SbrTables
        BY <4>1, SbrTable
      <4>3. getIPCfgs(a) \in SUBSET {4, 6}
        BY SbrAssumption DEF getIPCfgs
      <4>4. k \in S /\ l \in S
        BY <1>2, <4>2, <4>3
      <4> HIDE DEF k, l
      <4>5. <<k, l>> \in Seq(S)
        BY <4>4, Short
      <4>6. SbrTodo(a)'
        BY <1>6, <4>1, <4>5
      <4> QED
        BY <1>4, <1>8, <4>6 DEF SbrStart
    <3> QED
      BY <3>1, <3>2
  <2>2. CASE SbrDel(a)
    <3> DEFINE k == [op |-> "tidy", rules |-> RulesOf(a)]
    <3>1. RulesOf(a) \in SUBSET Rules
      BY <1>1 DEF RulesOf
    <3>2. k \in T
      BY <1>3, <3>1
    <3>3. proc[a].cmd = "del" /\ (Error(a) \/ Do(a, <<k>>))
      BY <2>2 DEF SbrDel
    <3> HIDE DEF k
    <3>4. <<k>> \in Seq(T)
      BY <3>2, Short
    <3>5. SbrTodo(a)'
      BY <1>5, <1>7, <3>3, <3>4
    <3> QED
      BY <1>4, <1>8, <3>5 DEF SbrStart
  <2>3. CASE SbrCheck(a)
    <3>1. <<>> \in Seq(CheckCalls)
      BY Short
    <3>2. proc'[a].cmd = "check" /\ proc'[a].todo = <<>>
      BY <1>1, <2>3, DoFacts DEF SbrCheck
    <3>3. SbrTodo(a)'
      BY <3>1, <3>2 DEF SbrTodo
    <3> QED
      BY <1>4, <1>8, <3>3 DEF SbrStart
  <2> QED
    BY <1>8, <2>1, <2>2, <2>3 DEF SbrStart
<1>9. CASE AddRule(a)
  <2> DEFINE k == Call(a)
  <2>1. /\ proc[a].cmd = "add" /\ ip[a] \in IPs /\ k \in SbrAddCalls
        /\ k.op = "rule" /\ Rest(a) \in Seq(S)
    BY <1>9, SbrAddCall DEF AddRule, SbrAddOps, S
  <2>2. /\ k = [op |-> "rule", fams |-> k.fams, table |-> k.table]
        /\ k.fams \in SUBSET {4, 6} /\ k.table \in SbrTables
    BY <2>1, SbrFields
  <2>3. CASE k.fams = {} /\ Do(a, Rest(a)) /\ UNCHANGED rules
    BY <1>4, <1>6, <1>9, <2>1, <2>3 DEF AddRule
  <2>4. ASSUME NEW f \in k.fams,
               rules' = rules \cup {[src |-> <<ip[a], f>>, table |-> k.table]},
               Do(a, IF Gateway[a]
                     THEN <<[op |-> "default", f |-> f, table |-> k.table]>>
                          \o (<<[k EXCEPT !.fams = @ \ {f}]>> \o Rest(a))
                     ELSE <<[k EXCEPT !.fams = @ \ {f}]>> \o Rest(a))
        PROVE  rules' \subseteq Rules /\ SbrTodo(a)'
    <3> DEFINE l == [k EXCEPT !.fams = @ \ {f}]
               d == [op |-> "default", f |-> f, table |-> k.table]
    <3>1. f \in {4, 6} /\ k.fams \ {f} \in SUBSET {4, 6}
      BY <2>2, <2>4
    <3>2. [src |-> <<ip[a], f>>, table |-> k.table] \in Rules
      BY <2>1, <2>2, <3>1 DEF Rules
    <3>3. rules' \subseteq Rules
      BY <1>1, <2>4, <3>2
    <3>4. l = [op |-> "rule", fams |-> k.fams \ {f}, table |-> k.table]
      BY <2>2
    <3>10. k.table \in SbrTables
      BY <2>2
    <3>11. [op |-> "rule", fams |-> k.fams \ {f}, table |-> k.table] \in S
      BY <1>2, <3>1, <3>10
    <3>5. l \in S /\ d \in S
      BY <1>2, <3>1, <3>4, <3>10, <3>11
    <3>6. Do(a, <<d>> \o (<<l>> \o Rest(a))) \/ Do(a, <<l>> \o Rest(a))
      BY <2>4
    <3> HIDE DEF l, d
    <3>7. <<l>> \o Rest(a) \in Seq(S)
      BY <2>1, <3>5, Cons
    <3>8. <<d>> \o (<<l>> \o Rest(a)) \in Seq(S)
      BY <3>5, <3>7, Cons
    <3>9. SbrTodo(a)'
      BY <1>6, <2>1, <3>6, <3>7, <3>8
    <3> QED
      BY <3>3, <3>9
  <2>5. UNCHANGED link
    BY <1>9 DEF AddRule
  <2>6. \/ k.fams = {} /\ Do(a, Rest(a)) /\ UNCHANGED rules
        \/ \E f \in k.fams :
              /\ rules' = rules \cup {[src |-> <<ip[a], f>>, table |-> k.table]}
              /\ Do(a, IF Gateway[a]
                     THEN <<[op |-> "default", f |-> f, table |-> k.table]>>
                          \o (<<[k EXCEPT !.fams = @ \ {f}]>> \o Rest(a))
                     ELSE <<[k EXCEPT !.fams = @ \ {f}]>> \o Rest(a))
    BY <1>9 DEF AddRule
  <2> QED
    BY <1>1, <2>3, <2>4, <2>5, <2>6, SameLink
<1>10. CASE AddDefault(a)
  <2> DEFINE k == Call(a)
  <2>1. /\ proc[a].cmd = "add" /\ link[a] # NoLink /\ k \in SbrAddCalls
        /\ k.op = "default" /\ Rest(a) \in Seq(S)
    BY <1>10, SbrAddCall DEF AddDefault, SbrAddOps, S
  <2>2. k.f \in {4, 6} /\ k.table \in SbrTables
    BY <2>1, SbrFields
  <2>3. CASE HasDefault(k.table, k.f)
    BY <1>4, <1>5, <1>10, <2>3 DEF AddDefault
  <2>4. CASE ~HasDefault(k.table, k.f)
    <3> DEFINE R == link[a].routes \cup {<<k.table, k.f, "default">>}
    <3>1. link' = [link EXCEPT ![a].routes = R] /\ Do(a, Rest(a)) /\ UNCHANGED rules
      BY <1>10, <2>4 DEF AddDefault
    <3>2. link[a] \in Links
      BY <1>1, <2>1 DEF ChainInv, LinkOK
    <3>3. link[a].routes \in SUBSET Routes
      BY <3>2 DEF Links
    <3>4. <<k.table, k.f, "default">> \in Routes
      BY <2>2, RouteType, StringAssumption
    <3>5. R \in SUBSET Routes
      BY <3>3, <3>4
    <3> HIDE DEF R
    <3>6. SameLinks /\ \A b \in Att : SameTuning(b) /\ SameVrf(b)
      BY <1>1, <2>1, <3>1, <3>5, RoutesSet
    <3>7. SbrTodo(a)'
      BY <1>6, <2>1, <3>1
    <3> QED
      BY <1>1, <3>1, <3>6, <3>7
  <2> QED
    BY <2>3, <2>4
<1>11. CASE ListRoutes(a)
  <2> DEFINE R == {r \in link[a].routes : r[1] = Main}
             k == [op |-> "delete", routes |-> R, table |-> Call(a).table]
  <2>1. /\ proc[a].cmd = "add" /\ link[a] # NoLink /\ Call(a) \in SbrAddCalls
        /\ Call(a).op = "list routes"
    BY <1>11, SbrAddCall DEF ListRoutes, SbrAddOps
  <2>2. Call(a).table \in SbrTables
    BY <2>1, SbrFields
  <2>3. link[a] \in Links
    BY <1>1, <2>1 DEF ChainInv, LinkOK
  <2>4. R \in SUBSET Routes
    BY <2>3 DEF Links
  <2>5. Do(a, <<k>>)
    BY <1>11 DEF ListRoutes
  <2>6. k \in S
    BY <1>2, <2>2, <2>4
  <2> HIDE DEF k
  <2>7. SbrTodo(a)'
    BY <1>6, <2>1, <2>5, <2>6, Short
  <2> QED
    BY <1>4, <1>11, <2>7 DEF ListRoutes
<1>12. CASE DeleteRoute(a)
  <2> DEFINE k == Call(a)
  <2>1. /\ proc[a].cmd = "add" /\ link[a] # NoLink /\ k \in SbrAddCalls
        /\ k.op = "delete" /\ Rest(a) \in Seq(S)
    BY <1>12, SbrAddCall DEF DeleteRoute, SbrAddOps, S
  <2>2. /\ k = [op |-> "delete", routes |-> k.routes, table |-> k.table]
        /\ k.routes \in SUBSET Routes /\ k.table \in SbrTables
    BY <2>1, SbrFields
  <2>3. CASE k.routes = {} /\ Do(a, Rest(a)) /\ UNCHANGED link
    BY <1>4, <1>6, <1>12, <2>1, <2>3 DEF DeleteRoute
  <2>4. ASSUME NEW r \in k.routes, link' = [link EXCEPT ![a].routes = @ \ {r}],
               Do(a, <<[op |-> "replace", r |-> r, table |-> k.table],
                       [k EXCEPT !.routes = @ \ {r}]>> \o Rest(a))
        PROVE  /\ SameLinks /\ (\A b \in Att : SameTuning(b) /\ SameVrf(b))
               /\ SbrTodo(a)'
    <3> DEFINE l == [k EXCEPT !.routes = @ \ {r}]
               d == [op |-> "replace", r |-> r, table |-> k.table]
               R == link[a].routes \ {r}
    <3>1. link[a] \in Links
      BY <1>1, <2>1 DEF ChainInv, LinkOK
    <3>2. R \in SUBSET Routes
      BY <3>1 DEF Links
    <3>3. link' = [link EXCEPT ![a].routes = R]
      BY <2>4
    <3>4. l = [op |-> "delete", routes |-> k.routes \ {r}, table |-> k.table]
      BY <2>2
    <3>11. k.table \in SbrTables /\ k.routes \ {r} \in SUBSET Routes /\ r \in Routes
      BY <2>2, <2>4
    <3>12. [op |-> "delete", routes |-> k.routes \ {r}, table |-> k.table] \in S
      BY <1>2, <3>11
    <3>5. l \in S /\ d \in S
      BY <1>2, <3>4, <3>11, <3>12
    <3>6. Do(a, <<d, l>> \o Rest(a))
      BY <2>4
    <3> HIDE DEF l, d, R
    <3>7. <<d, l>> \in Seq(S)
      BY <3>5, Short
    <3>8. <<d, l>> \o Rest(a) \in Seq(S)
      BY <2>1, <3>7, ConcatProperties
    <3>9. SbrTodo(a)'
      BY <1>6, <2>1, <3>6, <3>8
    <3>10. SameLinks /\ \A b \in Att : SameTuning(b) /\ SameVrf(b)
      BY <1>1, <2>1, <3>2, <3>3, RoutesSet
    <3> QED
      BY <3>9, <3>10
  <2>5. UNCHANGED rules
    BY <1>12 DEF DeleteRoute
  <2>6. \/ k.routes = {} /\ Do(a, Rest(a)) /\ UNCHANGED link
        \/ \E r \in k.routes :
              /\ link' = [link EXCEPT ![a].routes = @ \ {r}]
              /\ Do(a, <<[op |-> "replace", r |-> r, table |-> k.table],
                         [k EXCEPT !.routes = @ \ {r}]>> \o Rest(a))
    BY <1>12 DEF DeleteRoute
  <2> QED
    BY <1>1, <2>3, <2>4, <2>5, <2>6
<1>13. CASE ReplaceRoute(a)
  <2> DEFINE k == Call(a)
             new == <<k.table, k.r[2], k.r[3]>>
  <2>1. /\ proc[a].cmd = "add" /\ link[a] # NoLink /\ k \in SbrAddCalls
        /\ k.op = "replace" /\ Rest(a) \in Seq(S)
    BY <1>13, SbrAddCall DEF ReplaceRoute, SbrAddOps, S
  <2>2. k.r \in Routes /\ k.table \in SbrTables
    BY <2>1, SbrFields
  <2>3. k.r[2] \in {4, 6} /\ k.r[3] \in STRING
    BY <2>2 DEF Routes
  <2>4. new \in Routes
    BY <2>2, <2>3, RouteType
  <2>5. /\ link' = [b \in Att |->
                       IF b = a THEN [link[b] EXCEPT !.routes = @ \cup {new}]
                       ELSE IF link[b] = NoLink THEN NoLink
                       ELSE [link[b] EXCEPT !.routes = @ \ {new}]]
        /\ Do(a, Rest(a)) /\ UNCHANGED rules
    BY <1>13 DEF ReplaceRoute
  <2> HIDE DEF new
  <2>6. SameLinks /\ \A b \in Att : SameTuning(b) /\ SameVrf(b)
    BY <2>1, <2>4, <2>5, ReplaceFacts
  <2> QED
    BY <1>1, <1>6, <2>1, <2>5, <2>6
<1>14. CASE DeleteRuleOf(a)
  <2> DEFINE k == Call(a)
  <2>1. /\ proc[a].cmd = "del" /\ k \in SbrDelCalls /\ k.op = "tidy" /\ Rest(a) \in Seq(T)
    BY <1>14, SbrDelCall DEF DeleteRuleOf, SbrDelOps, T
  <2>2. k = [op |-> "tidy", rules |-> k.rules] /\ k.rules \in SUBSET Rules
    BY <2>1 DEF SbrDelCalls
  <2>3. ASSUME NEW r PROVE [k EXCEPT !.rules = @ \ {r}] \in T
    <3>1. [k EXCEPT !.rules = @ \ {r}] = [op |-> "tidy", rules |-> k.rules \ {r}]
      BY <2>2
    <3> QED
      BY <1>3, <2>2, <3>1
  <2>4. CASE Do(a, Rest(a)) /\ UNCHANGED rules
    BY <1>4, <1>7, <1>14, <2>1, <2>4 DEF DeleteRuleOf
  <2>5. ASSUME NEW r, rules' = rules \ {r}, Do(a, <<[k EXCEPT !.rules = @ \ {r}]>> \o Rest(a))
        PROVE  rules' \subseteq Rules /\ SbrTodo(a)'
    <3> DEFINE l == [k EXCEPT !.rules = @ \ {r}]
    <3>1. l \in T /\ Do(a, <<l>> \o Rest(a))
      BY <2>3, <2>5
    <3> HIDE DEF l
    <3>2. <<l>> \o Rest(a) \in Seq(T)
      BY <2>1, <3>1, Cons
    <3> QED
      BY <1>1, <1>7, <2>1, <2>5, <3>1, <3>2
  <2>6. ASSUME NEW r, Fault(a, <<[k EXCEPT !.rules = @ \ {r}]>> \o Failed)
        PROVE  SbrTodo(a)'
    <3> DEFINE l == [k EXCEPT !.rules = @ \ {r}]
    <3>1. l \in T /\ Fault(a, <<l>> \o Failed)
      BY <2>3, <2>6
    <3>2. Failed \in Seq(T)
      BY <1>3, Short DEF Failed
    <3> HIDE DEF l
    <3>3. <<l>> \o Failed \in Seq(T)
      BY <3>1, <3>2, Cons
    <3> QED
      BY <1>7, <2>1, <3>1, <3>3
  <2>7. UNCHANGED link
    BY <1>14 DEF DeleteRuleOf
  <2>8. \/ Do(a, Rest(a)) /\ UNCHANGED rules
        \/ \E r : rules' = rules \ {r} /\ Do(a, <<[k EXCEPT !.rules = @ \ {r}]>> \o Rest(a))
        \/ \E r : Fault(a, <<[k EXCEPT !.rules = @ \ {r}]>> \o Failed) /\ UNCHANGED rules
    BY <1>14 DEF DeleteRuleOf
  <2> QED
    BY <1>1, <2>4, <2>5, <2>6, <2>7, <2>8, SameLink
<1>15. CASE SbrReturnsError(a)
  BY <1>4, <1>5, <1>15 DEF SbrReturnsError
<1>16. CASE SbrFails(a)
  BY <1>4, <1>5, <1>16 DEF SbrFails
<1> QED
  BY <1>8, <1>9, <1>10, <1>11, <1>12, <1>13, <1>14, <1>15, <1>16 DEF SbrStep

-----------------------------------------------------------------------------

\* A call of a plugin leaves the runtime's part in order.
LEMMA ChainKept ==
  ASSUME ChainInv, NEW a \in Att, Steps(a), SameLinks
  PROVE  ChainInv'
<1>1. chain' = chain /\ ip' = ip /\ ~Idle(a) /\ chain \in Chains
  BY DEF Steps, ChainInv
<1>2. /\ proc' = [b \in Att |-> proc'[b]] /\ told' = [b \in Att |-> told'[b]]
      /\ \A b \in Att \ {a} : proc'[b] = proc[b] /\ told'[b] = told[b]
      /\ \/ /\ told' = told
            /\ proc'[a].cmd = proc[a].cmd /\ proc'[a].i = proc[a].i
            /\ IsProc(proc'[a])
         \/ /\ proc'[a] = Quit
            /\ told'[a] \in {"refused", "unknown"}
  BY StepsFacts
<1>3. /\ link' = [b \in Att |-> link'[b]]
      /\ \A b \in Att : /\ link'[b] \in Links \cup {NoLink}
                        /\ link'[b] = NoLink <=> link[b] = NoLink
  BY DEF SameLinks
<1>4. ASSUME NEW b \in Att \ {a} PROVE ProcOK(b)' /\ LinkOK(b)'
  BY <1>1, <1>2, <1>3, <1>4 DEF ChainInv, ProcOK, LinkOK, Stays
<1>5. ProcOK(a)' /\ LinkOK(a)'
  <2>1. CASE told' = told /\ proc'[a].cmd = proc[a].cmd /\ proc'[a].i = proc[a].i /\ IsProc(proc'[a])
    BY <1>1, <1>3, <2>1 DEF ChainInv, ProcOK, LinkOK, Stays
  <2>2. CASE proc'[a] = Quit /\ told'[a] \in {"refused", "unknown"}
    <3>1. proc'[a].cmd = "none" /\ IsProc(proc'[a])
      BY <2>2 DEF Quit, IsProc
    <3> QED
      BY <1>3, <2>2, <3>1 DEF ProcOK, LinkOK
  <2> QED
    BY <1>2, <2>1, <2>2
<1>6. ASSUME NEW b \in Att PROVE IpOK(b)'
  <2>1. /\ told'[b] = "gone" => told[b] = "gone"
        /\ proc'[b].cmd = "add" \/ told'[b] = "ready" => proc[b].cmd = "add" \/ told[b] = "ready"
    BY <1>2 DEF Quit
  <2> QED
    BY <1>1, <2>1 DEF ChainInv, IpOK
<1> QED
  BY <1>1, <1>2, <1>3, <1>4, <1>5, <1>6 DEF ChainInv

LEMMA ChainRuntime ==
  ASSUME ChainInv, NEW a \in Att, Runtime(a)
  PROVE  ChainInv'
<1>0. /\ chain \in Chains
      /\ proc = [b \in Att |-> proc[b]] /\ link = [b \in Att |-> link[b]]
      /\ told = [b \in Att |-> told[b]] /\ ip = [b \in Att |-> ip[b]]
      /\ \A b \in Att : ProcOK(b) /\ LinkOK(b) /\ IpOK(b)
  BY DEF ChainInv
<1>len. Len(chain) \in Nat /\ Len(chain) >= 1 /\ DOMAIN chain = 1 .. Len(chain)
  BY ChainFacts
<1>1. /\ chain' = chain
      /\ \A b \in Att \ {a} : /\ proc'[b] = proc[b] /\ told'[b] = told[b]
                              /\ link'[b] = link[b] /\ ip'[b] = ip[b]
  BY RuntimeFacts
<1>2. /\ proc' = [b \in Att |-> proc'[b]] /\ link' = [b \in Att |-> link'[b]]
      /\ told' = [b \in Att |-> told'[b]] /\ ip' = [b \in Att |-> ip'[b]]
  BY <1>0 DEF Runtime, BeginAdd, BeginDel, BeginCheck, NextPlugin, EndAdd, EndDel, Killed, Ends
<1>3. ASSUME NEW b \in Att \ {a} PROVE ProcOK(b)' /\ LinkOK(b)'
  BY <1>0, <1>1, <1>3 DEF ProcOK, LinkOK, Stays
<1>4. ASSUME NEW c \in {"add", "del", "check"}, NEW j \in DOMAIN chain,
             proc'[a] = [cmd |-> c, i |-> j, todo |-> Start]
      PROVE  /\ proc'[a].cmd = c /\ proc'[a].i = j /\ IsProc(proc'[a]) /\ c # "none"
  BY <1>4 DEF IsProc
<1>5. proc'[a] = Quit => proc'[a].cmd = "none" /\ IsProc(proc'[a])
  BY DEF Quit, IsProc
<1> DEFINE OfA == ProcOK(a)' /\ LinkOK(a)'
<1>6. ASSUME ip' = ip, told'[a] = "gone" => told[a] = "gone",
             proc'[a].cmd = "add" \/ told'[a] = "ready" => proc[a].cmd = "add" \/ told[a] = "ready"
      PROVE  \A b \in Att : IpOK(b)'
  BY <1>0, <1>1, <1>6 DEF IpOK
<1>7. ASSUME BeginAdd(a) PROVE OfA /\ \A b \in Att : IpOK(b)'
  <2>1. PICK i \in IPs \ {ip[b] : b \in Att} : ip' = [ip EXCEPT ![a] = i]
    BY <1>7 DEF BeginAdd
  <2>2. proc'[a] = [cmd |-> "add", i |-> 1, todo |-> Start] /\ told'[a] = "unknown"
    BY <1>0, <1>7 DEF BeginAdd, Begin, Start
  <2>3. proc'[a].cmd = "add" /\ proc'[a].i = 1 /\ IsProc(proc'[a]) /\ 1 \in DOMAIN chain
    BY <1>4, <1>len, <2>2
  <2>4. link'[a] \in Links
    BY <1>0, <1>7, FreshAssumption DEF BeginAdd, LinkOK
  <2>5. OfA
    BY <1>1, <2>2, <2>3, <2>4, FreshAssumption DEF ProcOK, LinkOK
  <2>6. ip'[a] = i /\ i \in IPs /\ \A b \in Att : ip[b] # i
    BY <1>0, <2>1
  <2>7. i # NoIP
    BY <2>6, ChainAssumption
  <2>8. IpOK(a)'
    BY <1>1, <2>2, <2>6, <2>7 DEF IpOK
  <2>9. ASSUME NEW b \in Att \ {a} PROVE IpOK(b)'
    BY <1>0, <1>1, <2>6, <2>9 DEF IpOK
  <2> QED
    BY <2>5, <2>8, <2>9
<1>8. ASSUME BeginDel(a) PROVE OfA /\ \A b \in Att : IpOK(b)'
  <2>1. /\ proc'[a] = [cmd |-> "del", i |-> Len(chain), todo |-> Start] /\ told'[a] = "unknown"
        /\ ip' = ip /\ link' = link
    BY <1>0, <1>8 DEF BeginDel, Begin, Start
  <2>2. proc'[a].cmd = "del" /\ proc'[a].i = Len(chain) /\ IsProc(proc'[a]) /\ Len(chain) \in DOMAIN chain
    BY <1>4, <1>len, <2>1
  <2>3. OfA
    BY <1>0, <1>1, <2>1, <2>2 DEF ProcOK, LinkOK
  <2> QED
    BY <1>6, <2>1, <2>2, <2>3
<1>9. ASSUME BeginCheck(a) PROVE OfA /\ \A b \in Att : IpOK(b)'
  <2>1. /\ proc'[a] = [cmd |-> "check", i |-> 1, todo |-> Start] /\ told' = told /\ told[a] = "ready"
        /\ ip' = ip /\ link' = link
    BY <1>0, <1>9 DEF BeginCheck, Begin, Start
  <2>2. proc'[a].cmd = "check" /\ proc'[a].i = 1 /\ IsProc(proc'[a]) /\ 1 \in DOMAIN chain
    BY <1>4, <1>len, <2>1
  <2>3. OfA
    BY <1>0, <1>1, <2>1, <2>2 DEF ProcOK, LinkOK
  <2> QED
    BY <1>6, <2>1, <2>2, <2>3
<1>10. ASSUME NextPlugin(a) PROVE OfA /\ \A b \in Att : IpOK(b)'
  <2>1. PICK j \in 1 .. Len(chain) :
           /\ proc' = [proc EXCEPT ![a] = Begin(proc[a].cmd, j)]
           /\ ~Idle(a) /\ told' = told /\ ip' = ip /\ link' = link
    BY <1>10 DEF NextPlugin
  <2>2. proc'[a] = [cmd |-> proc[a].cmd, i |-> j, todo |-> Start]
    BY <1>0, <2>1 DEF Begin, Start
  <2>3. proc[a].cmd \in {"add", "del", "check"}
    BY <1>0, <2>1 DEF ProcOK, Idle
  <2>4. proc'[a].cmd = proc[a].cmd /\ proc'[a].i = j /\ IsProc(proc'[a]) /\ j \in DOMAIN chain
    BY <1>4, <1>len, <2>2, <2>3
  <2>5. OfA
    BY <1>0, <1>1, <2>1, <2>3, <2>4 DEF ProcOK, LinkOK, Stays
  <2> QED
    BY <1>6, <2>1, <2>4, <2>5
<1>11. ASSUME EndAdd(a) PROVE OfA /\ \A b \in Att : IpOK(b)'
  <2>1. /\ proc'[a] = Quit /\ told'[a] = "ready" /\ ip' = ip /\ link' = link
        /\ proc[a].cmd \in {"add", "check"}
    BY <1>0, <1>11 DEF EndAdd
  <2>2. proc[a].cmd = "add" \/ told[a] = "ready"
    BY <1>0, <2>1 DEF ProcOK
  <2>3. OfA
    BY <1>0, <1>1, <1>5, <2>1, <2>2 DEF ProcOK, LinkOK
  <2> QED
    BY <1>6, <2>1, <2>2, <2>3
<1>12. ASSUME EndDel(a) PROVE OfA /\ \A b \in Att : IpOK(b)'
  <2>1. /\ proc'[a] = Quit /\ told'[a] = "gone" /\ ip'[a] = NoIP
        /\ link'[a] = IF Stays(a) THEN link[a] ELSE NoLink
    BY <1>0, <1>12 DEF EndDel
  <2>2. Stays(a)' <=> Stays(a)
    BY <1>1 DEF Stays
  <2>3. OfA
    BY <1>0, <1>5, <2>1, <2>2 DEF ProcOK, LinkOK
  <2>4. IpOK(a)'
    BY <1>5, <2>1 DEF IpOK
  <2>5. ASSUME NEW b \in Att \ {a} PROVE IpOK(b)'
    BY <1>0, <1>1, <2>1, <2>5 DEF IpOK
  <2> QED
    BY <2>3, <2>4, <2>5
<1>13. ASSUME Killed(a) PROVE OfA /\ \A b \in Att : IpOK(b)'
  <2>1. proc'[a] = Quit /\ told'[a] \in {"refused", "unknown"} /\ ip' = ip /\ link' = link
    BY <1>0, <1>13 DEF Killed, Ends
  <2>2. OfA
    BY <1>0, <1>5, <2>1 DEF ProcOK, LinkOK
  <2> QED
    BY <1>5, <1>6, <2>1, <2>2
<1>14. OfA /\ \A b \in Att : IpOK(b)'
  BY <1>7, <1>8, <1>9, <1>10, <1>11, <1>12, <1>13 DEF Runtime
<1> QED
  BY <1>0, <1>1, <1>2, <1>3, <1>14 DEF ChainInv

LEMMA TypeInit == Init => TypeInv
<1> SUFFICES ASSUME Init PROVE TypeInv
  OBVIOUS
<1>1. ASSUME NEW a \in Att PROVE proc[a].cmd = "none" /\ IsProc(proc[a]) /\ told[a] = "gone"
  BY DEF Init, ChainInit, Quit, IsProc
<1>2. ASSUME NEW a \in Att PROVE ProcOK(a) /\ LinkOK(a) /\ IpOK(a)
  <2>1. link[a] \in {Fresh[a], NoLink} /\ (link[a] = NoLink \/ Stays(a)) /\ Fresh[a] \in Links
    BY FreshAssumption DEF Init, ChainInit
  <2>2. ip[a] = NoIP
    BY DEF Init, ChainInit
  <2> QED
    BY <1>1, <2>1, <2>2 DEF ProcOK, LinkOK, IpOK
<1>3. ChainInv
  BY <1>2 DEF ChainInv, Init, ChainInit
<1>4. vrfs \in [VrfNames -> Nat] /\ vrfConf \in VrfConfs /\ rules \subseteq Rules
  BY DEF Init, VrfInit, SbrInit
<1>5. backup \in [Att -> Files \cup {NoBackup, Torn}]
  BY DEF Init, TuningInit
<1> QED
  BY <1>1, <1>3, <1>4, <1>5 DEF TypeInv, TuningTodo, VrfTodo, SbrTodo, Running, Idle

LEMMA StartFacts ==
  /\ RemovalLast(Start)
  /\ Start \in Seq(TuningAddCalls) /\ Start \in Seq(TuningDelCalls)
  /\ Start \in Seq(VrfAddCalls) /\ Start \in Seq(VrfDelCalls)
  /\ Start \in Seq(SbrAddCalls) /\ Start \in Seq(SbrDelCalls)
  /\ Start \in Seq(CheckCalls)
<1> DEFINE k == [op |-> "start"]
<1>1. /\ k \in TuningAddCalls /\ k \in TuningDelCalls /\ k \in VrfAddCalls /\ k \in VrfDelCalls
      /\ k \in SbrAddCalls /\ k \in SbrDelCalls /\ k \in CheckCalls
  BY DEF TuningAddCalls, TuningDelCalls, VrfAddCalls, VrfDelCalls, SbrAddCalls, SbrDelCalls, CheckCalls
<1>2. RemovalLast(Start)
  BY DEF RemovalLast, Start
<1>3. Start = <<k>>
  BY DEF Start
<1> HIDE DEF k
<1> QED
  BY <1>1, <1>2, <1>3, Short

LEMMA TypeStep == TypeInv /\ [Next]_vars => TypeInv'
<1> SUFFICES ASSUME TypeInv, [Next]_vars PROVE TypeInv'
  OBVIOUS
<1>0. ChainInv
  BY DEF TypeInv
<1>1. CASE UNCHANGED vars
  BY <1>1 DEF vars, chainVars, tuningVars, vrfVars, TypeInv, ChainInv, ProcOK, LinkOK, IpOK, Stays,
              TuningTodo, VrfTodo, SbrTodo, Running, Idle, Restores
<1>2. ASSUME NEW a \in Att, RuntimeStep(a) PROVE TypeInv'
  <2>1. Runtime(a) /\ UNCHANGED <<backup, vrfConf, vrfs, rules>>
    BY <1>2 DEF RuntimeStep, tuningVars, vrfVars
  <2>2. ChainInv'
    BY <1>0, <2>1, ChainRuntime
  <2>3. ASSUME NEW plugin
        PROVE  /\ \A b \in Att \ {a} : /\ proc'[b] = proc[b] /\ link'[b] = link[b]
                                       /\ Running(b, plugin)' <=> Running(b, plugin)
               /\ Running(a, plugin)' => /\ proc'[a].todo = Start
                                         /\ proc'[a].cmd \in {"add", "del", "check"}
    BY <1>0, <2>1, RuntimeFacts
  <2>4. ASSUME NEW b \in Att \ {a} PROVE TuningTodo(b)' /\ VrfTodo(b)' /\ SbrTodo(b)'
    BY <2>1, <2>3, <2>4 DEF TypeInv, TuningTodo, VrfTodo, SbrTodo, Restores
  <2>5. TuningTodo(a)' /\ VrfTodo(a)' /\ SbrTodo(a)'
    BY <2>3, StartFacts DEF TuningTodo, VrfTodo, SbrTodo, Restores
  <2> QED
    BY <2>1, <2>2, <2>4, <2>5 DEF TypeInv
<1>3. ASSUME NEW a \in Att, Running(a, "tuning"), TuningStep(a), UNCHANGED <<vrfVars, rules>>
      PROVE  TypeInv'
  <2>1. Steps(a) /\ SameLinks /\ TuningTodo(a)'
        /\ (\A b \in Att \ {a} : backup'[b] = backup[b])
        /\ backup' \in [Att -> Files \cup {NoBackup, Torn}]
    BY <1>3, TuningSteps, TuningTouches
  <2>2. ChainInv'
    BY <1>0, <2>1, ChainKept
  <2>3. ~Running(a, "vrf") /\ ~Running(a, "sbr")
    BY <1>3 DEF Running
  <2>4. ASSUME NEW b \in Att PROVE VrfTodo(b)' /\ SbrTodo(b)'
    <3>1. Running(b, "vrf")' => Running(b, "vrf") /\ proc'[b] = proc[b]
      BY <1>0, <2>1, <2>3, OtherPlugin
    <3>2. Running(b, "sbr")' => Running(b, "sbr") /\ proc'[b] = proc[b]
      BY <1>0, <2>1, <2>3, OtherPlugin
    <3> QED
      BY <3>1, <3>2 DEF TypeInv, VrfTodo, SbrTodo
  <2>5. ASSUME NEW b \in Att \ {a} PROVE TuningTodo(b)'
    <3>1. proc'[b] = proc[b] /\ chain' = chain /\ (link'[b] = NoLink <=> link[b] = NoLink)
      BY <1>0, <2>1, StepsFacts DEF Steps, SameLinks
    <3>2. Running(b, "tuning")' => Running(b, "tuning")
      BY <3>1 DEF Running, Idle
    <3> QED
      BY <2>1, <3>1, <3>2 DEF TypeInv, TuningTodo, Restores
  <2> QED
    BY <1>3, <2>1, <2>2, <2>4, <2>5 DEF TypeInv, vrfVars
<1>4. ASSUME NEW a \in Att, Running(a, "vrf"), VrfStep(a), UNCHANGED <<tuningVars, rules>>
      PROVE  TypeInv'
  <2>1. Steps(a) /\ SameLinks /\ VrfTodo(a)' /\ vrfConf' = vrfConf /\ vrfs' \in [VrfNames -> Nat]
    BY <1>4, VrfSteps, VrfTouches
  <2>2. ChainInv'
    BY <1>0, <2>1, ChainKept
  <2>3. ~Running(a, "tuning") /\ ~Running(a, "sbr")
    BY <1>4 DEF Running
  <2>4. ASSUME NEW b \in Att PROVE TuningTodo(b)' /\ SbrTodo(b)'
    <3>1. Running(b, "tuning")' => Running(b, "tuning") /\ proc'[b] = proc[b]
      BY <1>0, <2>1, <2>3, OtherPlugin
    <3>2. Running(b, "sbr")' => Running(b, "sbr") /\ proc'[b] = proc[b]
      BY <1>0, <2>1, <2>3, OtherPlugin
    <3> QED
      BY <1>4, <2>1, <3>1, <3>2 DEF TypeInv, TuningTodo, SbrTodo, Restores, SameLinks, tuningVars
  <2>5. ASSUME NEW b \in Att \ {a} PROVE VrfTodo(b)'
    <3>1. proc'[b] = proc[b] /\ chain' = chain
      BY <1>0, <2>1, StepsFacts DEF Steps
    <3> QED
      BY <3>1 DEF TypeInv, VrfTodo, Running, Idle
  <2> QED
    BY <1>4, <2>1, <2>2, <2>4, <2>5 DEF TypeInv, tuningVars
<1>5. ASSUME NEW a \in Att, Running(a, "sbr"), SbrStep(a), UNCHANGED <<tuningVars, vrfVars>>
      PROVE  TypeInv'
  <2>1. Steps(a) /\ SameLinks /\ SbrTodo(a)' /\ rules' \subseteq Rules
    BY <1>5, SbrSteps, SbrTouches
  <2>2. ChainInv'
    BY <1>0, <2>1, ChainKept
  <2>3. ~Running(a, "tuning") /\ ~Running(a, "vrf")
    BY <1>5 DEF Running
  <2>4. ASSUME NEW b \in Att PROVE TuningTodo(b)' /\ VrfTodo(b)'
    <3>1. Running(b, "tuning")' => Running(b, "tuning") /\ proc'[b] = proc[b]
      BY <1>0, <2>1, <2>3, OtherPlugin
    <3>2. Running(b, "vrf")' => Running(b, "vrf") /\ proc'[b] = proc[b]
      BY <1>0, <2>1, <2>3, OtherPlugin
    <3> QED
      BY <1>5, <2>1, <3>1, <3>2 DEF TypeInv, TuningTodo, VrfTodo, Restores, SameLinks, tuningVars
  <2>5. ASSUME NEW b \in Att \ {a} PROVE SbrTodo(b)'
    <3>1. proc'[b] = proc[b] /\ chain' = chain
      BY <1>0, <2>1, StepsFacts DEF Steps
    <3> QED
      BY <3>1 DEF TypeInv, SbrTodo, Running, Idle
  <2> QED
    BY <1>5, <2>1, <2>2, <2>4, <2>5 DEF TypeInv, tuningVars, vrfVars
<1> QED
  BY <1>1, <1>2, <1>3, <1>4, <1>5 DEF Next, PluginStep

-----------------------------------------------------------------------------
(* The VRFs.                                                               *)

LEMMA VrfInit0 == Init => VrfInv
<1> SUFFICES ASSUME Init PROVE VrfInv
  OBVIOUS
<1>1. ASSUME NEW a \in Att
      PROVE  /\ proc[a].cmd = "none" /\ told[a] = "gone"
             /\ link[a] # NoLink => link[a].master = "none"
  BY FreshAssumption DEF Init, ChainInit, Quit
<1>2. ASSUME NEW a \in Att PROVE NameOf(a) \in VrfNames
  BY <1>2, TypeInit, NamesOf
<1>3. \A n \in VrfNames : vrfs[n] = 0
  BY DEF Init, VrfInit
<1>4. ASSUME NEW a \in Att PROVE VrfOK(a)
  BY <1>1 DEF VrfOK, VrfRuns, MasterOK, Running, Idle, Done, Ready, NotBegun, Undone
<1>5. OneVrfProcess
  BY <1>1 DEF OneVrfProcess, Running, Idle
<1>6. TablesApart
  BY <1>2, <1>3 DEF TablesApart
<1> QED
  BY <1>3, <1>4, <1>5, <1>6 DEF VrfInv, Kept

\* What vrf knows of an interface does not depend on the other fields.
LEMMA VrfView ==
  ASSUME NEW b \in Att, link'[b] = NoLink <=> link[b] = NoLink,
         link[b] # NoLink => SameVrf(b), vrfs' = vrfs, vrfConf' = vrfConf
  PROVE  /\ Bare(b)' <=> Bare(b)
         /\ Enslaved(b)' <=> Enslaved(b)
         /\ Member(b)' <=> Member(b)
         /\ Loose(b)' <=> Loose(b)
         /\ MasterOK(b)' <=> MasterOK(b)
         /\ \A n : b \in assignedInterfaces(n)' <=> b \in assignedInterfaces(n)
BY DEF SameVrf, Bare, Enslaved, Member, Loose, MasterOK, NameOf, assignedInterfaces

\* A call of another plugin.
LEMMA VrfOther ==
  ASSUME TypeInv, VrfInv, NEW a \in Att, Steps(a), ~Running(a, "vrf"),
         SameLinks, \A b \in Att : SameVrf(b), UNCHANGED vrfVars
  PROVE  VrfInv'
<1>1. vrfs' = vrfs /\ vrfConf' = vrfConf /\ \A b : NameOf(b)' = NameOf(b)
  BY DEF vrfVars, NameOf
<1>2. Plugins' = Plugins
  BY OtherPlugin DEF TypeInv
<1>3. ASSUME NEW b \in Att
      PROVE  /\ Running(b, "vrf")' => Running(b, "vrf") /\ proc'[b] = proc[b]
             /\ Done(b, "vrf")' => Done(b, "vrf")
             /\ NotBegun(b, "vrf")' => NotBegun(b, "vrf")
             /\ Undone(b, "vrf")' => Undone(b, "vrf")
             /\ told'[b] = "gone" <=> told[b] = "gone"
  BY OtherPlugin DEF TypeInv
<1>4. ASSUME NEW b \in Att
      PROVE  /\ Bare(b)' <=> Bare(b)
             /\ Enslaved(b)' <=> Enslaved(b)
             /\ Member(b)' <=> Member(b)
             /\ Loose(b)' <=> Loose(b)
             /\ MasterOK(b)' <=> MasterOK(b)
             /\ link'[b].v6 = link[b].v6
             /\ \A n : b \in assignedInterfaces(n)' <=> b \in assignedInterfaces(n)
  BY <1>1, VrfView DEF SameLinks, SameVrf
<1>5. ASSUME NEW n PROVE assignedInterfaces(n)' = assignedInterfaces(n)
  BY <1>4 DEF assignedInterfaces
<1>6. takenTables' = takenTables
  BY <1>1 DEF takenTables
<1>7. ASSUME NEW b \in Att PROVE VrfRuns(b)'
  <2> SUFFICES ASSUME Running(b, "vrf")' PROVE VrfRuns(b)'
    BY DEF VrfRuns
  <2>1. Running(b, "vrf") /\ proc'[b] = proc[b] /\ VrfRuns(b)
    BY <1>3 DEF VrfInv, VrfOK
  <2>2. VrfAdding(b) => VrfAdding(b)'
    BY <1>1, <1>4, <1>6, <2>1 DEF VrfAdding
  <2>3. VrfDeleting(b) => VrfDeleting(b)'
    BY <1>1, <1>4, <1>5, <2>1 DEF VrfDeleting
  <2> QED
    BY <2>1, <2>2, <2>3 DEF VrfRuns
<1>8. ASSUME NEW b \in Att PROVE VrfOK(b)'
  BY <1>3, <1>4, <1>7 DEF VrfInv, VrfOK
<1>9. OneVrfProcess' /\ TablesApart'
  BY <1>1, <1>3 DEF VrfInv, OneVrfProcess, TablesApart
<1>10. ASSUME NEW n \in VrfNames PROVE Kept(n)'
  BY <1>1, <1>3 DEF VrfInv, Kept
<1> QED
  BY <1>1, <1>2, <1>8, <1>9, <1>10 DEF VrfInv

\* A step of the runtime.
LEMMA VrfRuntime ==
  ASSUME TypeInv, VrfInv, NEW a \in Att, Runtime(a), UNCHANGED vrfVars,
         "vrf" \in Alone, FreshEachTime("vrf")
  PROVE  VrfInv'
<1>0. ChainInv /\ ChainInv'
  BY ChainRuntime DEF TypeInv
<1>1. vrfs' = vrfs /\ vrfConf' = vrfConf /\ \A b : NameOf(b)' = NameOf(b)
  BY DEF vrfVars, NameOf
<1>2. /\ chain' = chain /\ Plugins' = Plugins
      /\ \A b \in Att \ {a} :
            /\ proc'[b] = proc[b] /\ told'[b] = told[b] /\ link'[b] = link[b]
            /\ Running(b, "vrf")' <=> Running(b, "vrf")
            /\ Done(b, "vrf")' <=> Done(b, "vrf")
            /\ NotBegun(b, "vrf")' <=> NotBegun(b, "vrf")
            /\ Undone(b, "vrf")' <=> Undone(b, "vrf")
      /\ Running(a, "vrf")' =>
            /\ proc'[a].todo = Start
            /\ proc'[a].cmd \in {"add", "del", "check"}
            /\ proc'[a].cmd = "add" => BeginAdd(a) \/ NotBegun(a, "vrf")
            /\ Running(a, "vrf") \/ MayRun(a, "vrf")
      /\ Done(a, "vrf")' => Done(a, "vrf")
      /\ NotBegun(a, "vrf")' => BeginAdd(a) \/ NotBegun(a, "vrf")
      /\ Undone(a, "vrf")' => Undone(a, "vrf")
      /\ told'[a] = "gone" => EndDel(a) /\ ("vrf" \in Plugins => Undone(a, "vrf"))
  BY <1>0, RuntimeFacts
<1>3. \/ link'[a] = link[a] /\ ~BeginAdd(a)
      \/ BeginAdd(a) /\ link'[a] = IF link[a] = NoLink THEN Fresh[a] ELSE link[a]
      \/ EndDel(a) /\ link'[a] \in {link[a], NoLink}
  BY <1>0 DEF ChainInv, Runtime, BeginAdd, BeginDel, BeginCheck, NextPlugin, EndAdd, EndDel, Killed
<1>4. "vrf" \in Plugins => ~Stays(a)
  BY <1>0 DEF ChainInv, FreshEachTime, Stays, Plugins
<1>5. ASSUME BeginAdd(a)
      PROVE  /\ "vrf" \in Plugins => Bare(a)'
             /\ ~Done(a, "vrf") /\ ~Undone(a, "vrf")
  <2>1. told[a] = "gone" /\ proc[a].cmd = "none"
    BY <1>5 DEF BeginAdd, Idle
  <2>2. "vrf" \in Plugins => link[a] = NoLink
    BY <1>0, <1>4, <2>1 DEF ChainInv, LinkOK
  <2>3. "vrf" \in Plugins => link'[a] = Fresh[a]
    BY <1>3, <1>5, <2>2 DEF BeginAdd, EndDel, Idle
  <2> QED
    BY <2>1, <2>3, FreshAssumption DEF Bare, Done, Ready, Undone
<1>6. ASSUME EndDel(a) PROVE ~Done(a, "vrf") /\ ~NotBegun(a, "vrf") /\ ~Undone(a, "vrf")'
  <2>1. proc[a].cmd = "del" /\ proc'[a].cmd = "none"
    BY <1>0, <1>6 DEF EndDel, Quit, ChainInv
  <2>2. told[a] = "unknown"
    BY <1>0, <2>1 DEF ChainInv, ProcOK
  <2> QED
    BY <2>1, <2>2 DEF Done, Ready, NotBegun, Undone
<1>7. /\ (link'[a] = link[a] => /\ Bare(a)' <=> Bare(a)
                                /\ Member(a)' <=> Member(a)
                                /\ Loose(a)' <=> Loose(a)
                                /\ MasterOK(a)' <=> MasterOK(a))
      /\ \A b \in Att \ {a} : /\ Bare(b)' <=> Bare(b)
                              /\ Member(b)' <=> Member(b)
                              /\ Enslaved(b)' <=> Enslaved(b)
                              /\ Loose(b)' <=> Loose(b)
                              /\ MasterOK(b)' <=> MasterOK(b)
                              /\ link'[b].v6 = link[b].v6
  BY <1>1, <1>2 DEF Bare, Member, Enslaved, Loose, MasterOK
<1>8. MasterOK(a)'
  <2>1. CASE link'[a] = link[a]
    BY <1>7, <2>1 DEF VrfInv, VrfOK
  <2>2. CASE link'[a] # link[a]
    BY <1>3, <2>2, FreshAssumption DEF MasterOK
  <2> QED
    BY <2>1, <2>2
<1>9. Running(a, "vrf")' \/ NotBegun(a, "vrf")' => "vrf" \in Plugins
  BY <1>0, <1>2 DEF Running, Idle, NotBegun, Ahead, Plugins, ChainInv, ProcOK
<1>10. NotBegun(a, "vrf") \/ BeginAdd(a) => (Running(a, "vrf")' \/ NotBegun(a, "vrf")' => Bare(a)')
  <2>1. CASE BeginAdd(a)
    BY <1>5, <1>9, <2>1
  <2>2. CASE ~BeginAdd(a) /\ NotBegun(a, "vrf")
    <3>1. link'[a] = link[a]
      BY <1>3, <1>6, <2>2
    <3> QED
      BY <1>7, <2>2, <3>1 DEF VrfInv, VrfOK
  <2> QED
    BY <2>1, <2>2
<1>11. VrfRuns(a)'
  <2> SUFFICES ASSUME Running(a, "vrf")' PROVE VrfRuns(a)'
    BY DEF VrfRuns
  <2>1. proc'[a].cmd = "add" => VrfAdding(a)'
    BY <1>2, <1>10 DEF VrfAdding
  <2>2. VrfDeleting(a)'
    BY <1>2 DEF VrfDeleting
  <2> QED
    BY <1>2, <2>1, <2>2 DEF VrfRuns
<1>12. Done(a, "vrf")' => Member(a)'
  <2> SUFFICES ASSUME Done(a, "vrf")' PROVE Member(a)'
    OBVIOUS
  <2>1. Done(a, "vrf") /\ Member(a) /\ link'[a] = link[a]
    BY <1>2, <1>3, <1>5, <1>6 DEF VrfInv, VrfOK
  <2> QED
    BY <1>7, <2>1
<1>13. Undone(a, "vrf")' => Loose(a)'
  <2> SUFFICES ASSUME Undone(a, "vrf")' PROVE Loose(a)'
    OBVIOUS
  <2>1. Undone(a, "vrf") /\ Loose(a) /\ link'[a] = link[a]
    BY <1>2, <1>3, <1>5, <1>6 DEF VrfInv, VrfOK
  <2> QED
    BY <1>7, <2>1
<1>14. VrfOK(a)'
  BY <1>2, <1>8, <1>10, <1>11, <1>12, <1>13 DEF VrfOK
<1>15. ASSUME NEW n, n # "none", assignedInterfaces(n) = {} PROVE assignedInterfaces(n)' = {}
  <2>1. ASSUME NEW b \in Att, link'[b] # NoLink, link'[b].master = n PROVE FALSE
    <3>1. link'[b] = link[b] \/ link'[b] = Fresh[b] \/ link'[b] = NoLink
      BY <1>2, <1>3
    <3> QED
      BY <1>15, <2>1, <3>1, FreshAssumption DEF assignedInterfaces
  <2> QED
    BY <2>1 DEF assignedInterfaces
<1>16. ASSUME NEW b \in Att \ {a} PROVE VrfOK(b)'
  <2>1. VrfOK(b) /\ NameOf(b)' = NameOf(b) /\ NameOf(b) # "none"
    BY <1>1, NamesOf DEF VrfInv
  <2>2. takenTables' = takenTables
    BY <1>1 DEF takenTables
  <2>3. VrfAdding(b) => VrfAdding(b)'
    BY <1>1, <1>2, <1>7, <2>2 DEF VrfAdding
  <2>4. VrfDeleting(b) => VrfDeleting(b)'
    BY <1>1, <1>2, <1>7, <1>15, <2>1 DEF VrfDeleting
  <2>5. VrfRuns(b)'
    BY <1>2, <2>1, <2>3, <2>4 DEF VrfRuns, VrfOK
  <2> QED
    BY <1>2, <1>7, <2>1, <2>5 DEF VrfOK
<1>17. OneVrfProcess'
  <2>1. Running(a, "vrf")' => \A b \in Att \ {a} : ~Running(b, "vrf")
    BY <1>2 DEF MayRun, VrfInv, OneVrfProcess
  <2> QED
    BY <1>2, <2>1 DEF VrfInv, OneVrfProcess
<1>18. TablesApart'
  BY <1>1 DEF VrfInv, TablesApart
<1>19. ASSUME NEW n \in VrfNames PROVE Kept(n)'
  <2> SUFFICES ASSUME vrfs[n] # 0
               PROVE  \E b \in Att : NameOf(b) = n /\ told'[b] # "gone" /\ ~Undone(b, "vrf")'
    BY <1>1 DEF Kept
  <2>1. PICK b \in Att : NameOf(b) = n /\ told[b] # "gone" /\ ~Undone(b, "vrf")
    BY DEF VrfInv, Kept
  <2>2. "vrf" \in Plugins
    BY DEF VrfInv
  <2>3. told'[b] # "gone" /\ ~Undone(b, "vrf")'
    BY <1>2, <2>1, <2>2
  <2> QED
    BY <2>1, <2>3
<1> QED
  BY <1>1, <1>2, <1>14, <1>16, <1>17, <1>18, <1>19 DEF VrfInv

LEMMA Heads ==
  ASSUME NEW k, NEW l, NEW m
  PROVE  /\ <<k>> # <<>> /\ <<k, l>> # <<>> /\ <<k, l, m>> # <<>>
         /\ Head(<<k>>) = k /\ Head(<<k, l>>) = k /\ Head(<<k, l, m>>) = k
         /\ Tail(<<k>>) = <<>> /\ Tail(<<k, l>>) = <<l>> /\ Tail(<<k, l, m>>) = <<l, m>>
OBVIOUS

\* What is known where vrf makes a call.
LEMMA VrfAt ==
  ASSUME TypeInv, VrfInv, NEW a \in Att, Running(a, "vrf")
  PROVE  /\ At(a, "vrf", "list links") => proc[a].cmd = "add" /\ Bare(a)
         /\ At(a, "vrf", "add vrf") =>
               /\ proc[a].cmd = "add" /\ Bare(a) /\ Call(a).table \in Nat \ {0}
               /\ Rest(a) = <<[op |-> "vrf up"], [op |-> "get link"]>>
               /\ IF vrfConf[a].table = 0 THEN Call(a).table \notin takenTables
                  ELSE Call(a).table = vrfConf[a].table
         /\ At(a, "vrf", "vrf up") =>
               /\ proc[a].cmd = "add" /\ Bare(a) /\ Rest(a) = <<[op |-> "get link"]>>
         /\ At(a, "vrf", "get link") => proc[a].cmd = "add" /\ Bare(a)
         /\ At(a, "vrf", "set master") =>
               proc[a].cmd = "add" /\ Bare(a) /\ Call(a).before = Fresh[a].v6
         /\ At(a, "vrf", "restore") =>
               /\ proc[a].cmd = "add" /\ Enslaved(a) /\ link[a].v6 \subseteq Fresh[a].v6
               /\ Call(a).before = Fresh[a].v6
               /\ proc[a].todo = <<[op |-> "restore", before |-> Fresh[a].v6]>>
         /\ At(a, "vrf", "reset master") => proc[a].cmd = "del"
         /\ At(a, "vrf", "list members") => proc[a].cmd = "del" /\ Loose(a)
         /\ At(a, "vrf", "delete vrf") =>
               proc[a].cmd = "del" /\ Loose(a) /\ assignedInterfaces(NameOf(a)) = {}
<1>1. /\ \A op \in VrfAddOps : At(a, "vrf", op) => proc[a].cmd = "add"
      /\ \A op \in VrfDelOps : At(a, "vrf", op) => proc[a].cmd = "del"
  BY VrfAddCall, VrfDelCall
<1>2. proc[a].cmd = "add" => VrfAdding(a)
  BY DEF VrfInv, VrfOK, VrfRuns
<1>3. proc[a].cmd = "del" => VrfDeleting(a)
  BY DEF VrfInv, VrfOK, VrfRuns
<1>4. \A op : At(a, "vrf", op) <=> proc[a].todo # <<>> /\ Call(a).op = op
  BY DEF At, Call
<1> DEFINE s == proc[a].todo
           k1 == [op |-> "list links"]
           k2 == [op |-> "vrf up"]
           k3 == [op |-> "get link"]
           k4 == [op |-> "set master", before |-> Fresh[a].v6]
           k5 == [op |-> "restore", before |-> Fresh[a].v6]
           k6(t) == [op |-> "add vrf", table |-> t]
           k7 == [op |-> "start"]
           k8 == [op |-> "reset master"]
           k9 == [op |-> "list members"]
           k10 == [op |-> "delete vrf"]
<1>5. /\ k1.op = "list links" /\ k2.op = "vrf up" /\ k3.op = "get link"
      /\ k4.op = "set master" /\ k4.before = Fresh[a].v6
      /\ k5.op = "restore" /\ k5.before = Fresh[a].v6
      /\ \A t : k6(t).op = "add vrf" /\ k6(t).table = t
      /\ k7.op = "start" /\ k8.op = "reset master" /\ k9.op = "list members"
      /\ k10.op = "delete vrf"
  OBVIOUS
<1>6. ASSUME VrfAdding(a), s # <<>>
      PROVE  \/ s \in {<<k7>>, <<k1>>, <<k3>>, <<k4>>} /\ Bare(a)
             \/ s = <<k2, k3>> /\ Bare(a)
             \/ s = <<k5>> /\ Enslaved(a) /\ link[a].v6 \subseteq Fresh[a].v6
             \/ \E t \in Nat \ {0} :
                   /\ s = <<k6(t), k2, k3>> /\ Bare(a)
                   /\ IF vrfConf[a].table = 0 THEN t \notin takenTables ELSE t = vrfConf[a].table
  BY <1>6 DEF VrfAdding, Start
<1>7. ASSUME VrfDeleting(a), s # <<>>
      PROVE  \/ s \in {<<k7>>, <<k8>>}
             \/ s = <<k9>> /\ Loose(a)
             \/ s = <<k10>> /\ Loose(a) /\ assignedInterfaces(NameOf(a)) = {}
  <2>1. \/ s \in {<<>>, <<k9>>} /\ Loose(a)
        \/ s \in {<<k7>>, <<k8>>}
        \/ s = <<k10>> /\ Loose(a) /\ assignedInterfaces(NameOf(a)) = {}
    BY <1>7 DEF VrfDeleting, Start
  <2> HIDE DEF k7, k8, k9, k10
  <2>2. CASE s \in {<<>>, <<k9>>} /\ Loose(a)
    <3>1. CASE s = <<>>
      BY <1>7, <3>1
    <3>2. CASE s = <<k9>>
      BY <2>2, <3>2
    <3> QED
      BY <2>2, <3>1, <3>2
  <2>3. CASE s \in {<<k7>>, <<k8>>}
    BY <2>3
  <2>4. CASE s = <<k10>> /\ Loose(a) /\ assignedInterfaces(NameOf(a)) = {}
    BY <2>4
  <2> QED
    BY <2>1, <2>2, <2>3, <2>4
<1>8. Call(a) = Head(s) /\ Rest(a) = Tail(s)
  BY DEF Call, Rest
<1> HIDE DEF k1, k2, k3, k4, k5, k6, k7, k8, k9, k10
<1>h. /\ Head(<<k7>>) = k7 /\ Head(<<k1>>) = k1 /\ Head(<<k3>>) = k3
      /\ Head(<<k2, k3>>) = k2 /\ Tail(<<k2, k3>>) = <<k3>>
      /\ Head(<<k4>>) = k4 /\ Head(<<k5>>) = k5
      /\ \A t : Head(<<k6(t), k2, k3>>) = k6(t) /\ Tail(<<k6(t), k2, k3>>) = <<k2, k3>>
  BY Heads
<1>9. ASSUME s # <<>>, proc[a].cmd = "add"
      PROVE  \/ Call(a) = k7
             \/ Call(a) = k1 /\ Bare(a)
             \/ Call(a) = k3 /\ Bare(a)
             \/ Call(a) = k2 /\ Rest(a) = <<k3>> /\ Bare(a)
             \/ Call(a) = k4 /\ Bare(a)
             \/ Call(a) = k5 /\ s = <<k5>> /\ Enslaved(a) /\ link[a].v6 \subseteq Fresh[a].v6
             \/ \E t \in Nat \ {0} :
                   /\ Call(a) = k6(t) /\ Rest(a) = <<k2, k3>> /\ Bare(a)
                   /\ IF vrfConf[a].table = 0 THEN t \notin takenTables ELSE t = vrfConf[a].table
  <2>1. VrfAdding(a)
    BY <1>2, <1>9
  <2>2. CASE \E t \in Nat \ {0} :
                /\ s = <<k6(t), k2, k3>> /\ Bare(a)
                /\ IF vrfConf[a].table = 0 THEN t \notin takenTables ELSE t = vrfConf[a].table
    <3>1. PICK t \in Nat \ {0} :
             /\ s = <<k6(t), k2, k3>> /\ Bare(a)
             /\ IF vrfConf[a].table = 0 THEN t \notin takenTables ELSE t = vrfConf[a].table
      BY <2>2
    <3>2. Call(a) = k6(t) /\ Rest(a) = <<k2, k3>>
      BY <1>8, <1>h, <3>1
    <3> QED
      BY <3>1, <3>2
  <2>3. CASE s = <<k2, k3>> /\ Bare(a)
    BY <1>8, <1>h, <2>3
  <2>4. CASE s = <<k5>> /\ Enslaved(a) /\ link[a].v6 \subseteq Fresh[a].v6
    BY <1>8, <1>h, <2>4
  <2>5. CASE (s = <<k7>> \/ s = <<k1>> \/ s = <<k3>> \/ s = <<k4>>) /\ Bare(a)
    BY <1>8, <1>h, <2>5
  <2> QED
    BY <1>6, <1>9, <2>1, <2>2, <2>3, <2>4, <2>5
<1>10. ASSUME s # <<>>, proc[a].cmd = "del"
       PROVE  \/ Call(a) = k7
              \/ Call(a) = k8
              \/ Call(a) = k9 /\ Loose(a)
              \/ Call(a) = k10 /\ Loose(a) /\ assignedInterfaces(NameOf(a)) = {}
  BY <1>3, <1>7, <1>8, <1>10, Heads
<1>a. ASSUME NEW op \in VrfAddOps, At(a, "vrf", op)
      PROVE  s # <<>> /\ proc[a].cmd = "add" /\ Call(a).op = op
  BY <1>1, <1>4, <1>a
<1>b. ASSUME At(a, "vrf", "list links") PROVE proc[a].cmd = "add" /\ Bare(a)
  <2>1. s # <<>> /\ proc[a].cmd = "add" /\ Call(a).op = "list links"
    BY <1>a, <1>b DEF VrfAddOps
  <2> QED
    BY <1>5, <1>9, <2>1
<1>c. ASSUME At(a, "vrf", "add vrf")
      PROVE  /\ proc[a].cmd = "add" /\ Bare(a) /\ Call(a).table \in Nat \ {0}
             /\ Rest(a) = <<k2, k3>>
             /\ IF vrfConf[a].table = 0 THEN Call(a).table \notin takenTables
                ELSE Call(a).table = vrfConf[a].table
  <2>1. s # <<>> /\ proc[a].cmd = "add" /\ Call(a).op = "add vrf"
    BY <1>a, <1>c DEF VrfAddOps
  <2>2. PICK t \in Nat \ {0} :
           /\ Call(a) = k6(t) /\ Rest(a) = <<k2, k3>> /\ Bare(a)
           /\ IF vrfConf[a].table = 0 THEN t \notin takenTables ELSE t = vrfConf[a].table
    BY <1>5, <1>9, <2>1
  <2>3. Call(a).table = t
    BY <1>5, <2>2
  <2> QED
    BY <2>1, <2>2, <2>3
<1>d. ASSUME At(a, "vrf", "vrf up")
      PROVE  proc[a].cmd = "add" /\ Bare(a) /\ Rest(a) = <<k3>>
  <2>1. s # <<>> /\ proc[a].cmd = "add" /\ Call(a).op = "vrf up"
    BY <1>a, <1>d DEF VrfAddOps
  <2> QED
    BY <1>5, <1>9, <2>1
<1>e. ASSUME At(a, "vrf", "get link") PROVE proc[a].cmd = "add" /\ Bare(a)
  <2>1. s # <<>> /\ proc[a].cmd = "add" /\ Call(a).op = "get link"
    BY <1>a, <1>e DEF VrfAddOps
  <2> QED
    BY <1>5, <1>9, <2>1
<1>f. ASSUME At(a, "vrf", "set master")
      PROVE  proc[a].cmd = "add" /\ Bare(a) /\ Call(a).before = Fresh[a].v6
  <2>1. s # <<>> /\ proc[a].cmd = "add" /\ Call(a).op = "set master"
    BY <1>a, <1>f DEF VrfAddOps
  <2> QED
    BY <1>5, <1>9, <2>1
<1>g. ASSUME At(a, "vrf", "restore")
      PROVE  /\ proc[a].cmd = "add" /\ Enslaved(a) /\ link[a].v6 \subseteq Fresh[a].v6
             /\ Call(a).before = Fresh[a].v6
             /\ proc[a].todo = <<k5>>
  <2>1. s # <<>> /\ proc[a].cmd = "add" /\ Call(a).op = "restore"
    BY <1>a, <1>g DEF VrfAddOps
  <2> QED
    BY <1>5, <1>9, <2>1
<1>12. /\ At(a, "vrf", "reset master") => proc[a].cmd = "del"
       /\ At(a, "vrf", "list members") => proc[a].cmd = "del" /\ Loose(a)
       /\ At(a, "vrf", "delete vrf") =>
             proc[a].cmd = "del" /\ Loose(a) /\ assignedInterfaces(NameOf(a)) = {}
  BY <1>1, <1>4, <1>5, <1>10 DEF VrfDelOps
<1> QED
  BY <1>b, <1>c, <1>d, <1>e, <1>f, <1>g, <1>12 DEF k2, k3, k5

\* A call of vrf, for everybody else.
LEMMA VrfOwn ==
  ASSUME TypeInv, VrfInv, OnePerChain, FreshEachTime("vrf"),
         NEW a \in Att, Running(a, "vrf"), Steps(a), vrfConf' = vrfConf,
         VrfRuns(a)', MasterOK(a)', TablesApart',
         proc[a].cmd = "check" => link' = link /\ vrfs' = vrfs,
         \A b \in Att \ {a} : link'[b] = link[b],
         \A n \in VrfNames \ {NameOf(a)} : vrfs'[n] = vrfs[n],
         \/ vrfs'[NameOf(a)] = vrfs[NameOf(a)]
         \/ vrfs'[NameOf(a)] # 0
         \/ assignedInterfaces(NameOf(a)) = {},
         \/ vrfs'[NameOf(a)] = 0
         \/ ~(Running(a, "vrf")' /\ proc[a].cmd = "del" /\ proc'[a].todo = <<>>)
         \/ \E b \in assignedInterfaces(NameOf(a)) : b # a
  PROVE  VrfInv'
<1>1. /\ Plugins' = Plugins /\ "vrf" \in Plugins
      /\ \A b \in Att \ {a} :
            /\ proc'[b] = proc[b] /\ told'[b] = told[b]
            /\ Running(b, "vrf")' <=> Running(b, "vrf")
            /\ Done(b, "vrf")' <=> Done(b, "vrf")
            /\ NotBegun(b, "vrf")' <=> NotBegun(b, "vrf")
            /\ Undone(b, "vrf")' <=> Undone(b, "vrf")
      /\ told[a] # "gone" /\ told'[a] # "gone"
      /\ ~NotBegun(a, "vrf")'
      /\ Running(a, "vrf")' => /\ proc'[a].cmd = proc[a].cmd
                               /\ Done(a, "vrf")' <=>
                                     (Ready(a, "vrf") \/
                                        (proc[a].cmd = "add" /\ proc'[a].todo = <<>>))
                               /\ Undone(a, "vrf")' <=>
                                     (proc[a].cmd = "del" /\ proc'[a].todo = <<>>)
      /\ ~Running(a, "vrf")' => /\ ~Done(a, "vrf")' /\ ~Undone(a, "vrf")'
                                /\ proc'[a] = Quit
  BY OwnPlugin DEF TypeInv
<1>2. \A b : NameOf(b)' = NameOf(b)
  BY DEF NameOf
<1>3. \A b \in Att : NameOf(b) \in VrfNames /\ NameOf(b) # "none"
  BY NamesOf
<1>4. ASSUME NEW b \in Att \ {a} PROVE VrfOK(b)'
  <2>1. ~Running(b, "vrf")'
    BY <1>1 DEF VrfInv, OneVrfProcess
  <2>2. VrfOK(b) /\ link'[b] = link[b]
    BY DEF VrfInv
  <2>3. Enslaved(b) => Enslaved(b)'
    <3> SUFFICES ASSUME Enslaved(b) PROVE vrfs'[NameOf(b)] # 0
      BY <1>2, <2>2 DEF Enslaved
    <3>1. b \in assignedInterfaces(NameOf(b)) /\ vrfs[NameOf(b)] # 0
      BY DEF Enslaved, assignedInterfaces
    <3> QED
      BY <1>3, <3>1
  <2>4. /\ Bare(b) => Bare(b)'
        /\ Loose(b) => Loose(b)'
        /\ Member(b) => Member(b)'
        /\ MasterOK(b) => MasterOK(b)'
    BY <2>2, <2>3 DEF Bare, Loose, Member, MasterOK
  <2> QED
    BY <1>1, <2>1, <2>2, <2>4 DEF VrfOK, VrfRuns
<1>5. VrfOK(a)'
  <2>1. ASSUME Done(a, "vrf")' PROVE Member(a)'
    <3>1. Running(a, "vrf")' /\ (Ready(a, "vrf") \/ (proc[a].cmd = "add" /\ proc'[a].todo = <<>>))
      BY <1>1, <2>1
    <3>2. CASE Ready(a, "vrf")
      <4>1. proc[a].cmd = "check"
        BY <3>2 DEF Ready, TypeInv, ChainInv, ProcOK, Running, Idle
      <4>2. Member(a)
        BY <3>2 DEF VrfInv, VrfOK, Done
      <4> QED
        BY <4>1, <4>2, <1>2 DEF Member, Enslaved
    <3>3. CASE proc[a].cmd = "add" /\ proc'[a].todo = <<>>
      <4>1. VrfAdding(a)' /\ proc'[a].todo = <<>>
        BY <1>1, <3>1, <3>3 DEF VrfRuns
      <4> QED
        BY <4>1 DEF VrfAdding, Start
    <3> QED
      BY <3>1, <3>2, <3>3
  <2>2. ASSUME Undone(a, "vrf")' PROVE Loose(a)'
    <3>1. VrfDeleting(a)' /\ proc'[a].todo = <<>>
      BY <1>1, <2>2 DEF VrfRuns
    <3> QED
      BY <3>1 DEF VrfDeleting, Start
  <2> QED
    BY <1>1, <2>1, <2>2 DEF VrfOK
<1>6. OneVrfProcess'
  BY <1>1 DEF VrfInv, OneVrfProcess
<1>7. ASSUME NEW n \in VrfNames PROVE Kept(n)'
  <2> SUFFICES ASSUME vrfs'[n] # 0
               PROVE  \E b \in Att : NameOf(b) = n /\ told'[b] # "gone" /\ ~Undone(b, "vrf")'
    BY <1>2 DEF Kept
  <2>1. CASE n # NameOf(a)
    <3>1. vrfs[n] # 0
      BY <2>1
    <3>2. PICK b \in Att : NameOf(b) = n /\ told[b] # "gone" /\ ~Undone(b, "vrf")
      BY <3>1 DEF VrfInv, Kept
    <3> QED
      BY <1>1, <2>1, <3>2
  <2>2. CASE n = NameOf(a) /\ ~(Running(a, "vrf")' /\ proc[a].cmd = "del" /\ proc'[a].todo = <<>>)
    BY <1>1, <2>2
  <2>3. CASE n = NameOf(a) /\ \E b \in assignedInterfaces(NameOf(a)) : b # a
    <3>1. PICK b \in Att \ {a} : link[b] # NoLink /\ link[b].master = n
      BY <2>3 DEF assignedInterfaces
    <3>2. Enslaved(b) /\ NameOf(b) = n /\ ~Loose(b)
      BY <1>3, <2>3, <3>1 DEF VrfInv, VrfOK, MasterOK, Enslaved, Loose
    <3>3. ~Undone(b, "vrf")
      BY <3>2 DEF VrfInv, VrfOK
    <3>4. ~Stays(b)
      BY <1>1 DEF FreshEachTime, Stays, Plugins, TypeInv, ChainInv
    <3>5. told[b] # "gone"
      BY <3>1, <3>4 DEF TypeInv, ChainInv, LinkOK
    <3> QED
      BY <1>1, <3>2, <3>3, <3>5
  <2> QED
    BY <2>1, <2>2, <2>3
<1> QED
  BY <1>1, <1>4, <1>5, <1>6, <1>7 DEF VrfInv


LEMMA VrfStarting ==
  ASSUME NEW a \in Att, VrfAdding(a), At(a, "vrf", "start"), proc[a].todo # <<>>
  PROVE  Bare(a)
<1> DEFINE k == [op |-> "restore", before |-> Fresh[a].v6]
<1>1. k.op = "restore"
  OBVIOUS
<1> HIDE DEF k
<1>2. proc[a].todo # <<k>>
  BY <1>1, Heads DEF At
<1> QED
  BY <1>2 DEF VrfAdding, k

\* The calls of vrf.
LEMMA VrfOwnStep ==
  ASSUME TypeInv, VrfInv, OnePerChain, FreshEachTime("vrf"), OneChooser,
         NEW a \in Att, Running(a, "vrf"), VrfStep(a)
  PROVE  VrfInv'
<1>1. ChainInv /\ Steps(a) /\ vrfConf' = vrfConf /\ SameLinks
  BY VrfSteps, VrfTouches DEF TypeInv
<1>2. \A b \in Att : NameOf(b) \in VrfNames /\ NameOf(b) # "none" /\ NameOf(b)' = NameOf(b)
  BY <1>1, NamesOf DEF NameOf
<1>3. TablesApart /\ MasterOK(a)
  BY DEF VrfInv, VrfOK
<1>4. ASSUME UNCHANGED <<link, vrfVars>>, VrfRuns(a)',
             \/ vrfs[NameOf(a)] = 0
             \/ ~(Running(a, "vrf")' /\ proc[a].cmd = "del" /\ proc'[a].todo = <<>>)
             \/ \E b \in assignedInterfaces(NameOf(a)) : b # a
      PROVE  VrfInv'
  <2>1. link' = link /\ vrfs' = vrfs
    BY <1>4 DEF vrfVars
  <2>2. TablesApart' /\ MasterOK(a)'
    BY <1>1, <1>2, <1>3, <2>1 DEF TablesApart, MasterOK, Enslaved
  <2> QED
    BY <1>1, <1>4, <2>1, <2>2, VrfOwn
<1>5. ASSUME UNCHANGED <<link, vrfVars>>, Error(a) \/ Fault(a, Failed)
      PROVE  VrfInv'
  <2>1. ~Running(a, "vrf")'
    BY <1>1, <1>5, ErrorFacts, FaultFacts
  <2> QED
    BY <1>4, <1>5, <2>1 DEF VrfRuns
<1>6. ASSUME NEW calls, Do(a, calls), proc[a].cmd = "add", UNCHANGED <<link, vrfVars>>, Bare(a),
             \/ calls \in {<<[op |-> "list links"]>>, <<[op |-> "get link"]>>,
                           <<[op |-> "vrf up"], [op |-> "get link"]>>}
             \/ calls = <<[op |-> "set master", before |-> Fresh[a].v6]>>
             \/ \E t \in Nat \ {0} :
                   /\ calls = <<[op |-> "add vrf", table |-> t], [op |-> "vrf up"],
                                [op |-> "get link"]>>
                   /\ IF vrfConf[a].table = 0 THEN t \notin takenTables
                      ELSE t = vrfConf[a].table
      PROVE  VrfInv'
  <2>1. proc'[a].todo = calls /\ proc'[a].cmd = "add"
    BY <1>1, <1>6, DoFacts
  <2>2. Bare(a)' /\ takenTables' = takenTables
    BY <1>6 DEF Bare, takenTables, vrfVars
  <2>3. VrfAdding(a)'
    BY <1>1, <1>6, <2>1, <2>2 DEF VrfAdding
  <2> QED
    BY <1>4, <1>6, <2>1, <2>3 DEF VrfRuns
<1>7. CASE VrfStart(a)
  <2>1. CASE VrfAdd(a)
    <3>1. proc[a].cmd = "add" /\ UNCHANGED <<link, vrfVars>> /\ proc[a].todo # <<>>
      BY <1>7, <2>1 DEF VrfAdd, VrfStart, At
    <3>2. Bare(a)
      <4>1. VrfAdding(a)
        BY <3>1 DEF VrfInv, VrfOK, VrfRuns
      <4>2. At(a, "vrf", "start")
        BY <1>7 DEF VrfStart
      <4> QED
        BY <3>1, <4>1, <4>2, VrfStarting
    <3> QED
      BY <1>5, <1>6, <2>1, <3>1, <3>2 DEF VrfAdd
  <2>2. CASE VrfDel(a)
    <3> DEFINE calls == IF vrfs[NameOf(a)] = 0 THEN <<>> ELSE <<[op |-> "reset master"]>>
    <3>1. UNCHANGED <<link, vrfVars>> /\ proc[a].cmd = "del" /\ Do(a, calls)
      BY <1>7, <2>2 DEF VrfDel, VrfStart
    <3> HIDE DEF calls
    <3>2. proc'[a].todo = calls /\ proc'[a].cmd = "del"
      BY <1>1, <3>1, DoFacts
    <3>3. CASE vrfs[NameOf(a)] = 0
      <4>1. proc'[a].todo = <<>>
        BY <3>2, <3>3 DEF calls
      <4>2. Loose(a)'
        BY <1>3, <3>1, <3>3 DEF MasterOK, Enslaved, Loose
      <4>3. VrfDeleting(a)'
        BY <4>1, <4>2 DEF VrfDeleting
      <4> QED
        BY <1>4, <3>1, <3>2, <3>3, <4>3 DEF VrfRuns
    <3>4. CASE vrfs[NameOf(a)] # 0
      <4>1. proc'[a].todo = <<[op |-> "reset master"]>>
        BY <3>2, <3>4 DEF calls
      <4>2. VrfDeleting(a)' /\ proc'[a].todo # <<>>
        BY <4>1, Heads DEF VrfDeleting
      <4> QED
        BY <1>4, <3>1, <3>2, <4>2 DEF VrfRuns
    <3> QED
      BY <3>3, <3>4
  <2>3. CASE VrfCheck(a)
    <3>1. UNCHANGED <<link, vrfVars>> /\ proc[a].cmd = "check" /\ Do(a, <<>>)
      BY <1>7, <2>3 DEF VrfCheck, VrfStart
    <3>2. proc'[a].todo = <<>> /\ proc'[a].cmd = "check"
      BY <1>1, <3>1, DoFacts
    <3> QED
      BY <1>4, <3>1, <3>2 DEF VrfRuns
  <2> QED
    BY <1>7, <2>1, <2>2, <2>3 DEF VrfStart
<1>8. CASE ChooseTable(a)
  <2> DEFINE free == (1..MaxTable) \ takenTables
             t == IF vrfConf[a].table # 0 THEN vrfConf[a].table ELSE Min(free)
  <2>1. proc[a].cmd = "add" /\ Bare(a) /\ UNCHANGED <<link, vrfVars>>
    BY <1>8, VrfAt DEF ChooseTable
  <2>2. CASE Error(a)
    BY <1>5, <2>1, <2>2
  <2>3. CASE ~Error(a)
    <3>1. /\ vrfConf[a].table # 0 \/ free # {}
          /\ Do(a, <<[op |-> "add vrf", table |-> t], [op |-> "vrf up"], [op |-> "get link"]>>)
      BY <1>8, <2>3 DEF ChooseTable
    <3>2. /\ t \in Nat \ {0}
          /\ IF vrfConf[a].table = 0 THEN t \notin takenTables ELSE t = vrfConf[a].table
      BY <3>1, NamesOf, FreeTable
    <3> HIDE DEF t
    <3> QED
      BY <1>6, <2>1, <3>1, <3>2
  <2> QED
    BY <2>2, <2>3
<1>9. CASE AddVrf(a)
  <2> DEFINE t == Call(a).table
  <2>1. /\ proc[a].cmd = "add" /\ Bare(a) /\ t \in Nat \ {0}
        /\ Rest(a) = <<[op |-> "vrf up"], [op |-> "get link"]>>
        /\ IF vrfConf[a].table = 0 THEN t \notin takenTables ELSE t = vrfConf[a].table
    BY <1>9, VrfAt DEF AddVrf
  <2>2. CASE vrfs[NameOf(a)] # 0
    <3>1. UNCHANGED <<link, vrfVars>> /\ Error(a)
      BY <1>9, <2>2 DEF AddVrf, vrfVars
    <3> QED
      BY <1>5, <3>1
  <2>3. CASE vrfs[NameOf(a)] = 0
    <3>1. vrfs' = [vrfs EXCEPT ![NameOf(a)] = t] /\ Do(a, Rest(a)) /\ link' = link
      BY <1>9, <2>3 DEF AddVrf
    <3>2. /\ vrfs'[NameOf(a)] = t /\ \A n \in VrfNames \ {NameOf(a)} : vrfs'[n] = vrfs[n]
          /\ \A n \in VrfNames : vrfs[n] \in Nat
      BY <1>2, <3>1 DEF TypeInv
    <3>3. /\ proc'[a].todo = <<[op |-> "vrf up"], [op |-> "get link"]>> /\ proc'[a].cmd = "add"
      BY <1>1, <2>1, <3>1, DoFacts
    <3>4. Bare(a)' /\ MasterOK(a)'
      BY <2>1, <3>1 DEF Bare, MasterOK
    <3>5. VrfAdding(a)'
      BY <3>3, <3>4 DEF VrfAdding
    <3>6. TablesApart'
      <4> SUFFICES ASSUME NEW c \in Att, NEW d \in Att,
                          vrfConf[c].table = 0, vrfConf[d].table = 0,
                          NameOf(c) # NameOf(d), vrfs'[NameOf(c)] # 0
                   PROVE  vrfs'[NameOf(c)] # vrfs'[NameOf(d)]
        BY <1>1, <1>2 DEF TablesApart
      <4>1. \/ vrfs[NameOf(c)] = 0 \/ vrfs[NameOf(c)] # vrfs[NameOf(d)]
        BY <1>3 DEF TablesApart
      <4>2. CASE NameOf(a) \notin {NameOf(c), NameOf(d)}
        BY <1>2, <3>2, <4>1, <4>2
      <4>3. CASE NameOf(a) \in {NameOf(c), NameOf(d)}
        <5>1. vrfConf[a].table = 0
          <6> SUFFICES ASSUME vrfConf[a].table # 0 PROVE FALSE
            OBVIOUS
          <6>1. vrfConf \in VrfConfs
            BY DEF TypeInv
          <6>2. \A e \in Att : NameOf(e) = NameOf(a) /\ vrfConf[e].table = 0 =>
                   \A f \in Att : vrfConf[f].table = 0 => NameOf(f) = NameOf(a)
            BY <6>1 DEF OneChooser, NameOf
          <6> QED
            BY <4>3, <6>2
        <5>2. t \notin takenTables /\ t # 0
          BY <2>1, <5>1
        <5>3. \A n \in VrfNames \ {NameOf(a)} : vrfs'[n] # t
          BY <3>2, <5>2 DEF takenTables
        <5> QED
          BY <1>2, <3>2, <4>3, <5>3
      <4> QED
        BY <4>2, <4>3
    <3>7. VrfRuns(a)'
      BY <3>3, <3>5 DEF VrfRuns
    <3> QED
      BY <1>1, <2>1, <3>1, <3>2, <3>4, <3>6, <3>7, VrfOwn
  <2> QED
    BY <2>2, <2>3
<1>10. CASE SetVrfUp(a)
  <2>1. /\ proc[a].cmd = "add" /\ Bare(a) /\ Rest(a) = <<[op |-> "get link"]>>
        /\ UNCHANGED <<link, vrfVars>> /\ (Do(a, Rest(a)) \/ Error(a))
    BY <1>10, VrfAt DEF SetVrfUp
  <2> QED
    BY <1>5, <1>6, <2>1
<1>11. CASE GetLink(a)
  <2>1. proc[a].cmd = "add" /\ Bare(a) /\ UNCHANGED <<link, vrfVars>>
    BY <1>11, VrfAt DEF GetLink
  <2>2. Do(a, <<[op |-> "set master", before |-> Fresh[a].v6]>>)
    BY <1>11, <2>1 DEF GetLink, Bare
  <2> QED
    BY <1>6, <2>1, <2>2
<1>12. CASE SetMaster(a)
  <2>1. proc[a].cmd = "add" /\ Bare(a) /\ Call(a).before = Fresh[a].v6
    BY <1>12, VrfAt DEF SetMaster
  <2>2. CASE vrfs[NameOf(a)] = 0
    BY <1>5, <1>12, <2>2 DEF SetMaster
  <2>3. CASE vrfs[NameOf(a)] # 0
    <3> DEFINE r == [link[a] EXCEPT !.master = NameOf(a), !.v6 = IF KeepAddr THEN @ ELSE {}]
    <3>1. link[a] \in Links
      BY <1>1, <2>1 DEF ChainInv, LinkOK, Bare
    <3>2. r \in Links /\ r.master = NameOf(a) /\ r.v6 \subseteq Fresh[a].v6
      BY <2>1, <3>1, NamesOf DEF Links, Bare
    <3>3. /\ link' = [link EXCEPT ![a] = r] /\ vrfs' = vrfs
          /\ Do(a, <<[op |-> "restore", before |-> Fresh[a].v6]>>)
      BY <1>12, <2>1, <2>3 DEF SetMaster, vrfVars
    <3> HIDE DEF r
    <3>4. link'[a] = r /\ r # NoLink /\ \A b \in Att \ {a} : link'[b] = link[b]
      BY <1>1, <2>1, <3>2, <3>3, LinkSet, FreshAssumption DEF Bare
    <3>5. /\ proc'[a].todo = <<[op |-> "restore", before |-> Fresh[a].v6]>>
          /\ proc'[a].cmd = "add"
      BY <1>1, <2>1, <3>3, DoFacts
    <3>6. Enslaved(a)' /\ link'[a].v6 \subseteq Fresh[a].v6
      BY <1>2, <2>3, <3>2, <3>3, <3>4 DEF Enslaved
    <3>7. VrfAdding(a)' /\ MasterOK(a)'
      BY <3>5, <3>6 DEF VrfAdding, MasterOK
    <3>8. TablesApart'
      BY <1>1, <1>2, <1>3, <3>3 DEF TablesApart
    <3>9. VrfRuns(a)'
      BY <3>5, <3>7 DEF VrfRuns
    <3> QED
      BY <1>1, <2>1, <3>3, <3>4, <3>7, <3>8, <3>9, VrfOwn
  <2> QED
    BY <2>2, <2>3
<1>13. CASE RestoreAddress(a)
  <2>1. /\ proc[a].cmd = "add" /\ Enslaved(a) /\ link[a].v6 \subseteq Fresh[a].v6
        /\ Call(a).before = Fresh[a].v6
        /\ proc[a].todo = <<[op |-> "restore", before |-> Fresh[a].v6]>>
    BY <1>13, VrfAt DEF RestoreAddress
  <2>2. CASE Fresh[a].v6 \ link[a].v6 = {} /\ Do(a, <<>>) /\ UNCHANGED link
    <3>1. proc'[a].todo = <<>> /\ proc'[a].cmd = "add" /\ UNCHANGED <<link, vrfVars>>
      BY <1>1, <1>13, <2>1, <2>2, DoFacts DEF RestoreAddress
    <3>2. Member(a)'
      BY <1>2, <2>1, <2>2, <3>1 DEF Member, Enslaved, vrfVars
    <3>3. VrfAdding(a)'
      BY <3>1, <3>2 DEF VrfAdding
    <3> QED
      BY <1>4, <2>1, <3>1, <3>3 DEF VrfRuns
  <2>3. ASSUME NEW i \in Fresh[a].v6 \ link[a].v6,
               link' = [link EXCEPT ![a].v6 = @ \cup {i}], Do(a, proc[a].todo)
        PROVE  VrfInv'
    <3> DEFINE r == [link[a] EXCEPT !.v6 = @ \cup {i}]
    <3>1. link[a] \in Links /\ link[a] # NoLink /\ link[a].master = NameOf(a)
      BY <1>1, <2>1 DEF ChainInv, LinkOK, Enslaved
    <3>2. Fresh[a].v6 \in SUBSET STRING
      BY FreshAssumption DEF Links
    <3>3. r \in Links /\ r.master = NameOf(a) /\ r.v6 \subseteq Fresh[a].v6
      BY <2>1, <2>3, <3>1, <3>2 DEF Links
    <3>4. link' = [link EXCEPT ![a] = r] /\ vrfs' = vrfs
      BY <1>13, <2>3 DEF RestoreAddress, vrfVars
    <3> HIDE DEF r
    <3>5. link'[a] = r /\ r # NoLink /\ \A b \in Att \ {a} : link'[b] = link[b]
      BY <1>1, <3>1, <3>3, <3>4, LinkSet, FreshAssumption
    <3>6. proc'[a].todo = proc[a].todo /\ proc'[a].cmd = "add"
      BY <1>1, <2>1, <2>3, DoFacts
    <3>7. Enslaved(a)' /\ link'[a].v6 \subseteq Fresh[a].v6
      BY <1>2, <2>1, <3>3, <3>4, <3>5 DEF Enslaved
    <3>8. VrfAdding(a)' /\ MasterOK(a)'
      BY <2>1, <3>6, <3>7 DEF VrfAdding, MasterOK
    <3>9. TablesApart'
      BY <1>1, <1>2, <1>3, <3>4 DEF TablesApart
    <3>10. VrfRuns(a)'
      BY <3>6, <3>8 DEF VrfRuns
    <3> QED
      BY <1>1, <2>1, <3>4, <3>5, <3>8, <3>9, <3>10, VrfOwn
  <2> QED
    BY <1>13, <2>1, <2>2, <2>3 DEF RestoreAddress
<1>14. CASE resetMaster(a)
  <2>1. proc[a].cmd = "del"
    BY <1>14, VrfAt DEF resetMaster
  <2>2. CASE link[a] = NoLink
    BY <1>5, <1>14, <2>2 DEF resetMaster
  <2>3. CASE link[a] # NoLink
    <3> DEFINE r == [link[a] EXCEPT !.master = "none"]
    <3>1. link[a] \in Links
      BY <1>1, <2>3 DEF ChainInv, LinkOK
    <3>2. r \in Links /\ r.master = "none"
      BY <3>1, StringAssumption DEF Links
    <3>3. /\ link' = [link EXCEPT ![a] = r] /\ vrfs' = vrfs
          /\ Do(a, <<[op |-> "list members"]>>)
      BY <1>14, <2>3 DEF resetMaster, vrfVars
    <3> HIDE DEF r
    <3>4. link'[a] = r /\ \A b \in Att \ {a} : link'[b] = link[b]
      BY <1>1, <2>3, <3>2, <3>3, LinkSet
    <3>5. proc'[a].todo = <<[op |-> "list members"]>> /\ proc'[a].cmd = "del"
      BY <1>1, <2>1, <3>3, DoFacts
    <3>6. Loose(a)' /\ MasterOK(a)'
      BY <3>2, <3>4 DEF Loose, MasterOK
    <3>7. VrfDeleting(a)' /\ proc'[a].todo # <<>>
      BY <3>5, <3>6, Heads DEF VrfDeleting
    <3>8. TablesApart'
      BY <1>1, <1>2, <1>3, <3>3 DEF TablesApart
    <3>9. VrfRuns(a)'
      BY <3>5, <3>7 DEF VrfRuns
    <3> QED
      BY <1>1, <2>1, <3>3, <3>4, <3>6, <3>7, <3>8, <3>9, VrfOwn
  <2> QED
    BY <2>2, <2>3
<1>15. CASE ListMembers(a)
  <2>1. proc[a].cmd = "del" /\ Loose(a) /\ UNCHANGED <<link, vrfVars>>
    BY <1>15, VrfAt DEF ListMembers
  <2>2. CASE assignedInterfaces(NameOf(a)) = {}
    <3>1. proc'[a].todo = <<[op |-> "delete vrf"]>> /\ proc'[a].cmd = "del"
      BY <1>1, <1>15, <2>1, <2>2, DoFacts DEF ListMembers
    <3>2. Loose(a)' /\ assignedInterfaces(NameOf(a))' = {}
      BY <1>2, <2>1, <2>2 DEF Loose, assignedInterfaces
    <3>3. VrfDeleting(a)' /\ proc'[a].todo # <<>>
      BY <3>1, <3>2, Heads DEF VrfDeleting
    <3> QED
      BY <1>4, <2>1, <3>1, <3>3 DEF VrfRuns
  <2>3. CASE assignedInterfaces(NameOf(a)) # {}
    <3>1. proc'[a].todo = <<>> /\ proc'[a].cmd = "del"
      BY <1>1, <1>15, <2>1, <2>3, DoFacts DEF ListMembers
    <3>2. Loose(a)'
      BY <2>1 DEF Loose
    <3>3. VrfDeleting(a)'
      BY <3>1, <3>2 DEF VrfDeleting
    <3>4. \E b \in assignedInterfaces(NameOf(a)) : b # a
      BY <1>2, <2>1, <2>3 DEF assignedInterfaces, Loose
    <3> QED
      BY <1>4, <2>1, <3>1, <3>3, <3>4 DEF VrfRuns
  <2> QED
    BY <2>2, <2>3
<1>16. CASE DeleteVrf(a)
  <2>1. proc[a].cmd = "del" /\ Loose(a) /\ assignedInterfaces(NameOf(a)) = {}
    BY <1>16, VrfAt DEF DeleteVrf
  <2>2. CASE vrfs[NameOf(a)] = 0
    BY <1>5, <1>16, <2>2 DEF DeleteVrf, vrfVars
  <2>3. CASE vrfs[NameOf(a)] # 0
    <3>1. /\ vrfs' = [vrfs EXCEPT ![NameOf(a)] = 0] /\ Do(a, <<>>)
          /\ link' = [b \in Att |-> link[b]]
      BY <1>16, <2>1, <2>3 DEF DeleteVrf
    <3>2. /\ vrfs'[NameOf(a)] = 0 /\ \A n \in VrfNames \ {NameOf(a)} : vrfs'[n] = vrfs[n]
          /\ \A b \in Att : link'[b] = link[b]
      BY <1>2, <3>1 DEF TypeInv
    <3>3. proc'[a].todo = <<>> /\ proc'[a].cmd = "del"
      BY <1>1, <2>1, <3>1, DoFacts
    <3>4. Loose(a)' /\ MasterOK(a)'
      BY <2>1, <3>2 DEF Loose, MasterOK
    <3>5. VrfDeleting(a)'
      BY <3>3, <3>4 DEF VrfDeleting
    <3>6. TablesApart'
      BY <1>1, <1>2, <1>3, <3>2 DEF TablesApart
    <3>7. VrfRuns(a)'
      BY <3>3, <3>5 DEF VrfRuns
    <3> QED
      BY <1>1, <2>1, <3>2, <3>4, <3>6, <3>7, VrfOwn
  <2> QED
    BY <2>2, <2>3
<1>17. CASE VrfFails(a)
  BY <1>5, <1>17 DEF VrfFails
<1> QED
  BY <1>7, <1>8, <1>9, <1>10, <1>11, <1>12, <1>13, <1>14, <1>15, <1>16, <1>17 DEF VrfStep

LEMMA VrfNext ==
  ASSUME TypeInv, VrfInv, OnePerChain, "vrf" \in Alone, FreshEachTime("vrf"), OneChooser,
         [Next]_vars
  PROVE  VrfInv'
<1>1. CASE UNCHANGED vars
  <2>1. UNCHANGED <<chain, proc, told, link, vrfConf, vrfs>>
    BY <1>1 DEF vars, chainVars, vrfVars
  <2>2. ASSUME NEW a \in Att PROVE VrfOK(a)'
    <3>1. /\ Running(a, "vrf")' <=> Running(a, "vrf")
          /\ Done(a, "vrf")' <=> Done(a, "vrf")
          /\ NotBegun(a, "vrf")' <=> NotBegun(a, "vrf")
          /\ Undone(a, "vrf")' <=> Undone(a, "vrf")
      BY <2>1 DEF Done, NotBegun, Undone, Behind, Ahead, Running, Idle, Ready
    <3>2. /\ MasterOK(a)' <=> MasterOK(a)
          /\ Member(a)' <=> Member(a)
          /\ Bare(a)' <=> Bare(a)
          /\ Loose(a)' <=> Loose(a)
          /\ Enslaved(a)' <=> Enslaved(a)
      BY <2>1 DEF MasterOK, Member, Bare, Loose, Enslaved, NameOf
    <3>3. takenTables' = takenTables /\ assignedInterfaces(NameOf(a))' = assignedInterfaces(NameOf(a))
      BY <2>1 DEF takenTables, assignedInterfaces, NameOf
    <3>4. VrfAdding(a) => VrfAdding(a)'
      BY <2>1, <3>2, <3>3 DEF VrfAdding
    <3>5. VrfDeleting(a) => VrfDeleting(a)'
      BY <2>1, <3>2, <3>3 DEF VrfDeleting
    <3>6. VrfRuns(a) => VrfRuns(a)'
      BY <2>1, <3>1, <3>4, <3>5 DEF VrfRuns
    <3> QED
      BY <3>1, <3>2, <3>6 DEF VrfInv, VrfOK
  <2>3. OneVrfProcess' /\ TablesApart' /\ \A n \in VrfNames : Kept(n)'
    BY <2>1 DEF VrfInv, OneVrfProcess, TablesApart, Kept, Undone, Ahead, Running, Idle, NameOf
  <2> QED
    BY <2>1, <2>2, <2>3 DEF VrfInv, Plugins
<1>2. ASSUME NEW a \in Att, RuntimeStep(a) PROVE VrfInv'
  BY <1>2, VrfRuntime DEF RuntimeStep
<1>3. ASSUME NEW a \in Att, Running(a, "tuning"), TuningStep(a), UNCHANGED vrfVars PROVE VrfInv'
  <2>1. ~Running(a, "vrf") /\ Steps(a)
    BY <1>3, TuningSteps DEF Running
  <2>2. SameLinks /\ \A b \in Att : SameVrf(b)
    BY <1>3, TuningTouches
  <2> QED
    BY <1>3, <2>1, <2>2, VrfOther
<1>4. ASSUME NEW a \in Att, Running(a, "sbr"), SbrStep(a), UNCHANGED vrfVars PROVE VrfInv'
  <2>1. ~Running(a, "vrf") /\ Steps(a)
    BY <1>4, SbrSteps DEF Running
  <2>2. SameLinks /\ \A b \in Att : SameVrf(b)
    BY <1>4, SbrTouches
  <2> QED
    BY <1>4, <2>1, <2>2, VrfOther
<1> QED
  BY <1>1, <1>2, <1>3, <1>4, VrfOwnStep DEF Next, PluginStep

VrfHypotheses ==
    OnePerChain /\ "vrf" \in Alone /\ FreshEachTime("vrf") /\ OneChooser

\* The states of the chain have their types (PluginChain, Tuning, Vrf, Sbr).
THEOREM TypeCorrect == Spec => []TypeInv
BY TypeInit, TypeStep, PTL DEF Spec

LEMMA VrfInvariant ==
  ASSUME VrfHypotheses
  PROVE  Spec => []VrfInv
<1>1. TypeInv /\ VrfInv /\ [Next]_vars => VrfInv'
  BY VrfNext DEF VrfHypotheses
<1> QED
  BY <1>1, VrfInit0, TypeCorrect, PTL DEF Spec

(* Ready attachments are members of their VRF, with all their addresses    *)
(* and a table of its own (addInterface, createVRF): whatever the number   *)
(* of attachments and VRFs, and whichever calls fail or processes die, as  *)
(* long as vrf runs alone in a namespace.                                  *)
THEOREM MembersAreHeld == VrfHypotheses => (Spec => []VrfHeld)
<1> SUFFICES ASSUME VrfHypotheses PROVE Spec => []VrfHeld
  OBVIOUS
<1>1. TypeInv /\ VrfInv => VrfHeld
  <2> SUFFICES ASSUME TypeInv, VrfInv, NEW a \in Att, Ready(a, "vrf")
               PROVE  /\ vrfs[NameOf(a)] # 0
                      /\ link[a].master = NameOf(a)
                      /\ link[a].v6 = Fresh[a].v6
                      /\ OwnTable(a)
    BY DEF VrfHeld
  <2>1. Member(a)
    BY DEF VrfInv, VrfOK, Done
  <2>2. TablesApart
    BY DEF VrfInv
  <2> QED
    BY <2>1, <2>2 DEF Member, Enslaved, OwnTable, TablesApart
<1> QED
  BY <1>1, TypeCorrect, VrfInvariant, PTL

(* A VRF never stays without an attachment that will remove it (cmdDel of  *)
(* plugins/meta/vrf/main.go), also when an ADD or a DEL was cut off.       *)
THEOREM NoVrfIsLeft == VrfHypotheses => (Spec => []VrfGone)
<1> SUFFICES ASSUME VrfHypotheses PROVE Spec => []VrfGone
  OBVIOUS
<1>1. VrfInv => VrfGone
  BY DEF VrfInv, VrfGone, Kept
<1> QED
  BY <1>1, VrfInvariant, PTL

-----------------------------------------------------------------------------
(* The rules.                                                              *)

\* The fields of the calls, and what is left of them.
LEMMA RuleFields ==
  ASSUME NEW F, NEW t
  PROVE  /\ RuleCall(F, t).op = "rule" /\ RuleCall(F, t).fams = F /\ RuleCall(F, t).table = t
         /\ \A f : [RuleCall(F, t) EXCEPT !.fams = @ \ {f}] = RuleCall(F \ {f}, t)
BY DEF RuleCall

LEMMA DefaultFields ==
  ASSUME NEW f, NEW t
  PROVE  DefaultCall(f, t).op = "default" /\ DefaultCall(f, t).f = f /\ DefaultCall(f, t).table = t
BY DEF DefaultCall

LEMMA ListFields ==
  ASSUME NEW t
  PROVE  ListCall(t).op = "list routes" /\ ListCall(t).table = t
BY DEF ListCall

LEMMA DeleteFields ==
  ASSUME NEW R, NEW t
  PROVE  /\ DeleteCall(R, t).op = "delete" /\ DeleteCall(R, t).routes = R
         /\ DeleteCall(R, t).table = t
         /\ \A r : [DeleteCall(R, t) EXCEPT !.routes = @ \ {r}] = DeleteCall(R \ {r}, t)
BY DEF DeleteCall

LEMMA ReplaceFields ==
  ASSUME NEW r, NEW t
  PROVE  ReplaceCall(r, t).op = "replace" /\ ReplaceCall(r, t).r = r /\ ReplaceCall(r, t).table = t
BY DEF ReplaceCall

LEMMA TidyFields ==
  ASSUME NEW R
  PROVE  /\ TidyCall(R).op = "tidy" /\ TidyCall(R).rules = R
         /\ \A r : [TidyCall(R) EXCEPT !.rules = @ \ {r}] = TidyCall(R \ {r})
BY DEF TidyCall

LEMMA AbortFields == AbortCall.op = "abort" /\ Failed = <<AbortCall>>
BY DEF AbortCall, Failed

LEMMA Starts ==
  /\ Start # <<>> /\ Head(Start).op = "start"
BY DEF Start

LEMMA Concats ==
  ASSUME NEW k, NEW l, NEW m
  PROVE  /\ <<k>> \o <<>> = <<k>>
         /\ <<k>> \o <<l>> = <<k, l>>
         /\ <<k>> \o <<l, m>> = <<k, l, m>>
         /\ <<k, l>> \o <<>> = <<k, l>>
<1> DEFINE S == {k, l, m}
<1>1. <<k>> \in Seq(S) /\ <<l>> \in Seq(S) /\ <<k, l>> \in Seq(S) /\ <<l, m>> \in Seq(S)
      /\ <<k, l, m>> \in Seq(S)
  OBVIOUS
<1>2. <<k>> \o <<>> = <<k>> /\ <<k, l>> \o <<>> = <<k, l>>
  OBVIOUS
<1>3. <<k>> \o <<l>> = <<k, l>>
  <2>1. /\ <<k>> \o <<l>> \in Seq(S) /\ Len(<<k>> \o <<l>>) = 2
        /\ \A i \in 1 .. 2 : (<<k>> \o <<l>>)[i] = <<k, l>>[i]
    BY <1>1, ConcatProperties
  <2> QED
    BY <1>1, <2>1, SeqEqual
<1>4. <<k>> \o <<l, m>> = <<k, l, m>>
  <2>1. /\ <<k>> \o <<l, m>> \in Seq(S) /\ Len(<<k>> \o <<l, m>>) = 3
        /\ \A i \in 1 .. 3 : (<<k>> \o <<l, m>>)[i] = <<k, l, m>>[i]
    BY <1>1, ConcatProperties
  <2> QED
    BY <1>1, <2>1, SeqEqual
<1> QED
  BY <1>2, <1>3, <1>4

\* Two attachments have no rule in common.
LEMMA RulesApart ==
  ASSUME TypeInv, NEW a \in Att, NEW b \in Att \ {a}, NEW r, r.src[1] = ip[a], r.src[1] \in IPs
  PROVE  r \notin RulesOf(b)
<1>1. ip[a] # NoIP
  BY ChainAssumption
<1>2. ip[b] # ip[a]
  BY <1>1 DEF TypeInv, ChainInv, IpOK
<1> QED
  BY <1>2 DEF RulesOf

LEMMA RulesTyped ==
  ASSUME TypeInv, NEW r \in rules
  PROVE  r.src[1] \in IPs /\ r = [src |-> r.src, table |-> r.table] /\ r.table \in SbrTables
BY DEF TypeInv, Rules

LEMMA CleanInit == Init => CleanInv
<1> SUFFICES ASSUME Init PROVE CleanInv
  OBVIOUS
<1>1. rules = {}
  BY DEF Init, SbrInit
<1>2. ASSUME NEW a \in Att PROVE proc[a].cmd = "none"
  BY DEF Init, ChainInit, Quit
<1> QED
  BY <1>1, <1>2 DEF CleanInv, SbrClean, TidyOK, Running, Idle, Undone, RulesOf

\* A call of another plugin.
LEMMA CleanOther ==
  ASSUME TypeInv, CleanInv, NEW a \in Att, Steps(a), ~Running(a, "sbr"), rules' = rules
  PROVE  CleanInv'
<1>1. ip' = ip /\ \A b : RulesOf(b)' = RulesOf(b)
  BY DEF Steps, RulesOf
<1>2. /\ Plugins' = Plugins
      /\ \A b \in Att :
            /\ Running(b, "sbr")' => Running(b, "sbr") /\ proc'[b] = proc[b]
            /\ Undone(b, "sbr")' => Undone(b, "sbr")
            /\ told'[b] = "gone" <=> told[b] = "gone"
  BY OtherPlugin DEF TypeInv
<1>3. ASSUME NEW b \in Att PROVE TidyOK(b)'
  <2>1. Running(b, "sbr")' /\ proc'[b].cmd = "del" => SbrDeleting(b)'
    BY <1>1, <1>2 DEF CleanInv, TidyOK, SbrDeleting
  <2> QED
    BY <1>1, <1>2, <2>1 DEF CleanInv, TidyOK
<1>4. SbrClean'
  BY <1>1, <1>2 DEF CleanInv, SbrClean
<1> QED
  BY <1>2, <1>3, <1>4 DEF CleanInv

\* How a step of the runtime changes the addresses.
LEMMA RuntimeIps ==
  ASSUME TypeInv, CleanInv, NEW a \in Att, Runtime(a), rules' = rules
  PROVE  /\ \A b \in Att \ {a} : RulesOf(b)' = RulesOf(b)
         /\ ~BeginAdd(a) /\ ~EndDel(a) => ip'[a] = ip[a] /\ RulesOf(a)' = RulesOf(a)
         /\ BeginAdd(a) \/ EndDel(a) => RulesOf(a)' = {}
<1>1. \A b \in Att \ {a} : ip'[b] = ip[b]
  BY RuntimeFacts DEF TypeInv
<1>2. \A b \in Att \ {a} : RulesOf(b)' = RulesOf(b)
  BY <1>1 DEF RulesOf
<1>3. ASSUME ~BeginAdd(a), ~EndDel(a) PROVE ip'[a] = ip[a]
  BY <1>3 DEF Runtime, BeginDel, BeginCheck, NextPlugin, EndAdd, Killed
<1>4. ASSUME BeginAdd(a) PROVE RulesOf(a)' = {}
  <2>1. PICK i \in IPs \ {ip[b] : b \in Att} : ip' = [ip EXCEPT ![a] = i]
    BY <1>4 DEF BeginAdd
  <2>2. ip'[a] = i
    BY <2>1 DEF TypeInv, ChainInv
  <2>3. \A r \in rules : r.src[1] # i
    BY <2>1 DEF CleanInv, SbrClean
  <2> QED
    BY <2>2, <2>3 DEF RulesOf
<1>5. ASSUME EndDel(a) PROVE RulesOf(a)' = {}
  <2>1. ip'[a] = NoIP
    BY <1>5 DEF EndDel, TypeInv, ChainInv
  <2> QED
    BY <2>1, RulesTyped, ChainAssumption DEF RulesOf
<1> QED
  BY <1>2, <1>3, <1>4, <1>5 DEF RulesOf

\* A step of the runtime.
LEMMA CleanRuntime ==
  ASSUME TypeInv, CleanInv, NEW a \in Att, Runtime(a), rules' = rules
  PROVE  CleanInv'
<1>1. /\ Plugins' = Plugins
      /\ \A b \in Att \ {a} :
            /\ proc'[b] = proc[b] /\ told'[b] = told[b] /\ ip'[b] = ip[b]
            /\ Running(b, "sbr")' <=> Running(b, "sbr")
            /\ Undone(b, "sbr")' <=> Undone(b, "sbr")
      /\ Running(a, "sbr")' => proc'[a].todo = Start
      /\ Undone(a, "sbr")' => Undone(a, "sbr")
      /\ told'[a] = "gone" => EndDel(a) /\ ("sbr" \in Plugins => Undone(a, "sbr"))
  BY RuntimeFacts DEF TypeInv
<1>2. /\ \A b \in Att \ {a} : RulesOf(b)' = RulesOf(b)
      /\ ~BeginAdd(a) /\ ~EndDel(a) => ip'[a] = ip[a] /\ RulesOf(a)' = RulesOf(a)
      /\ BeginAdd(a) \/ EndDel(a) => RulesOf(a)' = {}
  BY RuntimeIps
<1>3. ASSUME NEW b \in Att \ {a} PROVE TidyOK(b)'
  <2>1. Running(b, "sbr")' /\ proc'[b].cmd = "del" => SbrDeleting(b)'
    BY <1>1, <1>2 DEF CleanInv, TidyOK, SbrDeleting
  <2> QED
    BY <1>1, <1>2, <2>1 DEF CleanInv, TidyOK
<1>4. TidyOK(a)'
  <2>1. Running(a, "sbr")' => SbrDeleting(a)'
    BY <1>1 DEF SbrDeleting
  <2>2. Undone(a, "sbr")' => RulesOf(a)' = {}
    BY <1>1, <1>2 DEF CleanInv, TidyOK
  <2> QED
    BY <2>1, <2>2 DEF TidyOK
<1>5. ASSUME NEW r \in rules PROVE \E b \in Att : told'[b] # "gone" /\ ip'[b] = r.src[1]
  <2>1. PICK b \in Att : told[b] # "gone" /\ ip[b] = r.src[1]
    BY DEF CleanInv, SbrClean
  <2>2. CASE b # a
    BY <1>1, <2>1, <2>2
  <2>3. CASE b = a
    <3>1. ~BeginAdd(a)
      BY <2>1, <2>3 DEF BeginAdd
    <3>2. ~EndDel(a)
      <4> SUFFICES ASSUME EndDel(a) PROVE FALSE
        OBVIOUS
      <4>1. told'[a] = "gone"
        BY DEF EndDel, TypeInv, ChainInv
      <4>2. "sbr" \in Plugins
        BY DEF CleanInv
      <4>3. RulesOf(a) = {}
        BY <1>1, <4>1, <4>2 DEF CleanInv, TidyOK
      <4> QED
        BY <2>1, <2>3, <4>3 DEF RulesOf
    <3> QED
      BY <1>1, <1>2, <2>1, <2>3, <3>1, <3>2
  <2> QED
    BY <2>2, <2>3
<1> QED
  BY <1>1, <1>3, <1>4, <1>5 DEF CleanInv, SbrClean

\* Where a DEL is.
LEMMA SbrDelAt ==
  ASSUME TypeInv, CleanInv, NEW a \in Att, At(a, "sbr", "tidy")
  PROVE  /\ proc[a].cmd = "del"
         /\ \E R \in SUBSET RulesOf(a) :
               /\ Call(a) = TidyCall(R)
               /\ \/ Rest(a) = <<>> /\ R = RulesOf(a)
                  \/ Rest(a) = <<AbortCall>>
<1>1. proc[a].cmd = "del" /\ Call(a).op = "tidy" /\ Running(a, "sbr") /\ proc[a].todo # <<>>
  BY SbrDelCall DEF SbrDelOps, At
<1>2. SbrDeleting(a)
  BY <1>1 DEF CleanInv, TidyOK
<1>3. proc[a].todo # Start /\ proc[a].todo # <<AbortCall>>
  BY <1>1, Starts, Heads, AbortFields DEF Call
<1>4. \/ proc[a].todo = <<TidyCall(RulesOf(a))>>
      \/ \E R \in SUBSET RulesOf(a) : proc[a].todo = <<TidyCall(R), AbortCall>>
  BY <1>1, <1>2, <1>3 DEF SbrDeleting
<1>5. CASE proc[a].todo = <<TidyCall(RulesOf(a))>>
  BY <1>1, <1>5, Heads DEF Call, Rest
<1>6. CASE \E R \in SUBSET RulesOf(a) : proc[a].todo = <<TidyCall(R), AbortCall>>
  BY <1>1, <1>6, Heads DEF Call, Rest
<1> QED
  BY <1>4, <1>5, <1>6

\* What the calls of sbr do to the rules.
LEMMA SbrRules ==
  ASSUME TypeInv, CleanInv, NEW a \in Att, Running(a, "sbr"), SbrStep(a)
  PROVE  /\ \A b \in Att \ {a} : RulesOf(b)' = RulesOf(b)
         /\ rules' \subseteq rules \cup RulesOf(a)'
         /\ Running(a, "sbr")' /\ proc[a].cmd = "del" => SbrDeleting(a)'
<1>1. ChainInv /\ Steps(a) /\ ip' = ip
  BY SbrSteps DEF TypeInv, Steps
<1>2. ASSUME rules' = rules, proc[a].cmd = "del" /\ Running(a, "sbr")' => SbrDeleting(a)'
      PROVE  /\ \A b \in Att \ {a} : RulesOf(b)' = RulesOf(b)
             /\ rules' \subseteq rules \cup RulesOf(a)'
             /\ Running(a, "sbr")' /\ proc[a].cmd = "del" => SbrDeleting(a)'
  BY <1>1, <1>2 DEF RulesOf
<1>3. CASE SbrStart(a)
  <2>1. rules' = rules
    BY <1>3 DEF SbrStart
  <2>2. ASSUME proc[a].cmd = "del", Running(a, "sbr")' PROVE SbrDeleting(a)'
    <3>1. SbrDel(a)
      BY <1>3, <2>2 DEF SbrStart, SbrAdd, SbrCheck
    <3>2. Do(a, <<[op |-> "tidy", rules |-> RulesOf(a)]>>)
      BY <1>1, <2>2, <3>1, ErrorFacts DEF SbrDel
    <3>3. Do(a, <<TidyCall(RulesOf(a))>>)
      BY <3>2 DEF TidyCall
    <3>4. proc'[a].todo = <<TidyCall(RulesOf(a))>>
      BY <1>1, <3>3, DoFacts
    <3>5. RulesOf(a)' = RulesOf(a)
      BY <1>1, <2>1 DEF RulesOf
    <3> QED
      BY <3>4, <3>5 DEF SbrDeleting
  <2> QED
    BY <1>2, <2>1, <2>2
<1>4. CASE AddRule(a)
  <2>1. proc[a].cmd = "add" /\ ip[a] \in IPs
    BY <1>4, SbrAddCall DEF AddRule, SbrAddOps
  <2>2. CASE rules' = rules
    BY <1>2, <2>1, <2>2
  <2>3. CASE rules' # rules
    <3>1. PICK f \in Call(a).fams :
             rules' = rules \cup {[src |-> <<ip[a], f>>, table |-> Call(a).table]}
      BY <1>4, <2>3 DEF AddRule
    <3> DEFINE r == [src |-> <<ip[a], f>>, table |-> Call(a).table]
    <3>2. r.src[1] = ip[a]
      OBVIOUS
    <3>3. rules' = rules \cup {r}
      BY <3>1
    <3> HIDE DEF r
    <3>4. ASSUME NEW b \in Att \ {a} PROVE RulesOf(b)' = RulesOf(b)
      <4>1. ip[b] # ip[a]
        BY <2>1, ChainAssumption DEF ChainInv, IpOK, TypeInv
      <4> QED
        BY <1>1, <3>2, <3>3, <4>1 DEF RulesOf
    <3> QED
      BY <1>1, <2>1, <3>2, <3>3, <3>4 DEF RulesOf
  <2> QED
    BY <2>2, <2>3
<1>5. CASE \/ AddDefault(a) \/ ListRoutes(a) \/ DeleteRoute(a) \/ ReplaceRoute(a)
  <2>1. proc[a].cmd = "add"
    BY <1>5, SbrAddCall DEF AddDefault, ListRoutes, DeleteRoute, ReplaceRoute, SbrAddOps
  <2>2. rules' = rules
    BY <1>5 DEF AddDefault, ListRoutes, DeleteRoute, ReplaceRoute
  <2> QED
    BY <1>2, <2>1, <2>2
<1>6. CASE SbrReturnsError(a) \/ SbrFails(a)
  <2>1. rules' = rules /\ ~Running(a, "sbr")'
    BY <1>1, <1>6, ErrorFacts, FaultFacts DEF SbrReturnsError, SbrFails
  <2> QED
    BY <1>2, <2>1
<1>7. CASE DeleteRuleOf(a)
  <2>1. proc[a].cmd = "del"
    BY <1>7, SbrDelAt DEF DeleteRuleOf
  <2>2. PICK R \in SUBSET RulesOf(a) :
           /\ Call(a) = TidyCall(R)
           /\ \/ Rest(a) = <<>> /\ R = RulesOf(a)
              \/ Rest(a) = <<AbortCall>>
    BY <1>7, SbrDelAt DEF DeleteRuleOf
  <2>3. Call(a).rules = R /\ \A r : [Call(a) EXCEPT !.rules = @ \ {r}] = TidyCall(R \ {r})
    BY <2>2, TidyFields
  <2>4. \/ R = {} /\ Do(a, Rest(a)) /\ rules' = rules
        \/ \E r \in R : rules' = rules \ {r} /\ Do(a, <<TidyCall(R \ {r})>> \o Rest(a))
        \/ \E r \in R : Fault(a, <<TidyCall(R \ {r})>> \o Failed) /\ rules' = rules
    BY <1>7, <2>3 DEF DeleteRuleOf
  <2>5. CASE R = {} /\ Do(a, Rest(a)) /\ rules' = rules
    <3>1. proc'[a].todo = Rest(a) /\ RulesOf(a)' = RulesOf(a)
      BY <1>1, <2>5, DoFacts DEF RulesOf
    <3>2. SbrDeleting(a)'
      BY <2>2, <2>5, <3>1 DEF SbrDeleting
    <3> QED
      BY <1>2, <2>5, <3>2
  <2>6. ASSUME NEW r \in R, rules' = rules \ {r}, Do(a, <<TidyCall(R \ {r})>> \o Rest(a))
        PROVE  /\ \A b \in Att \ {a} : RulesOf(b)' = RulesOf(b)
               /\ rules' \subseteq rules
               /\ SbrDeleting(a)'
    <3>1. proc'[a].todo = <<TidyCall(R \ {r})>> \o Rest(a)
      BY <1>1, <2>6, DoFacts
    <3>2. RulesOf(a)' = RulesOf(a) \ {r}
      BY <1>1, <2>6 DEF RulesOf
    <3>3. ASSUME NEW b \in Att \ {a} PROVE RulesOf(b)' = RulesOf(b)
      <4>1. r \in rules /\ r.src[1] = ip[a]
        BY <2>6 DEF RulesOf
      <4>2. r \notin RulesOf(b)
        BY <4>1, RulesTyped, RulesApart
      <4> QED
        BY <1>1, <2>6, <4>2 DEF RulesOf
    <3>4. CASE Rest(a) = <<>> /\ R = RulesOf(a)
      <4>1. proc'[a].todo = <<TidyCall(R \ {r})>>
        BY <3>1, <3>4, Concats
      <4> QED
        BY <2>6, <3>2, <3>3, <3>4, <4>1 DEF SbrDeleting
    <3>5. CASE Rest(a) = <<AbortCall>>
      <4>1. proc'[a].todo = <<TidyCall(R \ {r}), AbortCall>>
        BY <3>1, <3>5, Concats
      <4>2. R \ {r} \in SUBSET RulesOf(a)'
        BY <3>2
      <4>3. SbrDeleting(a)'
        BY <4>1, <4>2 DEF SbrDeleting
      <4> QED
        BY <2>6, <3>3, <4>3
    <3> QED
      BY <2>2, <3>4, <3>5
  <2>7. ASSUME NEW r \in R, Fault(a, <<TidyCall(R \ {r})>> \o Failed), rules' = rules
        PROVE  SbrDeleting(a)'
    <3>1. <<TidyCall(R \ {r})>> \o Failed = <<TidyCall(R \ {r}), AbortCall>>
      BY AbortFields, Concats
    <3>2. <<TidyCall(R \ {r}), AbortCall>> # Failed
      BY AbortFields, TidyFields, Heads
    <3>3. proc'[a].todo = <<TidyCall(R \ {r}), AbortCall>>
      BY <1>1, <2>7, <3>1, <3>2, FaultFacts
    <3>4. R \ {r} \in SUBSET RulesOf(a)'
      BY <1>1, <2>7 DEF RulesOf
    <3> QED
      BY <3>3, <3>4 DEF SbrDeleting
  <2> QED
    BY <1>2, <2>4, <2>5, <2>6, <2>7
<1> QED
  BY <1>3, <1>4, <1>5, <1>6, <1>7 DEF SbrStep

LEMMA CleanOwn ==
  ASSUME TypeInv, CleanInv, OnePerChain, NEW a \in Att, Running(a, "sbr"), SbrStep(a)
  PROVE  CleanInv'
<1>1. /\ Plugins' = Plugins /\ "sbr" \in Plugins
      /\ \A b \in Att \ {a} :
            /\ proc'[b] = proc[b] /\ told'[b] = told[b]
            /\ Running(b, "sbr")' <=> Running(b, "sbr")
            /\ Undone(b, "sbr")' <=> Undone(b, "sbr")
      /\ told'[a] # "gone"
      /\ Running(a, "sbr")' => /\ proc'[a].cmd = proc[a].cmd
                               /\ Undone(a, "sbr")' <=>
                                     (proc[a].cmd = "del" /\ proc'[a].todo = <<>>)
      /\ ~Running(a, "sbr")' => ~Undone(a, "sbr")'
  BY SbrSteps, OwnPlugin DEF TypeInv
<1>2. ip' = ip
  BY SbrSteps DEF Steps
<1>3. /\ \A b \in Att \ {a} : RulesOf(b)' = RulesOf(b)
      /\ rules' \subseteq rules \cup RulesOf(a)'
      /\ Running(a, "sbr")' /\ proc[a].cmd = "del" => SbrDeleting(a)'
  BY SbrRules
<1>4. ASSUME NEW b \in Att \ {a} PROVE TidyOK(b)'
  <2>1. Running(b, "sbr")' /\ proc'[b].cmd = "del" => SbrDeleting(b)'
    BY <1>1, <1>3 DEF CleanInv, TidyOK, SbrDeleting
  <2> QED
    BY <1>1, <1>3, <2>1 DEF CleanInv, TidyOK
<1>5. TidyOK(a)'
  <2>1. ASSUME Undone(a, "sbr")' PROVE RulesOf(a)' = {}
    <3>1. SbrDeleting(a)' /\ proc'[a].todo = <<>>
      BY <1>1, <1>3, <2>1
    <3> QED
      BY <3>1, Starts, Heads DEF SbrDeleting
  <2> QED
    BY <1>1, <1>3, <2>1 DEF TidyOK
<1>6. ASSUME NEW r \in rules' PROVE \E b \in Att : told'[b] # "gone" /\ ip'[b] = r.src[1]
  <2>1. CASE r \in rules
    BY <1>1, <1>2, <2>1 DEF CleanInv, SbrClean
  <2>2. CASE r \in RulesOf(a)'
    BY <1>1, <2>2 DEF RulesOf
  <2> QED
    BY <1>3, <2>1, <2>2
<1> QED
  BY <1>1, <1>4, <1>5, <1>6 DEF CleanInv, SbrClean

LEMMA CleanNext ==
  ASSUME TypeInv, CleanInv, OnePerChain, [Next]_vars
  PROVE  CleanInv'
<1>1. CASE UNCHANGED vars
  <2>1. UNCHANGED <<chain, proc, told, ip, rules>>
    BY <1>1 DEF vars, chainVars
  <2> QED
    BY <2>1 DEF CleanInv, SbrClean, TidyOK, SbrDeleting, RulesOf, Plugins, Undone, Ahead, Running, Idle
<1>2. ASSUME NEW a \in Att, RuntimeStep(a) PROVE CleanInv'
  BY <1>2, CleanRuntime DEF RuntimeStep
<1>3. ASSUME NEW a \in Att, Running(a, "tuning"), TuningStep(a), rules' = rules PROVE CleanInv'
  <2>1. ~Running(a, "sbr") /\ Steps(a)
    BY <1>3, TuningSteps DEF Running
  <2> QED
    BY <1>3, <2>1, CleanOther
<1>4. ASSUME NEW a \in Att, Running(a, "vrf"), VrfStep(a), rules' = rules PROVE CleanInv'
  <2>1. ~Running(a, "sbr") /\ Steps(a)
    BY <1>4, VrfSteps DEF Running
  <2> QED
    BY <1>4, <2>1, CleanOther
<1> QED
  BY <1>1, <1>2, <1>3, <1>4, CleanOwn DEF Next, PluginStep

LEMMA CleanInvariant ==
  ASSUME OnePerChain
  PROVE  Spec => []CleanInv
<1>1. TypeInv /\ CleanInv /\ [Next]_vars => CleanInv'
  BY CleanNext
<1> QED
  BY <1>1, CleanInit, TypeCorrect, PTL DEF Spec

(* No rule of sbr outlives the attachment whose address it names (cmdDel   *)
(* of plugins/meta/sbr/main.go), whichever calls failed before.            *)
THEOREM NoRuleIsLeft == OnePerChain => (Spec => []SbrClean)
<1> SUFFICES ASSUME OnePerChain PROVE Spec => []SbrClean
  OBVIOUS
<1>1. CleanInv => SbrClean
  BY DEF CleanInv
<1> QED
  BY <1>1, CleanInvariant, PTL

-----------------------------------------------------------------------------
(* The routes.                                                             *)

\* What sbr knows of an attachment depends on its rules and its routes.
LEMMA RouteView ==
  ASSUME NEW b \in Att, ip'[b] = ip[b], RulesOf(b)' = RulesOf(b),
         link'[b].routes = link[b].routes
  PROVE  /\ Untouched(b)' <=> Untouched(b)
         /\ Routed(b)' <=> Routed(b)
         /\ proc'[b] = proc[b] /\ rules' = rules /\ SbrAdding(b) => SbrAdding(b)'
<1>1. Untouched(b)' <=> Untouched(b)
  BY DEF Untouched
<1>r. \A f, t : RuleFor(b, f, t)' = RuleFor(b, f, t)
  BY DEF RuleFor
<1>2. \A f, t : Rooted(b, f, t)' <=> Rooted(b, f, t)
  BY <1>r DEF Rooted, Default
<1>3. \A t : /\ AllIn(b, t)' <=> AllIn(b, t)
             /\ AllRooted(b, t)' <=> AllRooted(b, t)
  BY <1>r, <1>2 DEF AllIn, AllRooted
<1>4. \A t, r : Moved(b, t, r)' <=> Moved(b, t, r)
  BY DEF Moved
<1>5. Routed(b)' <=> Routed(b)
  BY <1>3, <1>4 DEF Routed, RoutedBy
<1>6. Whole(b)' <=> Whole(b)
  BY DEF Whole
<1>7. ASSUME proc'[b] = proc[b], rules' = rules, SbrAdding(b) PROVE SbrAdding(b)'
  <2>1. \A t, F : AtRule(b, t, F) => AtRule(b, t, F)'
    BY <1>2, <1>6, <1>7 DEF AtRule
  <2>2. \A t, F, f : AtDefault(b, t, F, f) => AtDefault(b, t, F, f)'
    BY <1>2, <1>6, <1>7 DEF AtDefault, RuleFor
  <2>3. \A t : AtList(b, t) => AtList(b, t)'
    BY <1>3, <1>6, <1>7 DEF AtList
  <2>4. \A t, R : AtDelete(b, t, R) => AtDelete(b, t, R)'
    BY <1>3, <1>4, <1>7 DEF AtDelete
  <2>5. \A t, R, q : AtReplace(b, t, R, q) => AtReplace(b, t, R, q)'
    BY <1>3, <1>4, <1>7 DEF AtReplace
  <2>6. CASE proc[b].todo = Start /\ Untouched(b)
    BY <1>1, <1>7, <2>6 DEF SbrAdding
  <2>7. CASE proc[b].todo = <<>> /\ Routed(b)
    BY <1>5, <1>7, <2>7 DEF SbrAdding
  <2>8. ASSUME NEW t \in SbrTables, Mine(b, t), AddingBy(b, t) PROVE SbrAdding(b)'
    <3>1. AddingBy(b, t)'
      BY <2>1, <2>2, <2>3, <2>4, <2>5, <2>8 DEF AddingBy
    <3>2. Mine(b, t)'
      BY <1>3, <1>7, <2>8 DEF Mine
    <3> QED
      BY <3>1, <3>2 DEF SbrAdding
  <2> QED
    BY <1>7, <2>6, <2>7, <2>8 DEF SbrAdding
<1> QED
  BY <1>1, <1>5, <1>7

LEMMA RouteInit ==
  ASSUME Init
  PROVE  RouteInv
<1>1. ASSUME NEW a \in Att PROVE proc[a].cmd = "none" /\ told[a] = "gone"
  BY DEF Init, ChainInit, Quit
<1>2. rules = {}
  BY DEF Init, SbrInit
<1>3. ASSUME NEW a \in Att PROVE RouteOK(a)
  BY <1>1 DEF RouteOK, Running, Idle, Done, Ready, NotBegun
<1>4. OneLock
  BY <1>1 DEF OneLock, HasLock, Running, Idle
<1> QED
  BY <1>2, <1>3, <1>4 DEF RouteInv, RulesSplit, Leads, RulesOf

\* A call of another plugin.
LEMMA RouteOther ==
  ASSUME TypeInv, RouteInv, NEW a \in Att, Steps(a), ~Running(a, "sbr"), rules' = rules,
         SameLinks, \A b \in Att : SameSbr(b)
  PROVE  RouteInv'
<1>1. ip' = ip /\ \A b : RulesOf(b)' = RulesOf(b)
  BY DEF Steps, RulesOf
<1>2. \A b \in Att :
         /\ Running(b, "sbr")' => Running(b, "sbr") /\ proc'[b] = proc[b]
         /\ Done(b, "sbr")' => Done(b, "sbr")
         /\ NotBegun(b, "sbr")' => NotBegun(b, "sbr")
  BY OtherPlugin DEF TypeInv
<1>3. ASSUME NEW b \in Att PROVE Leads(b)'
  BY <1>1 DEF RouteInv, Leads, SameLinks, SameSbr
<1>5. OneLock' /\ RulesSplit'
  BY <1>2 DEF RouteInv, OneLock, HasLock, Call, RulesSplit
<1>4. ASSUME NEW b \in Att PROVE RouteOK(b)'
  <2>1. /\ Untouched(b)' <=> Untouched(b)
        /\ Routed(b)' <=> Routed(b)
        /\ proc'[b] = proc[b] /\ SbrAdding(b) => SbrAdding(b)'
    BY <1>1, RouteView DEF SameSbr
  <2>2. RouteOK(b)
    BY DEF RouteInv
  <2>3. Running(b, "sbr")' /\ proc'[b].cmd = "add" => SbrAdding(b)'
    BY <1>2, <2>1, <2>2 DEF RouteOK
  <2> QED
    BY <1>2, <2>1, <2>2, <2>3 DEF RouteOK
<1> QED
  BY <1>3, <1>4, <1>5 DEF RouteInv

\* A step of the runtime.
LEMMA RouteRuntime ==
  ASSUME TypeInv, CleanInv, RouteInv, NEW a \in Att, Runtime(a), rules' = rules,
         FreshEachTime("sbr")
  PROVE  RouteInv'
<1>0. ChainInv /\ ChainInv'
  BY ChainRuntime DEF TypeInv
<1>1. /\ chain' = chain /\ Plugins' = Plugins
      /\ \A b \in Att \ {a} :
            /\ proc'[b] = proc[b] /\ link'[b] = link[b] /\ ip'[b] = ip[b]
            /\ Running(b, "sbr")' <=> Running(b, "sbr")
            /\ Done(b, "sbr")' <=> Done(b, "sbr")
            /\ NotBegun(b, "sbr")' <=> NotBegun(b, "sbr")
      /\ Running(a, "sbr")' =>
            /\ proc'[a].todo = Start
            /\ proc'[a].cmd = "add" => BeginAdd(a) \/ NotBegun(a, "sbr")
      /\ Done(a, "sbr")' => Done(a, "sbr")
      /\ NotBegun(a, "sbr")' => BeginAdd(a) \/ NotBegun(a, "sbr")
  BY <1>0, RuntimeFacts
<1>2. /\ \A b \in Att \ {a} : RulesOf(b)' = RulesOf(b)
      /\ ~BeginAdd(a) /\ ~EndDel(a) => ip'[a] = ip[a] /\ RulesOf(a)' = RulesOf(a)
      /\ BeginAdd(a) \/ EndDel(a) => RulesOf(a)' = {}
  BY RuntimeIps
<1>3. \/ link'[a] = link[a] /\ ~BeginAdd(a)
      \/ BeginAdd(a) /\ link'[a] = IF link[a] = NoLink THEN Fresh[a] ELSE link[a]
      \/ EndDel(a) /\ link'[a] \in {link[a], NoLink}
  BY <1>0 DEF ChainInv, Runtime, BeginAdd, BeginDel, BeginCheck, NextPlugin, EndAdd, EndDel, Killed
<1>4. ASSUME NEW b \in Att PROVE Leads(b)'
  <2>1. Leads(b)
    BY DEF RouteInv
  <2>2. CASE RulesOf(b)' = {}
    BY <2>2 DEF Leads
  <2>3. CASE link'[b] = link[b] /\ RulesOf(b)' = RulesOf(b)
    BY <2>1, <2>3 DEF Leads
  <2> QED
    BY <1>1, <1>2, <1>3, <2>2, <2>3
<1>5. OneLock' /\ RulesSplit'
  <2>1. ~HasLock(a)'
    BY <1>1, Starts DEF HasLock, Call
  <2>2. \A b \in Att \ {a} : HasLock(b)' => HasLock(b)
    BY <1>1 DEF HasLock, Call
  <2> QED
    BY <2>1, <2>2 DEF RouteInv, OneLock, RulesSplit
<1>6. ASSUME NEW b \in Att \ {a} PROVE RouteOK(b)'
  <2>1. /\ Untouched(b)' <=> Untouched(b)
        /\ Routed(b)' <=> Routed(b)
        /\ proc'[b] = proc[b] /\ SbrAdding(b) => SbrAdding(b)'
    BY <1>1, <1>2, RouteView
  <2>2. RouteOK(b)
    BY DEF RouteInv
  <2>3. Running(b, "sbr")' /\ proc'[b].cmd = "add" => SbrAdding(b)'
    BY <1>1, <2>1, <2>2 DEF RouteOK
  <2> QED
    BY <1>1, <2>1, <2>2, <2>3 DEF RouteOK
<1>7. Running(a, "sbr")' \/ NotBegun(a, "sbr")' => "sbr" \in Plugins
  BY <1>0, <1>1 DEF Running, Idle, NotBegun, Ahead, Plugins, ChainInv, ProcOK
<1>8. ASSUME "sbr" \in Plugins, BeginAdd(a) PROVE Untouched(a)'
  <2>1. ~Stays(a)
    BY <1>0, <1>8 DEF ChainInv, FreshEachTime, Stays, Plugins
  <2>2. link[a] = NoLink
    BY <1>0, <1>8, <2>1 DEF ChainInv, LinkOK, BeginAdd
  <2>3. link'[a] = Fresh[a]
    BY <1>3, <1>8, <2>2 DEF BeginAdd, EndDel, Idle
  <2> QED
    BY <1>2, <1>8, <2>3 DEF Untouched
<1>9. EndDel(a) => ~Done(a, "sbr") /\ ~NotBegun(a, "sbr")
  <2> SUFFICES ASSUME EndDel(a) PROVE ~Done(a, "sbr") /\ ~NotBegun(a, "sbr")
    OBVIOUS
  <2>1. proc[a].cmd = "del"
    BY DEF EndDel
  <2>2. told[a] = "unknown"
    BY <1>0, <2>1 DEF ChainInv, ProcOK
  <2> QED
    BY <2>1, <2>2 DEF Done, Ready, NotBegun
<1>10. BeginAdd(a) => ~Done(a, "sbr") /\ ~NotBegun(a, "sbr")
  BY DEF BeginAdd, Idle, Done, Ready, NotBegun
<1>11. ASSUME ~BeginAdd(a), ~EndDel(a)
       PROVE  /\ Untouched(a)' <=> Untouched(a)
              /\ Routed(a)' <=> Routed(a)
  <2>1. link'[a] = link[a] /\ ip'[a] = ip[a] /\ RulesOf(a)' = RulesOf(a)
    BY <1>2, <1>3, <1>11
  <2> QED
    BY <2>1, RouteView
<1>12. ASSUME "sbr" \in Plugins, BeginAdd(a) \/ NotBegun(a, "sbr") PROVE Untouched(a)'
  <2>1. CASE BeginAdd(a)
    BY <1>8, <1>12, <2>1
  <2>2. CASE ~BeginAdd(a)
    BY <1>9, <1>11, <1>12, <2>2 DEF RouteInv, RouteOK
  <2> QED
    BY <2>1, <2>2
<1>13. Done(a, "sbr")' => Routed(a)'
  BY <1>1, <1>9, <1>10, <1>11 DEF RouteInv, RouteOK
<1>14. Running(a, "sbr")' /\ proc'[a].cmd = "add" => SbrAdding(a)'
  BY <1>1, <1>7, <1>12 DEF SbrAdding
<1>15. RouteOK(a)'
  BY <1>1, <1>7, <1>12, <1>13, <1>14 DEF RouteOK
<1> QED
  BY <1>4, <1>5, <1>6, <1>15 DEF RouteInv

\* The first call of an ADD, and those after it.
LEMMA AtRuleCalls ==
  ASSUME NEW a \in Att, NEW t, NEW F, AtRule(a, t, F)
  PROVE  /\ Call(a) = RuleCall(F, t) /\ Rest(a) = <<ListCall(t)>>
         /\ Call(a).op = "rule" /\ Call(a).fams = F /\ Call(a).table = t
         /\ \A f : [Call(a) EXCEPT !.fams = @ \ {f}] = RuleCall(F \ {f}, t)
<1>1. Call(a) = RuleCall(F, t) /\ Rest(a) = <<ListCall(t)>>
  BY Heads DEF AtRule, Call, Rest
<1>2. ASSUME NEW f PROVE [Call(a) EXCEPT !.fams = @ \ {f}] = RuleCall(F \ {f}, t)
  BY <1>1 DEF RuleCall
<1>3. Call(a).op = "rule" /\ Call(a).fams = F /\ Call(a).table = t
  BY <1>1, RuleFields
<1> QED
  BY <1>1, <1>2, <1>3

LEMMA AtDefaultCalls ==
  ASSUME NEW a \in Att, NEW t, NEW F, NEW f, AtDefault(a, t, F, f)
  PROVE  /\ Call(a) = DefaultCall(f, t) /\ Rest(a) = <<RuleCall(F, t), ListCall(t)>>
         /\ Call(a).op = "default" /\ Call(a).f = f /\ Call(a).table = t
<1>1. proc[a].todo = <<DefaultCall(f, t), RuleCall(F, t), ListCall(t)>>
  BY DEF AtDefault
<1> DEFINE k == DefaultCall(f, t)
           l == RuleCall(F, t)
           m == ListCall(t)
<1> HIDE DEF k, l, m
<1>2. Head(<<k, l, m>>) = k /\ Tail(<<k, l, m>>) = <<l, m>>
  BY Heads
<1>3. proc[a].todo = <<k, l, m>>
  BY <1>1 DEF k, l, m
<1>4. Call(a) = k /\ Rest(a) = <<l, m>>
  BY <1>2, <1>3 DEF Call, Rest
<1>5. Call(a) = DefaultCall(f, t) /\ Rest(a) = <<RuleCall(F, t), ListCall(t)>>
  BY <1>4 DEF k, l, m
<1> QED
  BY <1>5, DefaultFields

LEMMA AtListCalls ==
  ASSUME NEW a \in Att, NEW t, AtList(a, t)
  PROVE  Call(a) = ListCall(t) /\ Call(a).op = "list routes" /\ Call(a).table = t
<1>1. Call(a) = ListCall(t)
  BY Heads DEF AtList, Call
<1> QED
  BY <1>1, ListFields

LEMMA AtDeleteCalls ==
  ASSUME NEW a \in Att, NEW t, NEW R, AtDelete(a, t, R)
  PROVE  /\ Call(a) = DeleteCall(R, t) /\ Rest(a) = <<>>
         /\ Call(a).op = "delete" /\ Call(a).routes = R /\ Call(a).table = t
         /\ \A r : [Call(a) EXCEPT !.routes = @ \ {r}] = DeleteCall(R \ {r}, t)
<1>1. Call(a) = DeleteCall(R, t) /\ Rest(a) = <<>>
  BY Heads DEF AtDelete, Call, Rest
<1>2. ASSUME NEW r PROVE [Call(a) EXCEPT !.routes = @ \ {r}] = DeleteCall(R \ {r}, t)
  <2>1. [DeleteCall(R, t) EXCEPT !.routes = @ \ {r}] = DeleteCall(R \ {r}, t)
    BY DEF DeleteCall
  <2> QED
    BY <1>1, <2>1, Zenon
<1>3. Call(a).op = "delete" /\ Call(a).routes = R /\ Call(a).table = t
  BY <1>1, DeleteFields
<1> QED
  BY <1>1, <1>2, <1>3

LEMMA AtReplaceCalls ==
  ASSUME NEW a \in Att, NEW t, NEW R, NEW q, AtReplace(a, t, R, q)
  PROVE  /\ Call(a) = ReplaceCall(q, t) /\ Rest(a) = <<DeleteCall(R, t)>>
         /\ Call(a).op = "replace" /\ Call(a).r = q /\ Call(a).table = t
<1>1. Call(a) = ReplaceCall(q, t) /\ Rest(a) = <<DeleteCall(R, t)>>
  BY Heads DEF AtReplace, Call, Rest
<1> QED
  BY <1>1, ReplaceFields

\* Where an ADD is.
LEMMA SbrAddAt ==
  ASSUME NEW a \in Att, SbrAdding(a), proc[a].todo # <<>>, Call(a).op # "start"
  PROVE  \E t \in SbrTables :
            /\ Mine(a, t)
            /\ \/ Call(a).op = "rule" /\ \E F \in SUBSET getIPCfgs(a) : AtRule(a, t, F)
               \/ Call(a).op = "default" /\ \E F \in SUBSET getIPCfgs(a) :
                                    \E f \in getIPCfgs(a) : AtDefault(a, t, F, f)
               \/ Call(a).op = "list routes" /\ AtList(a, t)
               \/ Call(a).op = "delete" /\ \E R \in SUBSET Fresh[a].routes : AtDelete(a, t, R)
               \/ Call(a).op = "replace" /\ \E R \in SUBSET Fresh[a].routes :
                                    \E q \in Fresh[a].routes : AtReplace(a, t, R, q)
<1>1. proc[a].todo # <<>> /\ proc[a].todo # Start
  BY Starts DEF Call
<1>2. PICK t \in SbrTables : Mine(a, t) /\ AddingBy(a, t)
  BY <1>1 DEF SbrAdding
<1>3. \A F : AtRule(a, t, F) => Call(a).op = "rule"
  BY AtRuleCalls
<1>4. \A F, f : AtDefault(a, t, F, f) => Call(a).op = "default"
  BY AtDefaultCalls
<1>5. AtList(a, t) => Call(a).op = "list routes"
  BY AtListCalls
<1>6. \A R : AtDelete(a, t, R) => Call(a).op = "delete"
  BY AtDeleteCalls
<1>7. \A R, q : AtReplace(a, t, R, q) => Call(a).op = "replace"
  BY AtReplaceCalls
<1> QED
  BY <1>2, <1>3, <1>4, <1>5, <1>6, <1>7 DEF AddingBy

\* Before the first call and after the last one.
LEMMA SbrStartAt ==
  ASSUME NEW a \in Att, SbrAdding(a)
  PROVE  /\ At(a, "sbr", "start") => proc[a].todo = Start /\ Untouched(a)
         /\ proc[a].todo = <<>> => Routed(a)
<1>1. ASSUME NEW t, AddingBy(a, t) PROVE proc[a].todo # <<>>
  BY <1>1, Heads DEF AddingBy, AtRule, AtDefault, AtList, AtDelete, AtReplace
<1>2. ASSUME NEW t, AddingBy(a, t) PROVE Call(a).op # "start"
  <2>1. \A F : AtRule(a, t, F) => Call(a).op = "rule"
    BY AtRuleCalls
  <2>2. \A F, f : AtDefault(a, t, F, f) => Call(a).op = "default"
    BY AtDefaultCalls
  <2>3. AtList(a, t) => Call(a).op = "list routes"
    BY AtListCalls
  <2>4. \A R : AtDelete(a, t, R) => Call(a).op = "delete"
    BY AtDeleteCalls
  <2>5. \A R, q : AtReplace(a, t, R, q) => Call(a).op = "replace"
    BY AtReplaceCalls
  <2> QED
    BY <1>2, <2>1, <2>2, <2>3, <2>4, <2>5 DEF AddingBy
<1>3. CASE \E t \in SbrTables : Mine(a, t) /\ AddingBy(a, t)
  BY <1>1, <1>2, <1>3 DEF At, Call
<1>4. CASE proc[a].todo = Start /\ Untouched(a)
  BY <1>4, Starts
<1>5. CASE proc[a].todo = <<>> /\ Routed(a)
  BY <1>5 DEF At
<1> QED
  BY <1>3, <1>4, <1>5 DEF SbrAdding

\* The interface of an ADD, and the tables.
LEMMA SbrLink ==
  ASSUME TypeInv, NEW a \in Att, proc[a].cmd = "add"
  PROVE  /\ link[a] # NoLink /\ link[a] \in Links
         /\ link[a].routes \in SUBSET Routes
         /\ \A t \in SbrTables : t # Main
<1>1. link[a] # NoLink /\ link[a] \in Links
  BY DEF TypeInv, ChainInv, LinkOK
<1> QED
  BY <1>1, SbrAssumption DEF Links

\* Routed and an address of its own make a rule.
LEMMA RoutedHasRule ==
  ASSUME Routable, NEW b \in Att, Routed(b)
  PROVE  RulesOf(b) # {}
<1>1. PICK f : f \in getIPCfgs(b)
  BY DEF Routable
<1> QED
  BY <1>1 DEF Routed, RoutedBy, AllRooted, Rooted

\* What happens to b when a has the lock: it keeps its routes, or it has no rule
\* and keeps those of the main table.
Spared(b) ==
    \/ link'[b].routes = link[b].routes
    \/ /\ RulesOf(b) = {}
       /\ link'[b].routes \subseteq link[b].routes
       /\ \A q \in link[b].routes : q[1] = Main => q \in link'[b].routes

LEMMA SparedKeeps ==
  ASSUME Routable, NEW b \in Att, Spared(b), SameLinks, ip'[b] = ip[b], RulesOf(b)' = RulesOf(b)
  PROVE  /\ Untouched(b) => Untouched(b)'
         /\ Routed(b) => Routed(b)'
         /\ Leads(b) => Leads(b)'
<1>1. CASE link'[b].routes = link[b].routes
  <2>1. Leads(b) => Leads(b)'
    BY <1>1 DEF Leads, SameLinks
  <2> QED
    BY <1>1, <2>1, RouteView
<1>2. CASE /\ RulesOf(b) = {}
           /\ link'[b].routes \subseteq link[b].routes
           /\ \A q \in link[b].routes : q[1] = Main => q \in link'[b].routes
  <2>1. ~Routed(b) /\ Leads(b)'
    BY <1>2, RoutedHasRule DEF Leads
  <2>2. ASSUME Untouched(b) PROVE link'[b].routes = link[b].routes
    BY <1>2, <2>2 DEF Untouched, Routable
  <2> QED
    BY <1>2, <2>1, <2>2 DEF Untouched
<1> QED
  BY <1>1, <1>2 DEF Spared

\* The lock is taken when it is free.
LEMMA LockOwn ==
  ASSUME TypeInv, RouteInv, OnePerChain, NEW a \in Att, Running(a, "sbr"), SbrStep(a)
  PROVE  /\ OneLock'
         /\ \/ SbrStart(a) /\ UNCHANGED <<link, rules>>
            \/ HasLock(a)
<1>1. \A b \in Att \ {a} : HasLock(b)' => HasLock(b)
  <2>1. \A b \in Att \ {a} : proc'[b] = proc[b] /\ (Running(b, "sbr")' <=> Running(b, "sbr"))
    BY SbrSteps, OwnPlugin DEF TypeInv
  <2> QED
    BY <2>1 DEF HasLock, Call
<1>2. CASE SbrStart(a)
  <2>1. CASE Locked(a)
    <3>1. SbrCheck(a)
      BY <1>2, <2>1 DEF SbrStart, SbrAdd, SbrDel
    <3>2. proc'[a].todo = <<>>
      BY <3>1, DoFacts, SbrSteps DEF SbrCheck, TypeInv
    <3>3. ~HasLock(a)'
      BY <3>2 DEF HasLock
    <3> QED
      BY <1>1, <1>2, <3>3 DEF RouteInv, OneLock, SbrStart
  <2>2. CASE ~Locked(a)
    BY <1>1, <1>2, <2>2 DEF RouteInv, OneLock, Locked, SbrStart
  <2> QED
    BY <2>1, <2>2
<1>3. CASE ~SbrStart(a)
  <2>1. \E op \in {"rule", "default", "list routes", "delete", "replace", "tidy", "abort"} :
           At(a, "sbr", op)
    BY <1>3 DEF SbrStep, AddRule, AddDefault, ListRoutes, DeleteRoute, ReplaceRoute,
                DeleteRuleOf, SbrReturnsError, SbrFails
  <2>2. HasLock(a)
    BY <2>1 DEF At, HasLock, Call
  <2> QED
    BY <1>1, <2>2 DEF RouteInv, OneLock
<1> QED
  BY <1>2, <1>3

\* A call of sbr, for everybody else.
LEMMA RouteOwn ==
  ASSUME TypeInv, CleanInv, RouteInv, OnePerChain, Routable,
         NEW a \in Att, Running(a, "sbr"), SbrStep(a),
         \A b \in Att \ {a} : Spared(b),
         RulesSplit', Leads(a)',
         Running(a, "sbr")' /\ proc[a].cmd = "add" => SbrAdding(a)',
         proc[a].cmd = "check" => link'[a].routes = link[a].routes /\ rules' = rules
  PROVE  RouteInv'
<1>1. /\ \A b \in Att \ {a} :
            /\ proc'[b] = proc[b]
            /\ Running(b, "sbr")' <=> Running(b, "sbr")
            /\ Done(b, "sbr")' <=> Done(b, "sbr")
            /\ NotBegun(b, "sbr")' <=> NotBegun(b, "sbr")
      /\ ~NotBegun(a, "sbr")'
      /\ Running(a, "sbr")' => /\ proc'[a].cmd = proc[a].cmd
                               /\ Done(a, "sbr")' <=>
                                     (Ready(a, "sbr") \/
                                        (proc[a].cmd = "add" /\ proc'[a].todo = <<>>))
      /\ ~Running(a, "sbr")' => ~Done(a, "sbr")'
  BY SbrSteps, OwnPlugin DEF TypeInv
<1>2. ip' = ip
  BY SbrSteps DEF Steps
<1>3. \A b \in Att \ {a} : RulesOf(b)' = RulesOf(b)
  BY SbrRules
<1>6. ASSUME NEW b \in Att \ {a}
      PROVE  /\ Untouched(b) => Untouched(b)'
             /\ Routed(b) => Routed(b)'
             /\ Leads(b)'
  BY <1>2, <1>3, SparedKeeps, SbrTouches DEF RouteInv
<1>7. ASSUME NEW b \in Att \ {a}, Running(b, "sbr"), SbrAdding(b) PROVE SbrAdding(b)'
  <2>1. CASE UNCHANGED <<link, rules>>
    BY <1>1, <1>2, <1>3, <1>7, <2>1, RouteView
  <2>2. CASE HasLock(a)
    <3>1. ~HasLock(b)
      BY <2>2 DEF RouteInv, OneLock
    <3>2. proc[b].todo = <<>> \/ At(b, "sbr", "start")
      BY <1>7, <3>1 DEF HasLock, At, Call
    <3>3. \/ proc[b].todo = Start /\ Untouched(b)
          \/ proc[b].todo = <<>> /\ Routed(b)
      BY <1>7, <3>2, SbrStartAt
    <3> QED
      BY <1>1, <1>6, <3>3 DEF SbrAdding
  <2> QED
    BY <2>1, <2>2, LockOwn
<1>4. ASSUME NEW b \in Att \ {a} PROVE RouteOK(b)'
  <2>1. RouteOK(b)
    BY DEF RouteInv
  <2>2. Running(b, "sbr")' /\ proc'[b].cmd = "add" => SbrAdding(b)'
    BY <1>1, <1>7, <2>1 DEF RouteOK
  <2> QED
    BY <1>1, <1>6, <2>1, <2>2 DEF RouteOK
<1>5. ASSUME Done(a, "sbr")' PROVE Routed(a)'
  <2>1. CASE Ready(a, "sbr")
    <3>1. proc[a].cmd = "check"
      BY <2>1 DEF Ready, TypeInv, ChainInv, ProcOK, Running, Idle
    <3>2. Routed(a)
      BY <2>1 DEF RouteInv, RouteOK, Done
    <3>3. RulesOf(a)' = RulesOf(a)
      BY <1>2, <3>1 DEF RulesOf
    <3> QED
      BY <1>2, <3>1, <3>2, <3>3, RouteView
  <2>2. CASE proc[a].cmd = "add" /\ proc'[a].todo = <<>>
    <3>1. SbrAdding(a)'
      BY <1>1, <1>5, <2>2
    <3>2. ASSUME NEW t, AddingBy(a, t)' PROVE proc'[a].todo # <<>>
      <4>1. \A F : AtRule(a, t, F)' => proc'[a].todo # <<>>
        BY Heads DEF AtRule
      <4>2. \A F, f : AtDefault(a, t, F, f)' => proc'[a].todo # <<>>
        BY Heads DEF AtDefault
      <4>3. AtList(a, t)' => proc'[a].todo # <<>>
        BY Heads DEF AtList
      <4>4. \A R : AtDelete(a, t, R)' => proc'[a].todo # <<>>
        BY Heads DEF AtDelete
      <4>5. \A R, q : AtReplace(a, t, R, q)' => proc'[a].todo # <<>>
        BY Heads DEF AtReplace
      <4> QED
        BY <3>2, <4>1, <4>2, <4>3, <4>4, <4>5 DEF AddingBy
    <3> QED
      BY <2>2, <3>1, <3>2, Starts DEF SbrAdding
  <2> QED
    BY <1>1, <1>5, <2>1, <2>2
<1>8. RouteOK(a)'
  BY <1>1, <1>5 DEF RouteOK
<1> QED
  BY <1>4, <1>6, <1>8, LockOwn DEF RouteInv

\* The table of an ADD stays its own, and its rules lead there.
LEMMA MineLeads ==
  ASSUME NEW a \in Att, NEW t, Mine(a, t)'
  PROVE  Leads(a)'
<1>1. \A r \in RulesOf(a)' : r.table = t
  BY DEF Mine, AllIn, RuleFor
<1> QED
  BY <1>1 DEF Mine, Leads

LEMMA MineKept ==
  ASSUME NEW a \in Att, NEW t, Mine(a, t), ip' = ip, rules' = rules,
         \A q \in link'[a].routes : q \in link[a].routes \/ q[1] = t
  PROVE  Mine(a, t)'
<1>1. RulesOf(a)' = RulesOf(a)
  BY DEF RulesOf
<1>2. \A f : RuleFor(a, f, t)' = RuleFor(a, f, t)
  BY DEF RuleFor
<1>3. AllIn(a, t)'
  BY <1>1, <1>2 DEF Mine, AllIn
<1> QED
  BY <1>1, <1>3 DEF Mine

\* The calls of sbr.
LEMMA RouteOwnStep ==
  ASSUME TypeInv, CleanInv, RouteInv, OnePerChain, Routable,
         NEW a \in Att, Running(a, "sbr"), SbrStep(a)
  PROVE  RouteInv'
<1>1. ChainInv /\ Steps(a) /\ ip' = ip /\ SameLinks
  BY SbrSteps, SbrTouches DEF TypeInv, Steps
<1>2. proc[a].cmd = "add" => SbrAdding(a)
  BY DEF RouteInv, RouteOK
<1>3. ASSUME link' = link, rules' \subseteq rules,
             Running(a, "sbr")' /\ proc[a].cmd = "add" => SbrAdding(a)',
             proc[a].cmd = "check" => rules' = rules
      PROVE  RouteInv'
  <2>1. RulesSplit'
    BY <1>3 DEF RouteInv, RulesSplit
  <2>2. Leads(a)
    BY DEF RouteInv
  <2>3. RulesOf(a)' \subseteq RulesOf(a)
    BY <1>1, <1>3 DEF RulesOf
  <2>4. Leads(a)'
    BY <1>3, <2>2, <2>3 DEF Leads
  <2>5. \A b \in Att \ {a} : Spared(b)
    BY <1>3 DEF Spared
  <2> QED
    BY <1>3, <2>1, <2>4, <2>5, RouteOwn
<1>4. ASSUME link' = link, rules' = rules, Error(a) \/ Fault(a, Failed) PROVE RouteInv'
  <2>1. ~Running(a, "sbr")'
    BY <1>1, <1>4, ErrorFacts, FaultFacts
  <2> QED
    BY <1>3, <1>4, <2>1
<1>13. ASSUME NEW t \in SbrTables, Mine(a, t), rules' = rules, proc[a].cmd = "add",
              \A q \in link'[a].routes : q \in link[a].routes \/ q[1] = t,
              AddingBy(a, t)', \A b \in Att \ {a} : Spared(b)
       PROVE  RouteInv'
  <2>1. Mine(a, t)'
    BY <1>1, <1>13, MineKept
  <2>2. Leads(a)'
    BY <2>1, MineLeads
  <2>3. RulesSplit'
    BY <1>13 DEF RouteInv, RulesSplit
  <2>4. SbrAdding(a)'
    BY <1>13, <2>1 DEF SbrAdding
  <2> QED
    BY <1>13, <2>2, <2>3, <2>4, RouteOwn
<1>5. CASE SbrStart(a)
  <2>1. link' = link /\ rules' = rules
    BY <1>5 DEF SbrStart
  <2>2. ASSUME Running(a, "sbr")', proc[a].cmd = "add" PROVE SbrAdding(a)'
    <3>0. PICK t : t = Min(FreeTables)
      OBVIOUS
    <3>1. SbrAdd(a) /\ At(a, "sbr", "start")
      BY <1>5, <2>2 DEF SbrStart, SbrDel, SbrCheck
    <3>2. ~Error(a)
      BY <1>1, <2>2, ErrorFacts
    <3>3. /\ FreeTables # {}
          /\ Do(a, <<[op |-> "rule", fams |-> getIPCfgs(a), table |-> t],
                     [op |-> "list routes", table |-> t]>>)
      BY <3>0, <3>1, <3>2 DEF SbrAdd
    <3>4. Do(a, <<RuleCall(getIPCfgs(a), t), ListCall(t)>>)
      BY <3>3 DEF RuleCall, ListCall
    <3>5. t \in SbrTables /\ \A r \in rules : r.table # t
      BY <3>0, <3>3, SbrTable
    <3>6. Untouched(a)
      BY <1>2, <2>2, <3>1, SbrStartAt
    <3>7. proc'[a].todo = <<RuleCall(getIPCfgs(a), t), ListCall(t)>>
      BY <1>1, <3>4, DoFacts
    <3>8. RulesOf(a)' = {} /\ link'[a].routes = Fresh[a].routes
      BY <1>1, <2>1, <3>6 DEF Untouched, RulesOf
    <3>9. \A r \in Fresh[a].routes : r[1] = Main
      BY DEF Routable
    <3>10. Whole(a)'
      <4>1. {r \in Fresh[a].routes : r[1] = Main} = Fresh[a].routes
        BY <3>9
      <4>2. {r \in link'[a].routes : r[1] = Main} = Fresh[a].routes
        BY <3>8, <4>1
      <4> QED
        BY <4>2 DEF Whole
    <3>11. Mine(a, t)'
      BY <2>1, <3>5, <3>8, <3>9 DEF Mine, AllIn
    <3>12. PICK F \in SUBSET getIPCfgs(a) : F = getIPCfgs(a)
      OBVIOUS
    <3>13. AtRule(a, t, F)'
      BY <3>7, <3>10, <3>12 DEF AtRule
    <3> QED
      BY <3>5, <3>11, <3>13 DEF SbrAdding, AddingBy
  <2> QED
    BY <1>3, <2>1, <2>2
<1>6. CASE AddRule(a)
  <2>1. proc[a].cmd = "add" /\ At(a, "sbr", "rule") /\ link' = link
    BY <1>6, SbrAddCall DEF AddRule, SbrAddOps
  <2>o. proc[a].todo # <<>> /\ Call(a).op = "rule"
    BY <2>1 DEF At, Call
  <2>a. PICK t \in SbrTables : Mine(a, t) /\ \E F \in SUBSET getIPCfgs(a) : AtRule(a, t, F)
    BY <1>2, <2>1, <2>o, SbrAddAt
  <2>b. PICK F \in SUBSET getIPCfgs(a) : AtRule(a, t, F)
    BY <2>a
  <2>2. Mine(a, t) /\ AtRule(a, t, F) /\ Rest(a) = <<ListCall(t)>>
    BY <2>a, <2>b, AtRuleCalls
  <2>3. /\ Call(a).fams = F /\ Call(a).table = t
        /\ \A f : [Call(a) EXCEPT !.fams = @ \ {f}] = RuleCall(F \ {f}, t)
    BY <2>b, AtRuleCalls
  <2>s. \A b \in Att \ {a} : Spared(b)
    BY <2>1 DEF Spared
  <2>4. CASE F = {} /\ Do(a, Rest(a)) /\ rules' = rules
    <3>1. proc'[a].todo = <<ListCall(t)>> /\ RulesOf(a)' = RulesOf(a)
      BY <1>1, <2>2, <2>4, DoFacts DEF RulesOf
    <3>2. AllRooted(a, t)'
      BY <1>1, <2>1, <2>2, <2>4, <3>1 DEF AllRooted, AtRule, Rooted, RuleFor, Default
    <3>3. Whole(a)'
      BY <2>1, <2>2 DEF AtRule, Whole
    <3>4. AtList(a, t)'
      BY <3>1, <3>2, <3>3 DEF AtList
    <3>5. AddingBy(a, t)'
      BY <3>4 DEF AddingBy
    <3> QED
      BY <1>13, <2>1, <2>2, <2>4, <2>s, <3>5
  <2>5. ASSUME NEW f \in F, rules' = rules \cup {[src |-> <<ip[a], f>>, table |-> t]},
               Do(a, IF Gateway[a]
                     THEN <<[op |-> "default", f |-> f, table |-> t]>>
                             \o (<<RuleCall(F \ {f}, t)>> \o Rest(a))
                     ELSE <<RuleCall(F \ {f}, t)>> \o Rest(a))
        PROVE  RouteInv'
    <3>1. <<RuleCall(F \ {f}, t)>> \o Rest(a) = <<RuleCall(F \ {f}, t), ListCall(t)>>
      BY <2>2, Concats
    <3>2. <<DefaultCall(f, t)>> \o (<<RuleCall(F \ {f}, t)>> \o Rest(a))
             = <<DefaultCall(f, t), RuleCall(F \ {f}, t), ListCall(t)>>
      BY <3>1, Concats
    <3>4. rules' = rules \cup {RuleFor(a, f, t)}
      BY <2>5 DEF RuleFor
    <3>5. RuleFor(a, f, t).src[1] = ip[a] /\ RuleFor(a, f, t).table = t
      BY DEF RuleFor
    <3>6. RulesOf(a)' = RulesOf(a) \cup {RuleFor(a, f, t)}
      BY <1>1, <3>4, <3>5 DEF RulesOf
    <3>8. \A g : RuleFor(a, g, t)' = RuleFor(a, g, t)
      BY <1>1 DEF RuleFor
    <3>9. \A g : Rooted(a, g, t) => Rooted(a, g, t)'
      BY <2>1, <3>6, <3>8 DEF Rooted, Default
    <3>10. Whole(a)'
      BY <2>1, <2>2 DEF AtRule, Whole
    <3>12. F \ {f} \in SUBSET getIPCfgs(a) /\ f \in getIPCfgs(a)
      BY <2>5
    <3>7. AllIn(a, t)'
      BY <2>2, <3>6, <3>8, <3>12 DEF AllIn, Mine
    <3>13. Mine(a, t)'
      BY <2>1, <2>2, <3>4, <3>6, <3>7 DEF Mine
    <3>14. Leads(a)'
      BY <3>13, MineLeads
    <3>15. RulesSplit'
      <4>1. \A s \in rules : s.table = t => s.src[1] = ip[a]
        BY <2>2 DEF Mine, RulesOf
      <4> QED
        BY <3>4, <3>5, <4>1 DEF RouteInv, RulesSplit
    <3>16. AddingBy(a, t)'
      <4>1. CASE Gateway[a]
        <5>1. proc'[a].todo = <<DefaultCall(f, t), RuleCall(F \ {f}, t), ListCall(t)>>
          BY <1>1, <2>5, <3>2, <4>1, DoFacts DEF DefaultCall
        <5>2. AtDefault(a, t, F \ {f}, f)'
          BY <2>2, <2>5, <3>6, <3>8, <3>9, <3>10, <5>1 DEF AtDefault, AtRule
        <5> QED
          BY <3>12, <5>2 DEF AddingBy
      <4>2. CASE ~Gateway[a]
        <5>1. proc'[a].todo = <<RuleCall(F \ {f}, t), ListCall(t)>>
          BY <1>1, <2>5, <3>1, <4>2, DoFacts
        <5>2. Rooted(a, f, t)'
          BY <3>6, <3>8, <4>2 DEF Rooted, Default
        <5>3. AtRule(a, t, F \ {f})'
          BY <2>2, <3>9, <3>10, <5>1, <5>2 DEF AtRule
        <5> QED
          BY <3>12, <5>3 DEF AddingBy
      <4> QED
        BY <4>1, <4>2
    <3>17. SbrAdding(a)'
      BY <3>13, <3>16 DEF SbrAdding
    <3> QED
      BY <2>1, <2>s, <3>14, <3>15, <3>17, RouteOwn
  <2>7. \/ F = {} /\ Do(a, Rest(a)) /\ rules' = rules
        \/ \E f \in F : /\ rules' = rules \cup {[src |-> <<ip[a], f>>, table |-> t]}
                        /\ Do(a, IF Gateway[a]
                                 THEN <<[op |-> "default", f |-> f, table |-> t]>>
                                         \o (<<RuleCall(F \ {f}, t)>> \o Rest(a))
                                 ELSE <<RuleCall(F \ {f}, t)>> \o Rest(a))
    BY <1>6, <2>3 DEF AddRule
  <2> QED
    BY <2>4, <2>5, <2>7
<1>7. CASE AddDefault(a)
  <2>1. proc[a].cmd = "add" /\ At(a, "sbr", "default") /\ rules' = rules
    BY <1>7, SbrAddCall DEF AddDefault, SbrAddOps
  <2>o. proc[a].todo # <<>> /\ Call(a).op = "default"
    BY <2>1 DEF At, Call
  <2>a. PICK t \in SbrTables :
           /\ Mine(a, t)
           /\ \E F \in SUBSET getIPCfgs(a) : \E f \in getIPCfgs(a) : AtDefault(a, t, F, f)
    BY <1>2, <2>1, <2>o, SbrAddAt
  <2>b. PICK F \in SUBSET getIPCfgs(a), f \in getIPCfgs(a) : AtDefault(a, t, F, f)
    BY <2>a
  <2>2. Mine(a, t) /\ AtDefault(a, t, F, f) /\ Rest(a) = <<RuleCall(F, t), ListCall(t)>>
    BY <2>a, <2>b, AtDefaultCalls
  <2>3. Call(a).f = f /\ Call(a).table = t
    BY <2>b, AtDefaultCalls
  <2>4. CASE HasDefault(t, f)
    BY <1>4, <1>7, <2>1, <2>3, <2>4 DEF AddDefault
  <2>5. CASE ~HasDefault(t, f)
    <3> DEFINE d == <<t, f, "default">>
               R == link[a].routes \cup {d}
    <3>1. link' = [link EXCEPT ![a].routes = R] /\ Do(a, Rest(a))
      BY <1>7, <2>3, <2>5 DEF AddDefault
    <3>2. f \in {4, 6}
      BY SbrAssumption DEF getIPCfgs
    <3>3. d \in Routes
      BY <3>2, RouteType, StringAssumption
    <3>4. R \in SUBSET Routes /\ link[a] # NoLink /\ t # Main
      BY <2>1, <3>3, SbrLink
    <3>5. d[1] = t
      OBVIOUS
    <3> HIDE DEF R
    <3>6. (\A b \in Att \ {a} : link'[b] = link[b]) /\ link'[a].routes = R
      BY <1>1, <3>1, <3>4, RoutesSet
    <3>8. proc'[a].todo = <<RuleCall(F, t), ListCall(t)>> /\ RulesOf(a)' = RulesOf(a)
      BY <1>1, <2>1, <2>2, <3>1, DoFacts DEF RulesOf
    <3> HIDE DEF d
    <3>9. link'[a].routes = link[a].routes \cup {d}
      BY <3>6 DEF R
    <3>10. Whole(a)'
      BY <2>2, <3>4, <3>5, <3>9 DEF Whole, AtDefault
    <3>11. \A g : Rooted(a, g, t) => Rooted(a, g, t)'
      BY <1>1, <3>8, <3>9 DEF Rooted, RuleFor, Default
    <3>12. Rooted(a, f, t)'
      BY <1>1, <2>2, <3>8, <3>9 DEF Rooted, RuleFor, AtDefault, Default, d
    <3>13. \A g \in getIPCfgs(a) \ F : Rooted(a, g, t)'
      BY <2>2, <3>11, <3>12 DEF AtDefault
    <3>14. AtRule(a, t, F)'
      BY <2>2, <3>8, <3>10, <3>13 DEF AtRule
    <3>15. AddingBy(a, t)'
      BY <3>14 DEF AddingBy
    <3>16. \A b \in Att \ {a} : Spared(b)
      BY <3>6 DEF Spared
    <3> QED
      BY <1>13, <2>1, <2>2, <3>5, <3>9, <3>15, <3>16
  <2> QED
    BY <2>4, <2>5
<1>8. CASE ListRoutes(a)
  <2>1. proc[a].cmd = "add" /\ At(a, "sbr", "list routes") /\ rules' = rules /\ link' = link
    BY <1>8, SbrAddCall DEF ListRoutes, SbrAddOps
  <2>o. proc[a].todo # <<>> /\ Call(a).op = "list routes"
    BY <2>1 DEF At, Call
  <2>2. PICK t \in SbrTables : Mine(a, t) /\ AtList(a, t)
    BY <1>2, <2>1, <2>o, SbrAddAt
  <2>3. Call(a).table = t
    BY <2>2, AtListCalls
  <2>4. {r \in link[a].routes : r[1] = Main} = Fresh[a].routes
    BY <2>2 DEF AtList, Whole
  <2>5. Do(a, <<[op |-> "delete", routes |-> Fresh[a].routes, table |-> t]>>)
    BY <1>8, <2>3, <2>4 DEF ListRoutes
  <2>6. proc'[a].todo = <<DeleteCall(Fresh[a].routes, t)>> /\ RulesOf(a)' = RulesOf(a)
    BY <1>1, <2>1, <2>5, DoFacts DEF RulesOf, DeleteCall
  <2>7. AllRooted(a, t)'
    BY <1>1, <2>1, <2>2, <2>6 DEF AtList, AllRooted, Rooted, RuleFor, Default
  <2>8. AtDelete(a, t, Fresh[a].routes)'
    BY <2>6, <2>7 DEF AtDelete
  <2>9. \E R \in SUBSET Fresh[a].routes : AtDelete(a, t, R)'
    BY <2>8
  <2>10. AddingBy(a, t)'
    BY <2>9 DEF AddingBy
  <2>11. \A b \in Att \ {a} : Spared(b)
    BY <2>1 DEF Spared
  <2> QED
    BY <1>13, <2>1, <2>2, <2>10, <2>11
<1>9. CASE DeleteRoute(a)
  <2>1. proc[a].cmd = "add" /\ At(a, "sbr", "delete") /\ rules' = rules
    BY <1>9, SbrAddCall DEF DeleteRoute, SbrAddOps
  <2>o. proc[a].todo # <<>> /\ Call(a).op = "delete"
    BY <2>1 DEF At, Call
  <2>a. PICK t \in SbrTables :
           Mine(a, t) /\ \E R \in SUBSET Fresh[a].routes : AtDelete(a, t, R)
    BY <1>2, <2>1, <2>o, SbrAddAt
  <2>b. PICK R \in SUBSET Fresh[a].routes : AtDelete(a, t, R)
    BY <2>a
  <2>2. Mine(a, t) /\ AtDelete(a, t, R) /\ Rest(a) = <<>>
    BY <2>a, <2>b, AtDeleteCalls
  <2>3. /\ Call(a).routes = R /\ Call(a).table = t
        /\ \A r : [Call(a) EXCEPT !.routes = @ \ {r}] = DeleteCall(R \ {r}, t)
    BY <2>b, AtDeleteCalls
  <2>r. RulesOf(a)' = RulesOf(a)
    BY <1>1, <2>1 DEF RulesOf
  <2>4. CASE R = {} /\ Do(a, Rest(a)) /\ link' = link
    <3>1. proc'[a].todo = <<>>
      BY <1>1, <2>2, <2>4, DoFacts
    <3>2. AllRooted(a, t)'
      BY <1>1, <2>2, <2>4, <2>r DEF AtDelete, AllRooted, Rooted, RuleFor, Default
    <3>3. AllIn(a, t)'
      BY <1>1, <2>2, <2>r DEF Mine, AllIn, RuleFor
    <3>4. RoutedBy(a, t)'
      BY <2>2, <2>4, <3>2, <3>3 DEF RoutedBy, AtDelete, Moved
    <3>5. SbrAdding(a)'
      BY <3>1, <3>4 DEF SbrAdding, Routed
    <3> QED
      BY <1>3, <2>1, <2>4, <3>5
  <2>5. ASSUME NEW r \in R, link' = [link EXCEPT ![a].routes = @ \ {r}],
               Do(a, <<[op |-> "replace", r |-> r, table |-> t], DeleteCall(R \ {r}, t)>> \o Rest(a))
        PROVE  RouteInv'
    <3> DEFINE Q == link[a].routes \ {r}
    <3>1. Q \in SUBSET Routes /\ link[a] # NoLink /\ t # Main
      BY <2>1, SbrLink
    <3>2. link' = [link EXCEPT ![a].routes = Q]
      BY <2>5
    <3> HIDE DEF Q
    <3>q. (\A b \in Att \ {a} : link'[b] = link[b]) /\ link'[a].routes = Q
      BY <1>1, <3>1, <3>2, RoutesSet
    <3>3. (\A b \in Att \ {a} : link'[b] = link[b]) /\ link'[a].routes = link[a].routes \ {r}
      BY <3>q DEF Q
    <3>4. r \in Fresh[a].routes /\ r[1] = Main
      BY <2>5 DEF Routable
    <3>5. proc'[a].todo = <<ReplaceCall(r, t), DeleteCall(R \ {r}, t)>>
      <4>1. Do(a, <<ReplaceCall(r, t), DeleteCall(R \ {r}, t)>>)
        BY <2>2, <2>5, Concats DEF ReplaceCall
      <4> QED
        BY <1>1, <4>1, DoFacts
    <3>6. \A x, y : <<t, x, y>> # r
      <4>1. \A x, y : <<t, x, y>>[1] = t
        OBVIOUS
      <4> QED
        BY <3>1, <3>4, <4>1
    <3>7. AllRooted(a, t)'
      BY <1>1, <2>2, <2>r, <3>3, <3>6 DEF AtDelete, AllRooted, Rooted, RuleFor, Default
    <3>8. \A x : Moved(a, t, x) => Moved(a, t, x)'
      BY <3>3, <3>6 DEF Moved
    <3>9. AtReplace(a, t, R \ {r}, r)'
      BY <2>2, <3>5, <3>7, <3>8 DEF AtReplace, AtDelete
    <3>10. R \ {r} \in SUBSET Fresh[a].routes
      OBVIOUS
    <3>11. AddingBy(a, t)'
      BY <3>4, <3>9, <3>10 DEF AddingBy
    <3>12. \A b \in Att \ {a} : Spared(b)
      BY <3>3 DEF Spared
    <3> QED
      BY <1>13, <2>1, <2>2, <3>3, <3>11, <3>12
  <2>6. \/ R = {} /\ Do(a, Rest(a)) /\ link' = link
        \/ \E r \in R :
              /\ link' = [link EXCEPT ![a].routes = @ \ {r}]
              /\ Do(a, <<[op |-> "replace", r |-> r, table |-> t], DeleteCall(R \ {r}, t)>> \o Rest(a))
    BY <1>9, <2>3 DEF DeleteRoute
  <2> QED
    BY <2>4, <2>5, <2>6
<1>10. CASE ReplaceRoute(a)
  <2>1. proc[a].cmd = "add" /\ At(a, "sbr", "replace") /\ rules' = rules
    BY <1>10, SbrAddCall DEF ReplaceRoute, SbrAddOps
  <2>o. proc[a].todo # <<>> /\ Call(a).op = "replace"
    BY <2>1 DEF At, Call
  <2>a. PICK t \in SbrTables :
           /\ Mine(a, t)
           /\ \E R \in SUBSET Fresh[a].routes : \E q \in Fresh[a].routes : AtReplace(a, t, R, q)
    BY <1>2, <2>1, <2>o, SbrAddAt
  <2>b. PICK R \in SUBSET Fresh[a].routes, q \in Fresh[a].routes : AtReplace(a, t, R, q)
    BY <2>a
  <2>2. Mine(a, t) /\ AtReplace(a, t, R, q) /\ Rest(a) = <<DeleteCall(R, t)>>
    BY <2>a, <2>b, AtReplaceCalls
  <2>3. Call(a).r = q /\ Call(a).table = t
    BY <2>b, AtReplaceCalls
  <2> DEFINE new == <<t, q[2], q[3]>>
  <2>4. /\ link' = [b \in Att |->
                      IF b = a THEN [link[b] EXCEPT !.routes = @ \cup {new}]
                      ELSE IF link[b] = NoLink THEN NoLink
                      ELSE [link[b] EXCEPT !.routes = @ \ {new}]]
        /\ Do(a, Rest(a))
    BY <1>10, <2>3 DEF ReplaceRoute
  <2>5. q \in Routes
    BY FreshAssumption DEF Links
  <2>6. new \in Routes
    BY <2>5, SbrAssumption DEF Routes
  <2>7. link[a] # NoLink /\ t # Main
    BY <2>1, SbrLink
  <2>8. /\ link'[a].routes = link[a].routes \cup {new}
        /\ \A b \in Att \ {a} : link[b] # NoLink => link'[b].routes = link[b].routes \ {new}
    BY <2>4, <2>6, <2>7, ReplaceFacts
  <2>9. new[1] = t
    OBVIOUS
  <2> HIDE DEF new
  <2>13. ASSUME NEW b \in Att \ {a} PROVE Spared(b)
    <3>1. CASE link[b] = NoLink
      <4>1. link'[b] = NoLink
        BY <2>4, <3>1
      <4>2. link'[b] = link[b]
        BY <3>1, <4>1
      <4> QED
        BY <4>2 DEF Spared
    <3>2. CASE link[b] # NoLink /\ RulesOf(b) # {}
      <4>1. PICK r : r \in RulesOf(b)
        BY <3>2
      <4>2. Leads(b)
        BY DEF RouteInv
      <4>3. r \in rules /\ r \notin RulesOf(a)
        BY <2>13, <4>1, RulesApart, RulesTyped DEF RulesOf
      <4>4. r.table # t
        BY <2>2, <4>3 DEF Mine
      <4>5. new \notin link[b].routes
        BY <2>7, <2>9, <3>2, <4>1, <4>2, <4>4 DEF Leads
      <4> QED
        BY <2>8, <3>2, <4>5 DEF Spared
    <3>3. CASE link[b] # NoLink /\ RulesOf(b) = {}
      <4>1. link'[b].routes = link[b].routes \ {new}
        BY <2>8, <3>3
      <4>2. \A p \in link[b].routes : p[1] = Main => p \in link'[b].routes
        BY <2>7, <2>9, <4>1
      <4> QED
        BY <3>3, <4>1, <4>2 DEF Spared
    <3> QED
      BY <3>1, <3>2, <3>3
  <2>14. proc'[a].todo = <<DeleteCall(R, t)>> /\ RulesOf(a)' = RulesOf(a)
    BY <1>1, <2>1, <2>2, <2>4, DoFacts DEF RulesOf
  <2>15. AllRooted(a, t)'
    BY <1>1, <2>2, <2>8, <2>14 DEF AtReplace, AllRooted, Rooted, RuleFor, Default
  <2>16. Moved(a, t, q)' /\ \A x : Moved(a, t, x) => Moved(a, t, x)'
    BY <2>8 DEF Moved, new
  <2>17. AtDelete(a, t, R)'
    BY <2>2, <2>14, <2>15, <2>16 DEF AtDelete, AtReplace
  <2>18. AddingBy(a, t)'
    BY <2>17 DEF AddingBy
  <2> QED
    BY <1>13, <2>1, <2>2, <2>8, <2>9, <2>13, <2>18
<1>11. CASE DeleteRuleOf(a)
  <2>1. proc[a].cmd = "del" /\ link' = link
    BY <1>11, SbrDelAt DEF DeleteRuleOf
  <2>2. rules' \subseteq rules
    BY <1>11 DEF DeleteRuleOf
  <2> QED
    BY <1>3, <2>1, <2>2
<1>12. CASE SbrReturnsError(a) \/ SbrFails(a)
  BY <1>4, <1>12 DEF SbrReturnsError, SbrFails
<1> QED
  BY <1>5, <1>6, <1>7, <1>8, <1>9, <1>10, <1>11, <1>12 DEF SbrStep

LEMMA RouteNext ==
  ASSUME TypeInv, CleanInv, RouteInv, OnePerChain, FreshEachTime("sbr"), Routable, [Next]_vars
  PROVE  RouteInv'
<1>1. CASE UNCHANGED vars
  <2>1. UNCHANGED <<chain, proc, told, link, ip, rules>>
    BY <1>1 DEF vars, chainVars
  <2>2. ASSUME NEW a \in Att PROVE RouteOK(a)'
    <3>1. RulesOf(a)' = RulesOf(a)
      BY <2>1 DEF RulesOf
    <3>2. /\ Untouched(a)' <=> Untouched(a)
          /\ Routed(a)' <=> Routed(a)
          /\ SbrAdding(a) => SbrAdding(a)'
      BY <2>1, <3>1, RouteView
    <3>3. /\ Running(a, "sbr")' <=> Running(a, "sbr")
          /\ Done(a, "sbr")' <=> Done(a, "sbr")
          /\ NotBegun(a, "sbr")' <=> NotBegun(a, "sbr")
      BY <2>1 DEF Done, NotBegun, Behind, Ahead, Running, Idle, Ready
    <3> QED
      BY <2>1, <3>2, <3>3 DEF RouteInv, RouteOK
  <2>3. RulesSplit' /\ \A a \in Att : Leads(a)'
    BY <2>1 DEF RouteInv, RulesSplit, Leads, RulesOf
  <2>4. OneLock'
    BY <2>1 DEF RouteInv, OneLock, HasLock, Running, Idle, Call
  <2> QED
    BY <2>2, <2>3, <2>4 DEF RouteInv
<1>2. ASSUME NEW a \in Att, RuntimeStep(a) PROVE RouteInv'
  BY <1>2, RouteRuntime DEF RuntimeStep
<1>3. ASSUME NEW a \in Att, Running(a, "tuning"), TuningStep(a), rules' = rules PROVE RouteInv'
  <2>1. ~Running(a, "sbr") /\ Steps(a)
    BY <1>3, TuningSteps DEF Running
  <2>2. SameLinks /\ \A b \in Att : SameSbr(b)
    BY <1>3, TuningTouches
  <2> QED
    BY <1>3, <2>1, <2>2, RouteOther
<1>4. ASSUME NEW a \in Att, Running(a, "vrf"), VrfStep(a), rules' = rules PROVE RouteInv'
  <2>1. ~Running(a, "sbr") /\ Steps(a)
    BY <1>4, VrfSteps DEF Running
  <2>2. SameLinks /\ \A b \in Att : SameSbr(b)
    BY <1>4, VrfTouches
  <2> QED
    BY <1>4, <2>1, <2>2, RouteOther
<1> QED
  BY <1>1, <1>2, <1>3, <1>4, RouteOwnStep DEF Next, PluginStep

SbrHypotheses == OnePerChain /\ FreshEachTime("sbr") /\ Routable

(* The rules of a ready attachment lead to a table of its own, with all    *)
(* the routes of its interface, of families without an address too, and    *)
(* with a default route if it has a gateway (doRoutes of                   *)
(* plugins/meta/sbr/main.go), also next to tables that attachments left    *)
(* half done.  Without a gateway no route says that a table is taken:  the *)
(* rules do, which the lock of the namespace keeps until they are written. *)
THEOREM PacketsAreRouted == SbrHypotheses => (Spec => []SbrRouted)
<1> SUFFICES ASSUME OnePerChain, FreshEachTime("sbr"), Routable PROVE Spec => []SbrRouted
  BY DEF SbrHypotheses
<1>1. TypeInv /\ CleanInv /\ RouteInv /\ [Next]_vars => RouteInv'
  BY RouteNext
<1>2. Init => RouteInv
  BY RouteInit
<1>3. Spec => []RouteInv
  BY <1>1, <1>2, TypeCorrect, CleanInvariant, PTL DEF Spec
<1>4. TypeInv /\ RouteInv => SbrRouted
  <2> SUFFICES ASSUME TypeInv, RouteInv, NEW a \in Att, Ready(a, "sbr")
               PROVE  \E t \in SbrTables :
                  /\ RulesOf(a) = {[src |-> <<ip[a], f>>, table |-> t] : f \in getIPCfgs(a)}
                  /\ \A r \in Fresh[a].routes : <<t, r[2], r[3]>> \in link[a].routes
                  /\ Gateway[a] =>
                        \A f \in getIPCfgs(a) : <<t, f, "default">> \in link[a].routes
                  /\ \A b \in Att \ {a} :
                        RulesOf(b) # {} /\ link[b] # NoLink =>
                           \A q \in link[b].routes : q[1] # t
    BY DEF SbrRouted
  <2>0. Routed(a)
    BY DEF RouteInv, RouteOK, Done
  <2>1. PICK t \in SbrTables : RoutedBy(a, t)
    BY <2>0 DEF Routed
  <2>2. RulesOf(a) = {RuleFor(a, f, t) : f \in getIPCfgs(a)}
    BY <2>1 DEF RoutedBy, AllIn, AllRooted, Rooted
  <2>3. RulesOf(a) = {[src |-> <<ip[a], f>>, table |-> t] : f \in getIPCfgs(a)}
    BY <2>2 DEF RuleFor
  <2>4. \A r \in Fresh[a].routes : <<t, r[2], r[3]>> \in link[a].routes
    BY <2>1 DEF RoutedBy, Moved
  <2>5. Gateway[a] => \A f \in getIPCfgs(a) : <<t, f, "default">> \in link[a].routes
    BY <2>1 DEF RoutedBy, AllRooted, Rooted, Default
  <2>6. t # Main
    BY SbrAssumption
  <2>7. PICK s : s \in RulesOf(a)
    BY <2>0, RoutedHasRule
  <2>8. s \in rules /\ s.src[1] = ip[a] /\ s.table = t
    BY <2>1, <2>7 DEF RoutedBy, AllIn, RuleFor, RulesOf
  <2>9. ASSUME NEW b \in Att \ {a}, RulesOf(b) # {}, link[b] # NoLink, NEW q \in link[b].routes
        PROVE  q[1] # t
    <3>1. PICK r : r \in RulesOf(b)
      BY <2>9
    <3>2. r \in rules /\ r.src[1] = ip[b]
      BY <3>1 DEF RulesOf
    <3>3. r.src[1] # s.src[1]
      BY <2>7, <2>8, <2>9, <3>2, RulesTyped, RulesApart
    <3>4. r.table # t
      BY <2>8, <3>2, <3>3 DEF RouteInv, RulesSplit
    <3> QED
      BY <2>6, <2>9, <3>1, <3>4 DEF RouteInv, Leads
  <2> QED
    BY <2>3, <2>4, <2>5, <2>9
<1> QED
  BY <1>3, <1>4, TypeCorrect, PTL

-----------------------------------------------------------------------------
(* The attributes.                                                         *)

\* Which calls a sequence has.
LEMMA ConcatIndices ==
  ASSUME NEW S, NEW s \in Seq(S), NEW t \in Seq(S)
  PROVE  /\ Len(s) \in Nat /\ Len(t) \in Nat
         /\ DOMAIN s = 1 .. Len(s) /\ DOMAIN t = 1 .. Len(t)
         /\ DOMAIN (s \o t) = 1 .. (Len(s) + Len(t))
         /\ \A i \in 1 .. Len(s) : (s \o t)[i] = s[i]
         /\ \A i \in 1 .. Len(t) : (s \o t)[Len(s) + i] = t[i]
BY ConcatProperties, LenProperties

LEMMA HasConcat ==
  ASSUME NEW S, NEW s \in Seq(S), NEW t \in Seq(S), NEW ops
  PROVE  Has(s \o t, ops) <=> Has(s, ops) \/ Has(t, ops)
<1> DEFINE u == s \o t
<1>1. /\ Len(s) \in Nat /\ Len(t) \in Nat
      /\ DOMAIN s = 1 .. Len(s) /\ DOMAIN t = 1 .. Len(t)
      /\ DOMAIN u = 1 .. (Len(s) + Len(t))
      /\ \A i \in 1 .. Len(s) : u[i] = s[i]
      /\ \A i \in 1 .. Len(t) : u[Len(s) + i] = t[i]
  BY ConcatIndices
<1> HIDE DEF u
<1>2. ASSUME Has(s, ops) PROVE Has(u, ops)
  <2>1. PICK i \in 1 .. Len(s) : s[i].op \in ops
    BY <1>1, <1>2 DEF Has
  <2>2. i \in DOMAIN u /\ u[i].op \in ops
    BY <1>1, <2>1
  <2> QED
    BY <2>2 DEF Has
<1>3. ASSUME Has(t, ops) PROVE Has(u, ops)
  <2>1. PICK i \in 1 .. Len(t) : t[i].op \in ops
    BY <1>1, <1>3 DEF Has
  <2>2. Len(s) + i \in DOMAIN u /\ u[Len(s) + i].op \in ops
    BY <1>1, <2>1
  <2> QED
    BY <2>2 DEF Has
<1>4. ASSUME Has(u, ops) PROVE Has(s, ops) \/ Has(t, ops)
  <2>1. PICK i \in 1 .. (Len(s) + Len(t)) : u[i].op \in ops
    BY <1>1, <1>4 DEF Has
  <2>2. CASE i <= Len(s)
    <3>1. i \in DOMAIN s /\ s[i].op \in ops
      BY <1>1, <2>1, <2>2
    <3> QED
      BY <3>1 DEF Has
  <2>3. CASE i > Len(s)
    <3>1. i - Len(s) \in 1 .. Len(t) /\ Len(s) + (i - Len(s)) = i
      BY <1>1, <2>1, <2>3
    <3>2. t[i - Len(s)].op \in ops
      BY <1>1, <2>1, <3>1
    <3> QED
      BY <1>1, <3>1, <3>2 DEF Has
  <2> QED
    BY <1>1, <2>1, <2>2, <2>3
<1> QED
  BY <1>2, <1>3, <1>4 DEF u

LEMMA FitConcat ==
  ASSUME NEW S, NEW s \in Seq(S), NEW t \in Seq(S), NEW a
  PROVE  AllFit(a, s \o t) <=> AllFit(a, s) /\ AllFit(a, t)
<1> DEFINE u == s \o t
<1>1. /\ Len(s) \in Nat /\ Len(t) \in Nat
      /\ DOMAIN s = 1 .. Len(s) /\ DOMAIN t = 1 .. Len(t)
      /\ DOMAIN u = 1 .. (Len(s) + Len(t))
      /\ \A i \in 1 .. Len(s) : u[i] = s[i]
      /\ \A i \in 1 .. Len(t) : u[Len(s) + i] = t[i]
  BY ConcatIndices
<1> HIDE DEF u
<1>2. ASSUME AllFit(a, u) PROVE AllFit(a, s) /\ AllFit(a, t)
  <2>1. ASSUME NEW i \in 1 .. Len(s) PROVE Fits(a, s[i])
    <3>1. i \in DOMAIN u /\ u[i] = s[i]
      BY <1>1
    <3> QED
      BY <1>2, <3>1 DEF AllFit
  <2>2. ASSUME NEW i \in 1 .. Len(t) PROVE Fits(a, t[i])
    <3>1. Len(s) + i \in DOMAIN u /\ u[Len(s) + i] = t[i]
      BY <1>1
    <3>2. Fits(a, u[Len(s) + i])
      BY <1>2, <3>1 DEF AllFit
    <3> QED
      BY <3>1, <3>2
  <2> QED
    BY <1>1, <2>1, <2>2 DEF AllFit
<1>3. ASSUME AllFit(a, s), AllFit(a, t) PROVE AllFit(a, u)
  <2> SUFFICES ASSUME NEW i \in 1 .. (Len(s) + Len(t)) PROVE Fits(a, u[i])
    BY <1>1 DEF AllFit
  <2>2. CASE i <= Len(s)
    <3>1. i \in DOMAIN s /\ u[i] = s[i]
      BY <1>1, <2>2
    <3> QED
      BY <1>3, <3>1 DEF AllFit
  <2>3. CASE i > Len(s)
    <3>1. i - Len(s) \in 1 .. Len(t) /\ Len(s) + (i - Len(s)) = i
      BY <1>1, <2>3
    <3>2. u[i] = t[i - Len(s)] /\ i - Len(s) \in DOMAIN t
      BY <1>1, <3>1
    <3> QED
      BY <1>3, <3>2 DEF AllFit
  <2> QED
    BY <1>1, <2>2, <2>3
<1> QED
  BY <1>2, <1>3 DEF u

LEMMA SavesConcat ==
  ASSUME NEW S, NEW s \in Seq(S), NEW t \in Seq(S)
  PROVE  SavesFirst(s \o t) <=> /\ SavesFirst(s) /\ SavesFirst(t)
                                /\ ~(Has(s, Setting) /\ Has(t, Saving))
<1> DEFINE u == s \o t
<1>1. /\ Len(s) \in Nat /\ Len(t) \in Nat
      /\ DOMAIN s = 1 .. Len(s) /\ DOMAIN t = 1 .. Len(t)
      /\ DOMAIN u = 1 .. (Len(s) + Len(t))
      /\ \A i \in 1 .. Len(s) : u[i] = s[i]
      /\ \A i \in 1 .. Len(t) : u[Len(s) + i] = t[i]
  BY ConcatIndices
<1> HIDE DEF u
<1>2. ASSUME SavesFirst(u)
      PROVE  SavesFirst(s) /\ SavesFirst(t) /\ ~(Has(s, Setting) /\ Has(t, Saving))
  <2>1. ASSUME NEW i \in 1 .. Len(s), NEW j \in 1 .. Len(s), i < j, s[i].op \in Setting
        PROVE  s[j].op \notin Saving
    <3>1. i \in DOMAIN u /\ j \in DOMAIN u /\ u[i] = s[i] /\ u[j] = s[j]
      BY <1>1
    <3> QED
      BY <1>2, <2>1, <3>1 DEF SavesFirst
  <2>2. ASSUME NEW i \in 1 .. Len(t), NEW j \in 1 .. Len(t), i < j, t[i].op \in Setting
        PROVE  t[j].op \notin Saving
    <3>1. /\ Len(s) + i \in DOMAIN u /\ Len(s) + j \in DOMAIN u
          /\ u[Len(s) + i] = t[i] /\ u[Len(s) + j] = t[j] /\ Len(s) + i < Len(s) + j
      BY <1>1, <2>2
    <3>2. u[Len(s) + i].op \in Setting => u[Len(s) + j].op \notin Saving
      BY <1>2, <3>1 DEF SavesFirst
    <3> QED
      BY <2>2, <3>1, <3>2
  <2>3. ASSUME NEW i \in 1 .. Len(s), NEW j \in 1 .. Len(t), s[i].op \in Setting
        PROVE  t[j].op \notin Saving
    <3>1. /\ i \in DOMAIN u /\ Len(s) + j \in DOMAIN u
          /\ u[i] = s[i] /\ u[Len(s) + j] = t[j] /\ i < Len(s) + j
      BY <1>1
    <3>2. u[i].op \in Setting => u[Len(s) + j].op \notin Saving
      BY <1>2, <3>1 DEF SavesFirst
    <3> QED
      BY <2>3, <3>1, <3>2
  <2> QED
    BY <1>1, <2>1, <2>2, <2>3 DEF SavesFirst, Has
<1>3. ASSUME SavesFirst(s), SavesFirst(t), ~(Has(s, Setting) /\ Has(t, Saving))
      PROVE  SavesFirst(u)
  <2> SUFFICES ASSUME NEW i \in 1 .. (Len(s) + Len(t)), NEW j \in 1 .. (Len(s) + Len(t)),
                      i < j, u[i].op \in Setting
               PROVE  u[j].op \notin Saving
    BY <1>1 DEF SavesFirst
  <2>1. CASE j <= Len(s)
    <3>1. i \in DOMAIN s /\ j \in DOMAIN s /\ u[i] = s[i] /\ u[j] = s[j]
      BY <1>1, <2>1
    <3> QED
      BY <1>3, <3>1 DEF SavesFirst
  <2>2. CASE i > Len(s)
    <3>1. /\ i - Len(s) \in 1 .. Len(t) /\ Len(s) + (i - Len(s)) = i
          /\ j - Len(s) \in 1 .. Len(t) /\ Len(s) + (j - Len(s)) = j
          /\ i - Len(s) < j - Len(s)
      BY <1>1, <2>2
    <3>2. /\ u[i] = t[i - Len(s)] /\ i - Len(s) \in DOMAIN t
          /\ u[j] = t[j - Len(s)] /\ j - Len(s) \in DOMAIN t
      BY <1>1, <3>1
    <3>3. t[i - Len(s)].op \in Setting => t[j - Len(s)].op \notin Saving
      BY <1>3, <3>1, <3>2 DEF SavesFirst
    <3> QED
      BY <3>2, <3>3
  <2>3. CASE i <= Len(s) /\ j > Len(s)
    <3>1. j - Len(s) \in 1 .. Len(t) /\ Len(s) + (j - Len(s)) = j
      BY <1>1, <2>3
    <3>2. /\ i \in DOMAIN s /\ u[i] = s[i]
          /\ u[j] = t[j - Len(s)] /\ j - Len(s) \in DOMAIN t
      BY <1>1, <2>3, <3>1
    <3>3. Has(s, Setting)
      BY <3>2 DEF Has
    <3>4. ~Has(t, Saving)
      BY <1>3, <3>3
    <3> QED
      BY <3>2, <3>4 DEF Has
  <2> QED
    BY <1>1, <2>1, <2>2, <2>3
<1> QED
  BY <1>2, <1>3 DEF u

LEMMA NoCall ==
  /\ SavesFirst(<<>>) /\ (\A ops : ~Has(<<>>, ops)) /\ \A a : AllFit(a, <<>>)
BY DEF SavesFirst, Has, AllFit

LEMMA OneCall ==
  ASSUME NEW k
  PROVE  /\ SavesFirst(<<k>>)
         /\ \A ops : Has(<<k>>, ops) <=> k.op \in ops
         /\ \A a : AllFit(a, <<k>>) <=> Fits(a, k)
<1>1. DOMAIN <<k>> = {1} /\ <<k>>[1] = k
  OBVIOUS
<1> DEFINE s == <<k>>
<1>2. DOMAIN s = {1} /\ s[1] = k
  BY <1>1
<1> HIDE DEF s
<1>3. SavesFirst(s)
  BY <1>2 DEF SavesFirst
<1>4. \A ops : Has(s, ops) <=> k.op \in ops
  BY <1>2 DEF Has
<1>5. \A a : AllFit(a, s) <=> Fits(a, k)
  BY <1>2 DEF AllFit
<1> QED
  BY <1>3, <1>4, <1>5 DEF s

LEMMA OptionalCall ==
  ASSUME NEW k, NEW c \in BOOLEAN, NEW s, s = IF c THEN <<k>> ELSE <<>>
  PROVE  /\ SavesFirst(s)
         /\ \A ops : Has(s, ops) <=> c /\ k.op \in ops
         /\ \A a : AllFit(a, s) <=> (c => Fits(a, k))
<1>1. CASE c
  BY <1>1, OneCall
<1>2. CASE ~c
  BY <1>2, NoCall
<1> QED
  BY <1>1, <1>2

LEMMA FirstCall ==
  ASSUME NEW S, NEW s \in Seq(S), NEW k \in S
  PROVE  /\ \A ops : Has(<<k>> \o s, ops) <=> k.op \in ops \/ Has(s, ops)
         /\ \A a : AllFit(a, <<k>> \o s) <=> Fits(a, k) /\ AllFit(a, s)
         /\ SavesFirst(<<k>> \o s) <=> SavesFirst(s) /\ ~(k.op \in Setting /\ Has(s, Saving))
<1>1. <<k>> \in Seq(S)
  BY Short
<1> QED
  BY <1>1, HasConcat, FitConcat, SavesConcat, OneCall

LEMMA NextCall ==
  ASSUME NEW S, NEW s \in Seq(S), s # <<>>
  PROVE  /\ Head(s) \in S /\ Tail(s) \in Seq(S)
         /\ \A ops : Has(s, ops) <=> Head(s).op \in ops \/ Has(Tail(s), ops)
         /\ \A a : AllFit(a, s) <=> Fits(a, Head(s)) /\ AllFit(a, Tail(s))
         /\ SavesFirst(s) <=>
               SavesFirst(Tail(s)) /\ ~(Head(s).op \in Setting /\ Has(Tail(s), Saving))
<1>1. Head(s) \in S /\ Tail(s) \in Seq(S)
  BY HeadTail
<1>2. s = <<Head(s)>> \o Tail(s)
  BY HeadTailProperties, EmptySeq
<1> DEFINE k == Head(s)
           t == Tail(s)
<1>3. k \in S /\ t \in Seq(S) /\ s = <<k>> \o t
  BY <1>1, <1>2
<1> HIDE DEF k, t
<1>4. /\ \A ops : Has(s, ops) <=> k.op \in ops \/ Has(t, ops)
      /\ \A a : AllFit(a, s) <=> Fits(a, k) /\ AllFit(a, t)
      /\ SavesFirst(s) <=> SavesFirst(t) /\ ~(k.op \in Setting /\ Has(t, Saving))
  BY <1>3, FirstCall
<1> QED
  BY <1>1, <1>4 DEF k, t

\* The file of an attachment.
LEMMA SavedFields ==
  ASSUME NEW a \in Att
  PROVE  /\ Saved(a) \notin {NoBackup, Torn}
         /\ IF TuningConf[a].mac # "" THEN Saved(a).mac = Fresh[a].mac /\ Saved(a).mac # ""
            ELSE Saved(a).mac = ""
         /\ IF TuningConf[a].mtu # 0 THEN Saved(a).mtu = Fresh[a].mtu /\ Saved(a).mtu # 0
            ELSE Saved(a).mtu = 0
         /\ TuningConf[a].promisc => /\ Saved(a).promisc # "unset"
                                     /\ (Saved(a).promisc = "on") <=> Fresh[a].promisc
         /\ ~TuningConf[a].promisc => Saved(a).promisc = "unset"
<1>1. /\ Fresh[a].mac \in STRING /\ Fresh[a].mtu \in Nat /\ Fresh[a].promisc \in BOOLEAN
      /\ Fresh[a].mac # "" /\ Fresh[a].mtu # 0
  BY FreshAssumption DEF Links
<1> DEFINE m == IF TuningConf[a].mac # "" THEN Fresh[a].mac ELSE ""
           u == IF TuningConf[a].mtu # 0 THEN Fresh[a].mtu ELSE 0
           p == IF ~TuningConf[a].promisc THEN "unset"
                ELSE IF Fresh[a].promisc THEN "on" ELSE "off"
<1>2. Saved(a) = [mac |-> m, mtu |-> u, promisc |-> p]
  BY DEF Saved, ConfigToRestore
<1>3. m \in STRING /\ u \in Nat /\ p \in {"unset", "on", "off"}
  BY <1>1, StringAssumption
<1>4. /\ TuningConf[a].promisc => p # "unset" /\ ((p = "on") <=> Fresh[a].promisc)
      /\ ~TuningConf[a].promisc => p = "unset"
  OBVIOUS
<1>5. /\ IF TuningConf[a].mac # "" THEN m = Fresh[a].mac /\ m # "" ELSE m = ""
      /\ IF TuningConf[a].mtu # 0 THEN u = Fresh[a].mtu /\ u # 0 ELSE u = 0
  BY <1>1
<1> HIDE DEF m, u, p
<1>6. Saved(a) \in [mac : STRING, mtu : Nat, promisc : {"unset", "on", "off"}]
  BY <1>2, <1>3
<1>7. Saved(a) \notin {NoBackup, Torn}
  BY <1>6, TuningAssumption
<1>8. Saved(a).mac = m /\ Saved(a).mtu = u /\ Saved(a).promisc = p
  BY <1>2
<1> QED
  BY <1>4, <1>5, <1>7, <1>8

\* What tuning knows of an attachment depends on its interface and its file.
LEMMA TuningView ==
  ASSUME NEW b \in Att, SameTuning(b), backup'[b] = backup[b],
         link'[b] = NoLink <=> link[b] = NoLink
  PROVE  /\ Own(b)' <=> Own(b)
         /\ Recoverable(b)' <=> Recoverable(b)
         /\ proc'[b] = proc[b] /\ TuningAdding(b) => TuningAdding(b)'
         /\ proc'[b] = proc[b] /\ TuningDeleting(b) => TuningDeleting(b)'
<1>1. Own(b)' <=> Own(b)
  BY DEF Own, SameTuning
<1>2. Recoverable(b)' <=> Recoverable(b)
  BY <1>1 DEF Recoverable, SameTuning, Saved
<1>3. ASSUME proc'[b] = proc[b], TuningAdding(b) PROVE TuningAdding(b)'
  BY <1>1, <1>3 DEF TuningAdding, Saved, AllFit, Fits, Start
<1>4. ASSUME proc'[b] = proc[b], TuningDeleting(b) PROVE TuningDeleting(b)'
  <2>1. \A s : Restoring(b, s)' <=> Restoring(b, s)
    BY DEF Restoring, SameTuning
  <2> QED
    BY <1>4, <2>1 DEF TuningDeleting, Saved, AllFit, Fits, Start
<1> QED
  BY <1>1, <1>2, <1>3, <1>4

LEMMA TunedInit == Init => TuningInv
<1> SUFFICES ASSUME Init, NEW a \in Att PROVE TuningOK(a)
  BY DEF TuningInv
<1>1. /\ proc[a].cmd = "none" /\ told[a] = "gone" /\ link[a] \in {NoLink, Fresh[a]}
      /\ backup[a] = NoBackup
  BY DEF Init, ChainInit, TuningInit, Quit
<1>2. link[a] # NoLink => Own(a) /\ Recoverable(a)
  BY <1>1 DEF Own, Recoverable
<1> QED
  BY <1>1, <1>2 DEF TuningOK, TuningRuns, Running, Idle

\* A call of another plugin.
LEMMA TunedOther ==
  ASSUME TypeInv, TuningInv, NEW a \in Att, Steps(a), ~Running(a, "tuning"), backup' = backup,
         SameLinks, \A b \in Att : SameTuning(b)
  PROVE  TuningInv'
<1>1. /\ Plugins' = Plugins
      /\ \A b \in Att :
            /\ Running(b, "tuning")' => Running(b, "tuning") /\ proc'[b] = proc[b]
            /\ NotBegun(b, "tuning")' => NotBegun(b, "tuning")
            /\ Undone(b, "tuning")' => Undone(b, "tuning")
  BY OtherPlugin DEF TypeInv
<1>2. \A b \in Att : told'[b] = "gone" => told[b] = "gone"
  BY StepsFacts DEF TypeInv
<1>3. ASSUME NEW b \in Att PROVE TuningOK(b)'
  <2>1. /\ Own(b)' <=> Own(b)
        /\ Recoverable(b)' <=> Recoverable(b)
        /\ proc'[b] = proc[b] /\ TuningAdding(b) => TuningAdding(b)'
        /\ proc'[b] = proc[b] /\ TuningDeleting(b) => TuningDeleting(b)'
    BY TuningView DEF SameLinks
  <2>2. TuningOK(b)
    BY DEF TuningInv
  <2>3. TuningRuns(b)'
    BY <1>1, <2>1, <2>2 DEF TuningOK, TuningRuns
  <2>4. Saved(b)' = Saved(b) /\ (link'[b] = NoLink <=> link[b] = NoLink)
    BY DEF Saved, SameLinks
  <2> QED
    BY <1>1, <1>2, <2>1, <2>2, <2>3, <2>4 DEF TuningOK
<1> QED
  BY <1>3 DEF TuningInv

\* A step of the runtime.
LEMMA TunedRuntime ==
  ASSUME TypeInv, TuningInv, NEW a \in Att, Runtime(a), backup' = backup
  PROVE  TuningInv'
<1>0. ChainInv /\ ChainInv'
  BY ChainRuntime DEF TypeInv
<1>1. /\ Plugins' = Plugins
      /\ \A b \in Att \ {a} :
            /\ proc'[b] = proc[b] /\ told'[b] = told[b] /\ link'[b] = link[b]
            /\ Running(b, "tuning")' <=> Running(b, "tuning")
            /\ NotBegun(b, "tuning")' <=> NotBegun(b, "tuning")
            /\ Undone(b, "tuning")' <=> Undone(b, "tuning")
      /\ Running(a, "tuning")' =>
            /\ proc'[a].todo = Start
            /\ proc'[a].cmd \in {"add", "del", "check"}
            /\ proc'[a].cmd = "add" => BeginAdd(a) \/ NotBegun(a, "tuning")
      /\ NotBegun(a, "tuning")' => BeginAdd(a) \/ NotBegun(a, "tuning")
      /\ Undone(a, "tuning")' => Undone(a, "tuning")
      /\ told'[a] = "gone" => EndDel(a) /\ ("tuning" \in Plugins => Undone(a, "tuning"))
  BY <1>0, RuntimeFacts
<1>2. \A b : Saved(b)' = Saved(b)
  BY DEF Saved
<1>3. ASSUME NEW b \in Att \ {a} PROVE TuningOK(b)'
  <2>1. SameTuning(b) /\ link'[b] = link[b]
    BY <1>1 DEF SameTuning
  <2>2. /\ Own(b)' <=> Own(b)
        /\ Recoverable(b)' <=> Recoverable(b)
        /\ proc'[b] = proc[b] /\ TuningAdding(b) => TuningAdding(b)'
        /\ proc'[b] = proc[b] /\ TuningDeleting(b) => TuningDeleting(b)'
    BY <2>1, TuningView
  <2>3. TuningOK(b)
    BY DEF TuningInv
  <2>4. TuningRuns(b)'
    BY <1>1, <2>2, <2>3 DEF TuningOK, TuningRuns
  <2> QED
    BY <1>1, <1>2, <2>1, <2>2, <2>3, <2>4 DEF TuningOK
<1>4. link'[a] \in {link[a], Fresh[a], NoLink}
  BY <1>0 DEF ChainInv, Runtime, BeginAdd, BeginDel, BeginCheck, NextPlugin, EndAdd, EndDel, Killed
<1>5. TuningOK(a)
  BY DEF TuningInv
<1>6. CASE link'[a] = NoLink
  <2>1. proc'[a].cmd # "add"
    BY <1>0, <1>6 DEF ChainInv, LinkOK
  <2>2. TuningRuns(a)'
    BY <1>1, <2>1 DEF TuningRuns, TuningDeleting, Start
  <2>3. TuningOK(a)'
    BY <1>2, <1>5, <1>6, <2>2 DEF TuningOK
  <2> QED
    BY <1>3, <2>3 DEF TuningInv
<1>7. CASE link'[a] = Fresh[a]
  <2>1. Own(a)' /\ Recoverable(a)'
    BY <1>7 DEF Own, Recoverable
  <2>2. TuningRuns(a)'
    BY <1>1, <2>1 DEF TuningRuns, TuningDeleting, TuningAdding, Start
  <2>3. TuningOK(a)'
    BY <1>2, <1>5, <2>1, <2>2 DEF TuningOK
  <2> QED
    BY <1>3, <2>3 DEF TuningInv
<1>8. CASE link'[a] = link[a] /\ link[a] # NoLink
  <2>1. /\ Own(a)' <=> Own(a)
        /\ Recoverable(a)' <=> Recoverable(a)
    BY <1>8, TuningView DEF SameTuning
  <2>2. BeginAdd(a) => Own(a)
    BY <1>5, <1>8 DEF TuningOK, BeginAdd
  <2>3. BeginAdd(a) \/ NotBegun(a, "tuning") => Own(a)'
    BY <1>5, <1>8, <2>1, <2>2 DEF TuningOK
  <2>4. TuningRuns(a)'
    BY <1>1, <2>3 DEF TuningRuns, TuningDeleting, TuningAdding, Start
  <2>5. told'[a] = "gone" => Own(a)'
    BY <1>1, <1>5, <1>8, <2>1 DEF TuningOK
  <2>6. TuningOK(a)'
    BY <1>1, <1>2, <1>5, <1>8, <2>1, <2>3, <2>4, <2>5 DEF TuningOK
  <2> QED
    BY <1>3, <2>6 DEF TuningInv
<1> QED
  BY <1>4, <1>6, <1>7, <1>8

\* A call of tuning, for everybody else.
LEMMA TunedOwn ==
  ASSUME TypeInv, TuningInv, OnePerChain, NEW a \in Att, Running(a, "tuning"), TuningStep(a),
         backup'[a] \in {NoBackup, Torn, Saved(a)},
         link[a] # NoLink => Recoverable(a)',
         Running(a, "tuning")' /\ proc[a].cmd = "add" => TuningAdding(a)',
         Running(a, "tuning")' /\ proc[a].cmd = "del" => TuningDeleting(a)'
  PROVE  TuningInv'
<1>1. /\ Plugins' = Plugins /\ "tuning" \in Plugins
      /\ \A b \in Att \ {a} :
            /\ proc'[b] = proc[b] /\ told'[b] = told[b]
            /\ Running(b, "tuning")' <=> Running(b, "tuning")
            /\ NotBegun(b, "tuning")' <=> NotBegun(b, "tuning")
            /\ Undone(b, "tuning")' <=> Undone(b, "tuning")
      /\ told'[a] # "gone"
      /\ ~NotBegun(a, "tuning")'
      /\ Running(a, "tuning")' => /\ proc'[a].cmd = proc[a].cmd
                                  /\ Undone(a, "tuning")' <=>
                                        (proc[a].cmd = "del" /\ proc'[a].todo = <<>>)
      /\ ~Running(a, "tuning")' => ~Undone(a, "tuning")'
  BY TuningSteps, OwnPlugin DEF TypeInv
<1>2. /\ SameLinks
      /\ \A b \in Att \ {a} : SameTuning(b) /\ backup'[b] = backup[b]
  BY TuningTouches
<1>3. \A b : Saved(b)' = Saved(b)
  BY DEF Saved
<1>4. ASSUME NEW b \in Att \ {a} PROVE TuningOK(b)'
  <2>1. /\ Own(b)' <=> Own(b)
        /\ Recoverable(b)' <=> Recoverable(b)
        /\ proc'[b] = proc[b] /\ TuningAdding(b) => TuningAdding(b)'
        /\ proc'[b] = proc[b] /\ TuningDeleting(b) => TuningDeleting(b)'
    BY <1>2, TuningView DEF SameLinks
  <2>2. TuningOK(b)
    BY DEF TuningInv
  <2>3. TuningRuns(b)'
    BY <1>1, <2>1, <2>2 DEF TuningOK, TuningRuns
  <2>4. link'[b] = NoLink <=> link[b] = NoLink
    BY <1>2 DEF SameLinks
  <2> QED
    BY <1>1, <1>2, <1>3, <2>1, <2>2, <2>3, <2>4 DEF TuningOK
<1>5. TuningRuns(a)'
  BY <1>1 DEF TuningRuns
<1>6. link'[a] = NoLink <=> link[a] = NoLink
  BY <1>2 DEF SameLinks
<1>7. ASSUME Undone(a, "tuning")', link'[a] # NoLink PROVE Own(a)'
  <2>1. proc'[a].todo = <<>> /\ TuningDeleting(a)'
    BY <1>1, <1>7
  <2>2. Restoring(a, <<>>)'
    BY <1>7, <2>1, Starts DEF TuningDeleting, Start
  <2> QED
    BY <2>2, NoCall DEF Restoring, Own
<1>8. TuningOK(a)'
  BY <1>1, <1>3, <1>5, <1>6, <1>7 DEF TuningOK
<1> QED
  BY <1>4, <1>8 DEF TuningInv

\* Where an ADD is, and a DEL.
LEMMA TuningAddAt ==
  ASSUME TypeInv, NEW a \in Att, TuningAdding(a), NEW op \in TuningAddOps, At(a, "tuning", op)
  PROVE  /\ Call(a).op = op /\ Fits(a, Call(a))
         /\ Rest(a) \in Seq(TuningAddCalls) /\ AllFit(a, Rest(a)) /\ SavesFirst(Rest(a))
         /\ op \in Setting => ~Has(Rest(a), Saving)
         /\ op \in Saving \/ Has(Rest(a), Saving) => Own(a)
         /\ /\ op \in Setting \/ Has(Rest(a), Setting)
            /\ op \notin Saving /\ ~Has(Rest(a), Saving)
            => backup[a] = Saved(a)
<1> DEFINE s == proc[a].todo
<1>1. s # <<>> /\ Head(s).op = op /\ op # "start" /\ Running(a, "tuning")
  BY DEF At, TuningAddOps
<1>2. proc[a].cmd = "add"
  BY TuningAddCall
<1>3. s \in Seq(TuningAddCalls)
  BY <1>1, <1>2 DEF TypeInv, TuningTodo
<1>4. s # Start
  BY <1>1, Starts
<1>5. /\ AllFit(a, s) /\ SavesFirst(s)
      /\ Has(s, Saving) => Own(a)
      /\ Has(s, Setting) /\ ~Has(s, Saving) => backup[a] = Saved(a)
  BY <1>4 DEF TuningAdding
<1>6. Call(a) = Head(s) /\ Rest(a) = Tail(s)
  BY DEF Call, Rest
<1> HIDE DEF s
<1>7. /\ Tail(s) \in Seq(TuningAddCalls)
      /\ \A ops : Has(s, ops) <=> Head(s).op \in ops \/ Has(Tail(s), ops)
      /\ AllFit(a, s) <=> Fits(a, Head(s)) /\ AllFit(a, Tail(s))
      /\ SavesFirst(s) <=>
            SavesFirst(Tail(s)) /\ ~(Head(s).op \in Setting /\ Has(Tail(s), Saving))
  BY <1>1, <1>3, NextCall
<1> QED
  BY <1>1, <1>5, <1>6, <1>7

LEMMA TuningDelAt ==
  ASSUME TypeInv, NEW a \in Att, TuningDeleting(a), NEW op \in TuningDelOps, At(a, "tuning", op)
  PROVE  /\ Call(a).op = op /\ Fits(a, Call(a))
         /\ AllFit(a, Rest(a))
         /\ backup[a] = Saved(a)
         /\ link[a].mac = Fresh[a].mac \/ op = "restore mac" \/ Has(Rest(a), {"restore mac"})
         /\ link[a].mtu = Fresh[a].mtu \/ op = "restore mtu" \/ Has(Rest(a), {"restore mtu"})
         /\ link[a].promisc = Fresh[a].promisc \/ op = "restore promisc"
                                               \/ Has(Rest(a), {"restore promisc"})
<1> DEFINE s == proc[a].todo
<1>1. s # <<>> /\ Head(s).op = op /\ op # "start" /\ Running(a, "tuning")
  BY DEF At, TuningDelOps
<1>2. proc[a].cmd = "del" /\ link[a] # NoLink
  BY TuningDelCall
<1>3. s \in Seq(TuningDelCalls)
  BY <1>1, <1>2 DEF TypeInv, TuningTodo
<1>4. s # Start
  BY <1>1, Starts
<1>5. AllFit(a, s) /\ Restoring(a, s) /\ backup[a] = Saved(a)
  BY <1>1, <1>2, <1>4 DEF TuningDeleting
<1>6. Call(a) = Head(s) /\ Rest(a) = Tail(s)
  BY DEF Call, Rest
<1> HIDE DEF s
<1>7. /\ \A ops : Has(s, ops) <=> Head(s).op \in ops \/ Has(Tail(s), ops)
      /\ AllFit(a, s) <=> Fits(a, Head(s)) /\ AllFit(a, Tail(s))
  BY <1>1, <1>3, NextCall
<1>8. /\ Has(s, {"restore mac"}) => op = "restore mac" \/ Has(Rest(a), {"restore mac"})
      /\ Has(s, {"restore mtu"}) => op = "restore mtu" \/ Has(Rest(a), {"restore mtu"})
      /\ Has(s, {"restore promisc"}) => op = "restore promisc" \/ Has(Rest(a), {"restore promisc"})
  BY <1>1, <1>6, <1>7
<1> QED
  BY <1>1, <1>5, <1>6, <1>7, <1>8 DEF Restoring

\* The calls of an ADD.
LEMMA TuningAddStarts ==
  ASSUME NEW a \in Att, NEW s,
         s = LET conf == TuningConf[a]
                 call(wanted, op) == IF wanted THEN <<[op |-> op]>> ELSE <<>>
             IN  <<[op |-> "sysctl", keys |-> DOMAIN conf.sysctl]>>
                   \o call(ChangesLink(conf), "read attributes")
                   \o call(conf.mac # "", "set mac")
                   \o call(conf.promisc, "set promisc")
                   \o call(conf.mtu # 0, "set mtu")
  PROVE  AllFit(a, s) /\ SavesFirst(s) /\ (Has(s, Setting) => Has(s, Saving))
<1> DEFINE S == TuningAddCalls
           conf == TuningConf[a]
           k1 == [op |-> "sysctl", keys |-> DOMAIN conf.sysctl]
           k2 == [op |-> "read attributes"]
           k3 == [op |-> "set mac"]
           k4 == [op |-> "set promisc"]
           k5 == [op |-> "set mtu"]
           b2 == ChangesLink(conf)
           b3 == conf.mac # ""
           b4 == conf.promisc
           b5 == conf.mtu # 0
           c1 == <<k1>>
           c2 == IF b2 THEN <<k2>> ELSE <<>>
           c3 == IF b3 THEN <<k3>> ELSE <<>>
           c4 == IF b4 THEN <<k4>> ELSE <<>>
           c5 == IF b5 THEN <<k5>> ELSE <<>>
<1>1. s = (((c1 \o c2) \o c3) \o c4) \o c5
  OBVIOUS
<1>2. k1 \in S
  BY DEF TuningAddCalls, SysctlKeys
<1>3. k2 \in S /\ k3 \in S /\ k4 \in S /\ k5 \in S
  BY DEF TuningAddCalls
<1>4. /\ k1.op = "sysctl" /\ k2.op = "read attributes" /\ k3.op = "set mac"
      /\ k4.op = "set promisc" /\ k5.op = "set mtu"
  OBVIOUS
<1>5. b2 \in BOOLEAN /\ b3 \in BOOLEAN /\ b4 \in BOOLEAN /\ b5 \in BOOLEAN
  BY TuningAssumption DEF ChangesLink
<1>6. b2 <=> b3 \/ b4 \/ b5
  BY DEF ChangesLink
<1> HIDE DEF k1, k2, k3, k4, k5, S
<1>7. Fits(a, k1) /\ Fits(a, k2) /\ (b3 => Fits(a, k3)) /\ (b4 => Fits(a, k4)) /\ (b5 => Fits(a, k5))
  BY <1>4 DEF Fits
<1> HIDE DEF b2, b3, b4, b5
<1>8. c1 \in Seq(S) /\ c2 \in Seq(S) /\ c3 \in Seq(S) /\ c4 \in Seq(S) /\ c5 \in Seq(S)
  BY <1>2, <1>3, <1>5, Optional
<1>o. /\ k1.op \notin Setting /\ k1.op \notin Saving
      /\ k2.op \notin Setting /\ k2.op \in Saving
      /\ k3.op \in Setting /\ k3.op \notin Saving
      /\ k4.op \in Setting /\ k4.op \notin Saving
      /\ k5.op \in Setting /\ k5.op \notin Saving
  BY <1>4 DEF Setting, Saving
<1>9. SavesFirst(c1) /\ AllFit(a, c1) /\ ~Has(c1, Setting) /\ ~Has(c1, Saving)
  BY <1>7, <1>o, OneCall
<1>e. /\ c2 = IF b2 THEN <<k2>> ELSE <<>>
      /\ c3 = IF b3 THEN <<k3>> ELSE <<>>
      /\ c4 = IF b4 THEN <<k4>> ELSE <<>>
      /\ c5 = IF b5 THEN <<k5>> ELSE <<>>
  OBVIOUS
<1> HIDE DEF c1, c2, c3, c4, c5
<1>10. SavesFirst(c2) /\ AllFit(a, c2) /\ ~Has(c2, Setting) /\ (Has(c2, Saving) <=> b2)
  BY <1>5, <1>7, <1>o, <1>e, OptionalCall
<1>11. SavesFirst(c3) /\ AllFit(a, c3) /\ (Has(c3, Setting) <=> b3) /\ ~Has(c3, Saving)
  BY <1>5, <1>7, <1>o, <1>e, OptionalCall
<1>12. SavesFirst(c4) /\ AllFit(a, c4) /\ (Has(c4, Setting) <=> b4) /\ ~Has(c4, Saving)
  BY <1>5, <1>7, <1>o, <1>e, OptionalCall
<1>13. SavesFirst(c5) /\ AllFit(a, c5) /\ (Has(c5, Setting) <=> b5) /\ ~Has(c5, Saving)
  BY <1>5, <1>7, <1>o, <1>e, OptionalCall
<1> DEFINE d2 == c1 \o c2
           d3 == d2 \o c3
           d4 == d3 \o c4
           d5 == d4 \o c5
<1>14. /\ d2 \in Seq(S) /\ SavesFirst(d2) /\ AllFit(a, d2)
       /\ ~Has(d2, Setting) /\ (Has(d2, Saving) <=> b2)
  BY <1>8, <1>9, <1>10, ConcatProperties, HasConcat, FitConcat, SavesConcat
<1> HIDE DEF d2
<1>15. /\ d3 \in Seq(S) /\ SavesFirst(d3) /\ AllFit(a, d3)
       /\ (Has(d3, Setting) <=> b3) /\ (Has(d3, Saving) <=> b2)
  BY <1>8, <1>11, <1>14, ConcatProperties, HasConcat, FitConcat, SavesConcat
<1> HIDE DEF d3
<1>16. /\ d4 \in Seq(S) /\ SavesFirst(d4) /\ AllFit(a, d4)
       /\ (Has(d4, Setting) <=> b3 \/ b4) /\ (Has(d4, Saving) <=> b2)
  BY <1>8, <1>12, <1>15, ConcatProperties, HasConcat, FitConcat, SavesConcat
<1> HIDE DEF d4
<1>17. /\ SavesFirst(d5) /\ AllFit(a, d5)
       /\ (Has(d5, Setting) <=> b3 \/ b4 \/ b5) /\ (Has(d5, Saving) <=> b2)
  BY <1>8, <1>13, <1>16, ConcatProperties, HasConcat, FitConcat, SavesConcat
<1>18. s = d5
  BY <1>1 DEF d2, d3, d4, d5
<1> QED
  BY <1>6, <1>17, <1>18

\* The calls of a DEL.
LEMMA TuningDelStarts ==
  ASSUME NEW a \in Att, NEW s, backup[a] = Saved(a), Recoverable(a),
         s = LET call(wanted, op) == IF wanted THEN <<[op |-> op]>> ELSE <<>>
             IN  call(backup[a].mtu # 0, "restore mtu")
                   \o call(backup[a].mac # "", "restore mac")
                   \o call(backup[a].promisc # "unset", "restore promisc")
                   \o <<[op |-> "remove"]>>
  PROVE  AllFit(a, s) /\ Restoring(a, s)
<1> DEFINE S == TuningDelCalls
           k1 == [op |-> "restore mtu"]
           k2 == [op |-> "restore mac"]
           k3 == [op |-> "restore promisc"]
           k4 == [op |-> "remove"]
           b1 == backup[a].mtu # 0
           b2 == backup[a].mac # ""
           b3 == backup[a].promisc # "unset"
           c1 == IF b1 THEN <<k1>> ELSE <<>>
           c2 == IF b2 THEN <<k2>> ELSE <<>>
           c3 == IF b3 THEN <<k3>> ELSE <<>>
           c4 == <<k4>>
<1>1. s = ((c1 \o c2) \o c3) \o c4
  OBVIOUS
<1>2. k1 \in S /\ k2 \in S /\ k3 \in S /\ k4 \in S
  BY DEF TuningDelCalls
<1>3. /\ k1.op = "restore mtu" /\ k2.op = "restore mac" /\ k3.op = "restore promisc"
      /\ k4.op = "remove"
  OBVIOUS
<1>4. b1 \in BOOLEAN /\ b2 \in BOOLEAN /\ b3 \in BOOLEAN
  OBVIOUS
<1>5. /\ b1 <=> TuningConf[a].mtu # 0
      /\ b2 <=> TuningConf[a].mac # ""
      /\ b3 <=> TuningConf[a].promisc
  BY SavedFields
<1> HIDE DEF k1, k2, k3, k4, S
<1>6. (b1 => Fits(a, k1)) /\ (b2 => Fits(a, k2)) /\ (b3 => Fits(a, k3)) /\ Fits(a, k4)
  BY <1>3, <1>5 DEF Fits
<1>7. /\ link[a].mtu = Fresh[a].mtu \/ b1
      /\ link[a].mac = Fresh[a].mac \/ b2
      /\ link[a].promisc = Fresh[a].promisc \/ b3
  BY <1>5 DEF Recoverable
<1> HIDE DEF b1, b2, b3
<1>8. c1 \in Seq(S) /\ c2 \in Seq(S) /\ c3 \in Seq(S) /\ c4 \in Seq(S)
  BY <1>2, <1>4, Optional
<1>9. AllFit(a, c1) /\ (b1 => Has(c1, {"restore mtu"}))
  BY <1>3, <1>4, <1>6, OptionalCall
<1>10. AllFit(a, c2) /\ (b2 => Has(c2, {"restore mac"}))
  BY <1>3, <1>4, <1>6, OptionalCall
<1>11. AllFit(a, c3) /\ (b3 => Has(c3, {"restore promisc"}))
  BY <1>3, <1>4, <1>6, OptionalCall
<1>12. AllFit(a, c4)
  BY <1>6, OneCall
<1> HIDE DEF c1, c2, c3, c4
<1> DEFINE d2 == c1 \o c2
           d3 == d2 \o c3
           d4 == d3 \o c4
<1>13. /\ d2 \in Seq(S) /\ AllFit(a, d2)
       /\ (b1 => Has(d2, {"restore mtu"})) /\ (b2 => Has(d2, {"restore mac"}))
  BY <1>8, <1>9, <1>10, ConcatProperties, HasConcat, FitConcat
<1> HIDE DEF d2
<1>14. /\ d3 \in Seq(S) /\ AllFit(a, d3)
       /\ (b1 => Has(d3, {"restore mtu"})) /\ (b2 => Has(d3, {"restore mac"}))
       /\ (b3 => Has(d3, {"restore promisc"}))
  BY <1>8, <1>11, <1>13, ConcatProperties, HasConcat, FitConcat
<1> HIDE DEF d3
<1>15. /\ AllFit(a, d4)
       /\ (b1 => Has(d4, {"restore mtu"})) /\ (b2 => Has(d4, {"restore mac"}))
       /\ (b3 => Has(d4, {"restore promisc"}))
  BY <1>8, <1>12, <1>14, ConcatProperties, HasConcat, FitConcat
<1>16. s = d4
  BY <1>1 DEF d2, d3, d4
<1> QED
  BY <1>7, <1>15, <1>16 DEF Restoring

\* An ADD with these calls left is in order.
LEMMA TuningAddDoes ==
  ASSUME ChainInv, NEW a \in Att, NEW s, Do(a, s), AllFit(a, s), SavesFirst(s),
         Has(s, Saving) => Own(a)',
         Has(s, Setting) /\ ~Has(s, Saving) => backup'[a] = Saved(a)
  PROVE  TuningAdding(a)'
<1>1. proc'[a].todo = s
  BY DoFacts
<1>2. (AllFit(a, s))' <=> AllFit(a, s)
  BY DEF AllFit, Fits, Saved
<1> QED
  BY <1>1, <1>2 DEF TuningAdding, Saved

LEMMA TuningDelDoes ==
  ASSUME ChainInv, NEW a \in Att, NEW s, Do(a, s), AllFit(a, s), Restoring(a, s)',
         s # <<>> => backup'[a] = Saved(a)
  PROVE  TuningDeleting(a)'
<1>1. proc'[a].todo = s
  BY DoFacts
<1>2. (AllFit(a, s))' <=> AllFit(a, s)
  BY DEF AllFit, Fits, Saved
<1> QED
  BY <1>1, <1>2 DEF TuningDeleting, Saved

\* The calls of tuning.
LEMMA TunedOwnStep ==
  ASSUME TypeInv, TuningInv, OnePerChain, <<"tuning", "del">> \notin MayFail,
         NEW a \in Att, Running(a, "tuning"), TuningStep(a)
  PROVE  TuningInv'
<1>1. ChainInv /\ SameLinks
  BY TuningTouches DEF TypeInv
<1>2. /\ proc[a].cmd = "add" => TuningAdding(a)
      /\ proc[a].cmd = "del" => TuningDeleting(a)
      /\ link[a] # NoLink => Recoverable(a)
      /\ backup[a] \in {NoBackup, Torn, Saved(a)}
      /\ backup \in [Att -> Files \cup {NoBackup, Torn}]
  BY DEF TuningInv, TuningOK, TuningRuns, TypeInv
<1>3. ASSUME link' = link, backup' = backup,
             Running(a, "tuning")' /\ proc[a].cmd = "add" => TuningAdding(a)',
             Running(a, "tuning")' /\ proc[a].cmd = "del" => TuningDeleting(a)'
      PROVE  TuningInv'
  <2>1. Recoverable(a)' <=> Recoverable(a)
    BY <1>3, TuningView DEF SameTuning
  <2> QED
    BY <1>2, <1>3, <2>1, TunedOwn
<1>4. ASSUME link' = link, backup' = backup, Error(a) \/ Fault(a, Failed) PROVE TuningInv'
  <2>1. ~Running(a, "tuning")'
    BY <1>1, <1>4, ErrorFacts, FaultFacts
  <2> QED
    BY <1>3, <1>4, <2>1
<1>5. ASSUME link' = link PROVE Own(a)' <=> Own(a)
  BY <1>5 DEF Own
<1>6. CASE TuningStart(a)
  <2>1. link' = link /\ backup' = backup /\ At(a, "tuning", "start")
    BY <1>6 DEF TuningStart, tuningVars
  <2>2. CASE TuningAdd(a)
    <3>1. proc[a].cmd = "add"
      BY <2>2 DEF TuningAdd
    <3>2. Own(a)
      <4>1. proc[a].todo # <<>> /\ Head(proc[a].todo).op = "start"
        BY <2>1 DEF At
      <4>2. proc[a].todo \in Seq(TuningAddCalls)
        BY <3>1 DEF TypeInv, TuningTodo
      <4>3. ~Fits(a, Head(proc[a].todo))
        BY <4>1 DEF Fits
      <4>4. ~AllFit(a, proc[a].todo)
        BY <4>1, <4>2, <4>3, NextCall
      <4> QED
        BY <1>2, <3>1, <4>4 DEF TuningAdding
    <3>3. PICK s : s = LET conf == TuningConf[a]
                           call(wanted, op) == IF wanted THEN <<[op |-> op]>> ELSE <<>>
                       IN  <<[op |-> "sysctl", keys |-> DOMAIN conf.sysctl]>>
                             \o call(ChangesLink(conf), "read attributes")
                             \o call(conf.mac # "", "set mac")
                             \o call(conf.promisc, "set promisc")
                             \o call(conf.mtu # 0, "set mtu")
      OBVIOUS
    <3>4. Do(a, s)
      BY <2>2, <3>3 DEF TuningAdd
    <3>5. AllFit(a, s) /\ SavesFirst(s) /\ (Has(s, Setting) => Has(s, Saving))
      BY <3>3, TuningAddStarts
    <3>6. TuningAdding(a)'
      BY <1>1, <1>5, <2>1, <3>2, <3>4, <3>5, TuningAddDoes
    <3> QED
      BY <1>3, <2>1, <3>1, <3>6
  <2>3. CASE TuningDel(a)
    <3>1. proc[a].cmd = "del"
      BY <2>3 DEF TuningDel
    <3>2. CASE link[a] = NoLink
      BY <1>3, <2>1, <3>1, <3>2 DEF TuningDeleting
    <3>3. CASE link[a] # NoLink /\ backup[a] = Saved(a)
      <4>1. PICK s : s = LET call(wanted, op) == IF wanted THEN <<[op |-> op]>> ELSE <<>>
                         IN  call(backup[a].mtu # 0, "restore mtu")
                               \o call(backup[a].mac # "", "restore mac")
                               \o call(backup[a].promisc # "unset", "restore promisc")
                               \o <<[op |-> "remove"]>>
        OBVIOUS
      <4>2. backup[a] \notin {NoBackup, Torn}
        BY <3>3, SavedFields
      <4>3. Do(a, s)
        BY <2>3, <3>3, <4>1, <4>2 DEF TuningDel
      <4>4. AllFit(a, s) /\ Restoring(a, s)
        BY <1>2, <3>3, <4>1, TuningDelStarts
      <4>5. Restoring(a, s)'
        BY <2>1, <4>4 DEF Restoring
      <4>6. TuningDeleting(a)'
        BY <1>1, <2>1, <3>3, <4>3, <4>4, <4>5, TuningDelDoes
      <4> QED
        BY <1>3, <2>1, <3>1, <4>6
    <3>4. CASE link[a] # NoLink /\ backup[a] \in {NoBackup, Torn}
      <4>1. Do(a, <<>>)
        BY <2>3, <3>4 DEF TuningDel
      <4>2. Own(a)
        BY <1>2, <3>4, SavedFields DEF Recoverable
      <4>3. Restoring(a, <<>>)'
        BY <2>1, <4>2 DEF Own, Restoring
      <4>4. TuningDeleting(a)'
        BY <1>1, <4>1, <4>3, NoCall, TuningDelDoes
      <4> QED
        BY <1>3, <2>1, <3>1, <4>4
    <3> QED
      BY <1>2, <3>2, <3>3, <3>4
  <2>4. CASE TuningCheck(a)
    BY <1>3, <2>1, <2>4 DEF TuningCheck
  <2> QED
    BY <1>6, <2>2, <2>3, <2>4 DEF TuningStart
<1>7. CASE WriteSysctl(a)
  <2>1. link' = link /\ backup' = backup /\ At(a, "tuning", "sysctl")
    BY <1>7 DEF WriteSysctl
  <2>2. /\ proc[a].cmd = "add" /\ Call(a) \in TuningAddCalls /\ Rest(a) \in Seq(TuningAddCalls)
    BY <2>1, TuningAddCall DEF TuningAddOps
  <2>3. /\ Call(a).op = "sysctl" /\ AllFit(a, Rest(a)) /\ SavesFirst(Rest(a))
        /\ Has(Rest(a), Saving) => Own(a)
        /\ Has(Rest(a), Setting) /\ ~Has(Rest(a), Saving) => backup[a] = Saved(a)
    <3>1. "sysctl" \in TuningAddOps /\ "sysctl" \notin Saving /\ "sysctl" \notin Setting
      BY DEF TuningAddOps, Saving, Setting
    <3> QED
      BY <1>2, <2>1, <2>2, <3>1, TuningAddAt
  <2>4. CASE Error(a)
    BY <1>4, <2>1, <2>4
  <2>5. CASE Do(a, Rest(a))
    <3>1. TuningAdding(a)'
      BY <1>1, <1>5, <2>1, <2>3, <2>5, TuningAddDoes
    <3> QED
      BY <1>3, <2>1, <2>2, <3>1
  <2>6. ASSUME NEW key, Do(a, <<[Call(a) EXCEPT !.keys = @ \ {key}]>> \o Rest(a))
        PROVE  TuningInv'
    <3> DEFINE k == [Call(a) EXCEPT !.keys = @ \ {key}]
    <3>1. Call(a) \in [op : {"sysctl"}, keys : SUBSET SysctlKeys]
      BY <2>2, <2>3 DEF TuningAddCalls
    <3>2. k \in [op : {"sysctl"}, keys : SUBSET SysctlKeys]
      BY <3>1
    <3>3. k \in TuningAddCalls /\ k.op = "sysctl"
      BY <3>2 DEF TuningAddCalls
    <3>4. Do(a, <<k>> \o Rest(a))
      BY <2>6
    <3> HIDE DEF k
    <3>5. Fits(a, k) /\ k.op \notin Setting /\ k.op \notin Saving
      BY <3>3 DEF Fits, Setting, Saving
    <3> DEFINE s == <<k>> \o Rest(a)
    <3>6. /\ Has(s, Saving) <=> Has(Rest(a), Saving)
          /\ Has(s, Setting) <=> Has(Rest(a), Setting)
          /\ AllFit(a, s) /\ SavesFirst(s)
      BY <2>2, <2>3, <3>3, <3>5, FirstCall
    <3>7. Do(a, s)
      BY <3>4
    <3> HIDE DEF s
    <3>8. PICK t : t = s
      OBVIOUS
    <3>9. TuningAdding(a)'
      BY <1>1, <1>5, <2>1, <2>3, <3>6, <3>7, <3>8, TuningAddDoes
    <3> QED
      BY <1>3, <2>1, <2>2, <3>9
  <2> QED
    BY <1>7, <2>4, <2>5, <2>6 DEF WriteSysctl
<1>8. CASE ReadAttributes(a)
  <2>1. link' = link /\ backup' = backup /\ At(a, "tuning", "read attributes")
    BY <1>8 DEF ReadAttributes, tuningVars
  <2>2. proc[a].cmd = "add" /\ link[a] # NoLink /\ Rest(a) \in Seq(TuningAddCalls)
    BY <2>1, TuningAddCall DEF TuningAddOps
  <2>3. AllFit(a, Rest(a)) /\ SavesFirst(Rest(a)) /\ Own(a)
    <3>1. "read attributes" \in TuningAddOps /\ "read attributes" \in Saving
      BY DEF TuningAddOps, Saving
    <3> QED
      BY <1>2, <2>1, <2>2, <3>1, TuningAddAt
  <2>4. ConfigToRestore(TuningConf[a], link[a]) = Saved(a)
    BY <2>3 DEF Own, Saved, ConfigToRestore
  <2>5. PICK k : k = [op |-> "truncate", file |-> Saved(a)]
    OBVIOUS
  <2>6. Do(a, <<k>> \o Rest(a))
    BY <1>8, <2>2, <2>4, <2>5 DEF ReadAttributes
  <2>7. k \in TuningAddCalls
    <3>1. Saved(a) \in Files
      BY <2>2, <2>4, SavedType
    <3> QED
      BY <2>5, <3>1 DEF TuningAddCalls
  <2>8. k.op = "truncate" /\ k.file = Saved(a)
    BY <2>5
  <2>9. Fits(a, k) /\ k.op \notin Setting /\ k.op \in Saving
    BY <2>8 DEF Fits, Setting, Saving
  <2>10. PICK s : s = <<k>> \o Rest(a)
    OBVIOUS
  <2>11. Has(s, Saving) /\ AllFit(a, s) /\ SavesFirst(s)
    BY <2>2, <2>3, <2>7, <2>9, <2>10, FirstCall
  <2>12. TuningAdding(a)'
    BY <1>1, <1>5, <2>1, <2>3, <2>6, <2>10, <2>11, TuningAddDoes
  <2> QED
    BY <1>3, <2>1, <2>2, <2>12
<1>9. CASE TruncateBackup(a)
  <2>1. link' = link /\ backup' = [backup EXCEPT ![a] = Torn] /\ At(a, "tuning", "truncate")
    BY <1>9 DEF TruncateBackup
  <2>2. proc[a].cmd = "add" /\ Call(a) \in TuningAddCalls /\ Rest(a) \in Seq(TuningAddCalls)
    BY <2>1, TuningAddCall DEF TuningAddOps
  <2>3. /\ Call(a).op = "truncate" /\ Fits(a, Call(a))
        /\ AllFit(a, Rest(a)) /\ SavesFirst(Rest(a)) /\ Own(a)
    <3>1. "truncate" \in TuningAddOps /\ "truncate" \in Saving
      BY DEF TuningAddOps, Saving
    <3> QED
      BY <1>2, <2>1, <2>2, <3>1, TuningAddAt
  <2>4. PICK k : k = [Call(a) EXCEPT !.op = "write"]
    OBVIOUS
  <2>5. Call(a) \in [op : {"truncate", "write"}, file : Files]
    BY <2>2, <2>3 DEF TuningAddCalls
  <2>6. /\ k \in [op : {"truncate", "write"}, file : Files]
        /\ k.op = "write" /\ k.file = Call(a).file
    BY <2>4, <2>5
  <2>7. k \in TuningAddCalls
    BY <2>6 DEF TuningAddCalls
  <2>8. Call(a).file = Saved(a)
    BY <2>3 DEF Fits
  <2>9. Fits(a, k) /\ k.op \notin Setting /\ k.op \in Saving
    BY <2>6, <2>8 DEF Fits, Setting, Saving
  <2>10. PICK s : s = <<k>> \o Rest(a)
    OBVIOUS
  <2>11. Has(s, Saving) /\ AllFit(a, s) /\ SavesFirst(s)
    BY <2>2, <2>3, <2>7, <2>9, <2>10, FirstCall
  <2>12. Do(a, s)
    BY <1>9, <2>4, <2>10 DEF TruncateBackup
  <2>13. TuningAdding(a)'
    BY <1>1, <1>5, <2>1, <2>3, <2>11, <2>12, TuningAddDoes
  <2>14. Recoverable(a)' /\ backup'[a] = Torn
    BY <1>2, <1>5, <2>1, <2>3 DEF Recoverable, Own
  <2> QED
    BY <2>2, <2>13, <2>14, TunedOwn
<1>10. CASE WriteBackup(a)
  <2>1. link' = link /\ backup' = [backup EXCEPT ![a] = Call(a).file] /\ At(a, "tuning", "write")
    BY <1>10 DEF WriteBackup
  <2>2. proc[a].cmd = "add" /\ Rest(a) \in Seq(TuningAddCalls)
    BY <2>1, TuningAddCall DEF TuningAddOps
  <2>3. /\ Call(a).op = "write" /\ Fits(a, Call(a))
        /\ AllFit(a, Rest(a)) /\ SavesFirst(Rest(a)) /\ Own(a)
    <3>1. "write" \in TuningAddOps /\ "write" \in Saving
      BY DEF TuningAddOps, Saving
    <3> QED
      BY <1>2, <2>1, <2>2, <3>1, TuningAddAt
  <2>4. backup'[a] = Saved(a)
    BY <1>2, <2>1, <2>3 DEF Fits
  <2>5. PICK s : s = Rest(a)
    OBVIOUS
  <2>6. Do(a, s)
    BY <1>10, <2>5 DEF WriteBackup
  <2>7. TuningAdding(a)'
    BY <1>1, <1>5, <2>1, <2>3, <2>4, <2>5, <2>6, TuningAddDoes
  <2>8. Recoverable(a)'
    BY <1>5, <2>1, <2>3 DEF Recoverable, Own
  <2> QED
    BY <2>2, <2>4, <2>7, <2>8, TunedOwn
<1>11. CASE SetAttribute(a)
  <2>1. backup' = backup /\ Do(a, Rest(a))
    BY <1>11 DEF SetAttribute, tuningVars
  <2>2. PICK op \in Setting :
           /\ At(a, "tuning", op)
           /\ op = "set mac" => link' = [link EXCEPT ![a].mac = TuningConf[a].mac]
           /\ op = "set promisc" => link' = [link EXCEPT ![a].promisc = TRUE]
           /\ op = "set mtu" => link' = [link EXCEPT ![a].mtu = TuningConf[a].mtu]
    BY <1>11 DEF SetAttribute, Setting
  <2>3. op \in TuningAddOps /\ op \notin Saving
    BY DEF Setting, TuningAddOps, Saving
  <2>4. proc[a].cmd = "add" /\ link[a] # NoLink
    BY <2>2, <2>3, TuningAddCall
  <2>5. /\ Call(a).op = op /\ Fits(a, Call(a))
        /\ AllFit(a, Rest(a)) /\ SavesFirst(Rest(a))
        /\ ~Has(Rest(a), Saving)
        /\ backup[a] = Saved(a)
    BY <1>2, <2>2, <2>3, <2>4, TuningAddAt
  <2>6. Recoverable(a)'
    <3>1. CASE op = "set mac"
      <4>1. TuningConf[a].mac # "" /\ TuningConf[a].mac \in STRING
        BY <2>5, <3>1, TuningAssumption DEF Fits
      <4>2. link'[a].mtu = link[a].mtu /\ link'[a].promisc = link[a].promisc
        BY <1>1, <2>2, <2>4, <3>1, <4>1, FieldSet
      <4> QED
        BY <1>2, <2>1, <2>4, <2>5, <4>1, <4>2 DEF Recoverable, Saved
    <3>2. CASE op = "set promisc"
      <4>1. TuningConf[a].promisc
        BY <2>5, <3>2 DEF Fits
      <4>2. link'[a].mtu = link[a].mtu /\ link'[a].mac = link[a].mac
        BY <1>1, <2>2, <2>4, <3>2, <4>1, FieldSet
      <4> QED
        BY <1>2, <2>1, <2>4, <2>5, <4>1, <4>2 DEF Recoverable, Saved
    <3>3. CASE op = "set mtu"
      <4>1. TuningConf[a].mtu # 0 /\ TuningConf[a].mtu \in Nat
        BY <2>5, <3>3, TuningAssumption DEF Fits
      <4>2. link'[a].mac = link[a].mac /\ link'[a].promisc = link[a].promisc
        BY <1>1, <2>2, <2>4, <3>3, <4>1, FieldSet
      <4> QED
        BY <1>2, <2>1, <2>4, <2>5, <4>1, <4>2 DEF Recoverable, Saved
    <3> QED
      BY <3>1, <3>2, <3>3 DEF Setting
  <2>7. PICK s : s = Rest(a)
    OBVIOUS
  <2>8. Do(a, s)
    BY <2>1, <2>7
  <2>9. TuningAdding(a)'
    BY <1>1, <2>1, <2>5, <2>7, <2>8, TuningAddDoes
  <2> QED
    BY <1>2, <2>1, <2>4, <2>6, <2>9, TunedOwn
<1>12. CASE TuningFails(a)
  BY <1>4, <1>12 DEF TuningFails, tuningVars
<1>13. CASE RestoreAttribute(a)
  <2>1. backup' = backup
    BY <1>13 DEF RestoreAttribute, tuningVars
  <2>2. PICK op \in TuningDelOps :
           /\ At(a, "tuning", op)
           /\ \/ /\ op = "restore mac" /\ Do(a, Rest(a))
                 /\ link' = [link EXCEPT ![a].mac = backup[a].mac]
              \/ /\ op = "restore mtu" /\ Do(a, Rest(a))
                 /\ link' = [link EXCEPT ![a].mtu = backup[a].mtu]
              \/ /\ op = "restore promisc" /\ Do(a, Rest(a))
                 /\ link' = [link EXCEPT ![a].promisc = (backup[a].promisc = "on")]
              \/ Fault(a, KeepFile(Rest(a)))
    BY <1>13 DEF RestoreAttribute, TuningDelOps
  <2>3. proc[a].cmd = "del" /\ link[a] # NoLink /\ backup[a] \in Files
    BY <2>2, TuningDelCall
  <2>4. ~Fault(a, KeepFile(Rest(a)))
    BY <2>3 DEF Fault, Running
  <2>5. /\ Call(a).op = op /\ Fits(a, Call(a))
        /\ AllFit(a, Rest(a))
        /\ backup[a] = Saved(a)
        /\ link[a].mac = Fresh[a].mac \/ op = "restore mac" \/ Has(Rest(a), {"restore mac"})
        /\ link[a].mtu = Fresh[a].mtu \/ op = "restore mtu" \/ Has(Rest(a), {"restore mtu"})
        /\ link[a].promisc = Fresh[a].promisc \/ op = "restore promisc"
                                              \/ Has(Rest(a), {"restore promisc"})
    BY <1>2, <2>2, <2>3, TuningDelAt
  <2>6. backup[a].mac \in STRING /\ backup[a].mtu \in Nat /\ (backup[a].promisc = "on") \in BOOLEAN
    BY <2>3 DEF Files
  <2>7. PICK s : s = Rest(a)
    OBVIOUS
  <2>8. Do(a, s)
    BY <2>2, <2>4, <2>7
  <2>9. ASSUME Restoring(a, s)',
               link'[a].mac = link[a].mac \/ link'[a].mac = Fresh[a].mac,
               link'[a].mtu = link[a].mtu \/ link'[a].mtu = Fresh[a].mtu,
               link'[a].promisc = link[a].promisc \/ link'[a].promisc = Fresh[a].promisc
        PROVE  TuningInv'
    <3>1. TuningDeleting(a)'
      BY <1>1, <2>1, <2>5, <2>7, <2>8, <2>9, TuningDelDoes
    <3>2. Recoverable(a)'
      BY <1>2, <2>1, <2>3, <2>5, <2>9 DEF Recoverable, Saved
    <3> QED
      BY <1>2, <2>1, <2>3, <3>1, <3>2, TunedOwn
  <2>10. CASE op = "restore mac"
    <3>1. link' = [link EXCEPT ![a].mac = backup[a].mac]
      BY <2>2, <2>4, <2>10
    <3>2. /\ link'[a].mac = backup[a].mac /\ link'[a].mtu = link[a].mtu
          /\ link'[a].promisc = link[a].promisc
      BY <1>1, <2>3, <2>6, <3>1, FieldSet
    <3>3. backup[a].mac = Fresh[a].mac
      BY <2>5, <2>10, SavedFields DEF Fits
    <3>4. Restoring(a, s)'
      BY <2>5, <2>7, <2>10, <3>2, <3>3 DEF Restoring
    <3> QED
      BY <2>9, <3>2, <3>3, <3>4
  <2>11. CASE op = "restore mtu"
    <3>1. link' = [link EXCEPT ![a].mtu = backup[a].mtu]
      BY <2>2, <2>4, <2>11
    <3>2. /\ link'[a].mtu = backup[a].mtu /\ link'[a].mac = link[a].mac
          /\ link'[a].promisc = link[a].promisc
      BY <1>1, <2>3, <2>6, <3>1, FieldSet
    <3>3. backup[a].mtu = Fresh[a].mtu
      BY <2>5, <2>11, SavedFields DEF Fits
    <3>4. Restoring(a, s)'
      BY <2>5, <2>7, <2>11, <3>2, <3>3 DEF Restoring
    <3> QED
      BY <2>9, <3>2, <3>3, <3>4
  <2>12. CASE op = "restore promisc"
    <3>1. link' = [link EXCEPT ![a].promisc = (backup[a].promisc = "on")]
      BY <2>2, <2>4, <2>12
    <3>2. /\ link'[a].promisc = (backup[a].promisc = "on") /\ link'[a].mac = link[a].mac
          /\ link'[a].mtu = link[a].mtu
      BY <1>1, <2>3, <2>6, <3>1, FieldSet
    <3>3. (backup[a].promisc = "on") <=> Fresh[a].promisc
      BY <2>5, <2>12, SavedFields DEF Fits
    <3>4. Fresh[a].promisc \in BOOLEAN
      BY FreshAssumption DEF Links
    <3>5. link'[a].promisc = Fresh[a].promisc
      BY <3>2, <3>3, <3>4
    <3>6. Restoring(a, s)'
      BY <2>5, <2>7, <2>12, <3>2, <3>5 DEF Restoring
    <3> QED
      BY <2>9, <3>2, <3>5, <3>6
  <2> QED
    BY <2>2, <2>4, <2>10, <2>11, <2>12
<1>14. CASE RemoveBackup(a)
  <2>1. link' = link /\ backup' = [backup EXCEPT ![a] = NoBackup] /\ At(a, "tuning", "remove")
    BY <1>14 DEF RemoveBackup
  <2>2. proc[a].cmd = "del" /\ Rest(a) = <<>> /\ link[a] # NoLink
    BY <2>1, TuningDelCall DEF TuningDelOps
  <2>3. Own(a)
    <3>1. "remove" \in TuningDelOps
      BY DEF TuningDelOps
    <3>2. /\ link[a].mac = Fresh[a].mac \/ Has(Rest(a), {"restore mac"})
          /\ link[a].mtu = Fresh[a].mtu \/ Has(Rest(a), {"restore mtu"})
          /\ link[a].promisc = Fresh[a].promisc \/ Has(Rest(a), {"restore promisc"})
      BY <1>2, <2>1, <2>2, <3>1, TuningDelAt
    <3> QED
      BY <2>2, <3>2, NoCall DEF Own
  <2>4. Do(a, <<>>)
    BY <1>14, <2>2 DEF RemoveBackup
  <2>5. Restoring(a, <<>>)' /\ Recoverable(a)' /\ backup'[a] = NoBackup
    BY <1>2, <2>1, <2>3 DEF Own, Restoring, Recoverable
  <2>6. TuningDeleting(a)'
    BY <1>1, <2>4, <2>5, NoCall, TuningDelDoes
  <2> QED
    BY <2>2, <2>5, <2>6, TunedOwn
<1> QED
  BY <1>6, <1>7, <1>8, <1>9, <1>10, <1>11, <1>12, <1>13, <1>14 DEF TuningStep

LEMMA TunedNext ==
  ASSUME TypeInv, TuningInv, OnePerChain, <<"tuning", "del">> \notin MayFail, [Next]_vars
  PROVE  TuningInv'
<1>1. CASE UNCHANGED vars
  <2>1. UNCHANGED <<chain, proc, told, link, backup>>
    BY <1>1 DEF vars, chainVars, tuningVars
  <2>2. ASSUME NEW a \in Att PROVE TuningOK(a)'
    <3>1. /\ Own(a)' <=> Own(a)
          /\ Recoverable(a)' <=> Recoverable(a)
          /\ proc'[a] = proc[a] /\ TuningAdding(a) => TuningAdding(a)'
          /\ proc'[a] = proc[a] /\ TuningDeleting(a) => TuningDeleting(a)'
      BY <2>1, TuningView DEF SameTuning
    <3>2. /\ Running(a, "tuning")' <=> Running(a, "tuning")
          /\ NotBegun(a, "tuning")' <=> NotBegun(a, "tuning")
          /\ Undone(a, "tuning")' <=> Undone(a, "tuning")
          /\ Plugins' = Plugins
      BY <2>1 DEF NotBegun, Undone, Ahead, Running, Idle, Plugins
    <3>3. TuningOK(a) /\ Saved(a)' = Saved(a)
      BY DEF TuningInv, Saved
    <3>4. TuningRuns(a)'
      BY <2>1, <3>1, <3>2, <3>3 DEF TuningOK, TuningRuns
    <3> QED
      BY <2>1, <3>1, <3>2, <3>3, <3>4 DEF TuningOK
  <2> QED
    BY <2>2 DEF TuningInv
<1>2. ASSUME NEW a \in Att, RuntimeStep(a) PROVE TuningInv'
  BY <1>2, TunedRuntime DEF RuntimeStep, tuningVars
<1>3. ASSUME NEW a \in Att, Running(a, "vrf"), VrfStep(a), UNCHANGED tuningVars PROVE TuningInv'
  <2>1. ~Running(a, "tuning") /\ Steps(a) /\ backup' = backup
    BY <1>3, VrfSteps DEF Running, tuningVars
  <2>2. SameLinks /\ \A b \in Att : SameTuning(b)
    BY <1>3, VrfTouches
  <2> QED
    BY <2>1, <2>2, TunedOther
<1>4. ASSUME NEW a \in Att, Running(a, "sbr"), SbrStep(a), UNCHANGED tuningVars PROVE TuningInv'
  <2>1. ~Running(a, "tuning") /\ Steps(a) /\ backup' = backup
    BY <1>4, SbrSteps DEF Running, tuningVars
  <2>2. SameLinks /\ \A b \in Att : SameTuning(b)
    BY <1>4, SbrTouches
  <2> QED
    BY <2>1, <2>2, TunedOther
<1> QED
  BY <1>1, <1>2, <1>3, <1>4, TunedOwnStep DEF Next, PluginStep

(* An interface that outlives its attachment has its own attributes again, *)
(* wherever the ADD and the DELs before the last one were cut off          *)
(* (createBackup and restoreBackup of plugins/meta/tuning/tuning.go).  The *)
(* calls of DEL must not fail: DEL drops their errors, and the runtime     *)
(* does not come again.                                                    *)
THEOREM AttributesAreRestored ==
  OnePerChain /\ <<"tuning", "del">> \notin MayFail => (Spec => []Restored)
<1> SUFFICES ASSUME OnePerChain, <<"tuning", "del">> \notin MayFail PROVE Spec => []Restored
  OBVIOUS
<1>1. TypeInv /\ TuningInv /\ [Next]_vars => TuningInv'
  BY TunedNext
<1>2. Spec => []TuningInv
  BY <1>1, TunedInit, TypeCorrect, PTL DEF Spec
<1>3. TuningInv => Restored
  BY DEF TuningInv, TuningOK, Own, Restored
<1> QED
  BY <1>2, <1>3, PTL
=============================================================================
