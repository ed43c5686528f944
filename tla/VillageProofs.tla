--------------------------- MODULE VillageProofs ---------------------------
(***************************************************************************)
(* Proofs about the village plugin, for any containers and attachments,    *)
(* any results of the IPAM plugin and, but for the hypotheses a theorem    *)
(* names, any failures and kills.                                          *)
(*                                                                         *)
(*   1. CtlInv, the invariant of the control flow, and one lemma for each  *)
(*      action that says what it changes (..Fx);                           *)
(*   2. Sees, the table of the steps as their own attachment sees them,    *)
(*      and Beside, as every other one does (Views: there is no third);    *)
(*   3. the invariants of an attachment (AsgOK, LinkOK, AloneOK, MvOK,     *)
(*      MasqOK, CleanOK), each preserved by every line of the table;       *)
(*   4. the theorems.                                                      *)
(***************************************************************************)
EXTENDS Village, TLAPS

-----------------------------------------------------------------------------
(* The invariant of the control flow.                                      *)

MvSteps == {"macvlan", "rename", "unmake", "configureMv", "undoLink", "undoMasq"}

\* createMacvlan has made a link that has a temporary name.
Half == {"rename", "unmake"}

\* A running command works on an attachment of its container, under its name
\* or, for the macvlan, under "mv0"; an ADD has the namespace it works in.
CmdOK(c) ==
    cmd[c].pc # "idle" =>
        /\ cmd[c].att \in Att
        /\ ContainerOf[cmd[c].att] = c
        /\ cmd[c].pc \in AddSteps => /\ status[cmd[c].att] = "adding"
                                     /\ cmd[c].path
                                     /\ c \in netns
        /\ cmd[c].pc \in DelSteps => status[cmd[c].att] = "deleting"
        /\ cmd[c].path \/ c \notin netns
        /\ cmd[c].pc \notin {"bridge", "veth", "print", "delMv", "delLink"} => cmd[c].att \in Layer3
        /\ cmd[c].pc \in MvSteps => cmd[c].ifName = Mv /\ cmd[c].att \in MacVlan
        /\ cmd[c].pc \notin MvSteps \cup {"undoIpam"} => cmd[c].ifName = IfNameOf[cmd[c].att]
        /\ cmd[c].pc \in Half => unnamed[c] # 0

\* A namespace that is gone has no interfaces.
NetnsOK(c) == c \notin netns => \A i \in Names : link[c][i] = NoLink

CtlInv == TypeOK /\ \A c \in Cont : CmdOK(c) /\ NetnsOK(c)

-----------------------------------------------------------------------------
(* What the parts of the actions do, one place at a time.                  *)

Labels == {"idle"} \cup AddSteps \cup DelSteps

\* The process of c goes to a label, with what it has to do there.
Went(c, label, name, todo) ==
    /\ cmd' \in [Cont -> CmdType]
    /\ cmd'[c].pc = label
    /\ cmd'[c].att = cmd[c].att
    /\ cmd'[c].ifName = name
    /\ cmd'[c].path = cmd[c].path
    /\ cmd'[c].todo = todo
    /\ \A d \in Cont \ {c} : cmd'[d] = cmd[d]

Moved(c, label) == Went(c, label, cmd[c].ifName, cmd[c].todo)

LEMMA WentFx ==
  ASSUME TypeOK, NEW c \in Cont, NEW r \in CmdType,
         r.att = cmd[c].att, r.path = cmd[c].path, cmd' = [cmd EXCEPT ![c] = r]
  PROVE  Went(c, r.pc, r.ifName, r.todo)
<1>1. cmd' \in [Cont -> CmdType] /\ cmd'[c] = r /\ \A d \in Cont \ {c} : cmd'[d] = cmd[d]
  BY DEF TypeOK
<1> QED
  BY <1>1 DEF Went

LEMMA GotoFx ==
  ASSUME TypeOK, NEW c \in Cont, NEW label \in Labels, Goto(c, label)
  PROVE  Moved(c, label)
<1> DEFINE r == [cmd[c] EXCEPT !.pc = label]
<1>1. cmd[c] \in CmdType
  BY DEF TypeOK
<1>2. /\ r \in CmdType /\ r.pc = label /\ r.att = cmd[c].att /\ r.ifName = cmd[c].ifName
      /\ r.path = cmd[c].path /\ r.todo = cmd[c].todo
  BY <1>1 DEF CmdType, Labels
<1>3. cmd' = [cmd EXCEPT ![c] = r]
  BY DEF Goto
<1> HIDE DEF r
<1> QED
  BY <1>2, <1>3, WentFx DEF Moved

Stati == {"none", "adding", "ready", "garbled", "addFailed", "deleting", "delFailed", "killed"}

\* The process of c ends and its attachment has a new status.
Answered(c, s) ==
    /\ cmd' \in [Cont -> CmdType]
    /\ cmd'[c].pc = "idle"
    /\ \A d \in Cont \ {c} : cmd'[d] = cmd[d]
    /\ status' \in [Att -> Stati]
    /\ status'[cmd[c].att] = s
    /\ \A b \in Att \ {cmd[c].att} : status'[b] = status[b]

LEMMA AnswerFx ==
  ASSUME TypeOK, NEW c \in Cont, cmd[c].att \in Att, NEW s \in Stati, Answer(c, s)
  PROVE  Answered(c, s)
<1>1. NoCmd \in CmdType /\ NoCmd.pc = "idle"
  BY DEF NoCmd, CmdType, Names
<1>2. cmd' \in [Cont -> CmdType] /\ cmd'[c] = NoCmd /\ \A d \in Cont \ {c} : cmd'[d] = cmd[d]
  BY <1>1 DEF TypeOK, Answer
<1>3. /\ status' \in [Att -> Stati]
      /\ status'[cmd[c].att] = s
      /\ \A b \in Att \ {cmd[c].att} : status'[b] = status[b]
  BY DEF TypeOK, Answer, Stati
<1> QED
  BY <1>1, <1>2, <1>3 DEF Answered

\* One interface of c is made, changed or deleted.
Linked(c, i, addrs) ==
    /\ link' \in [Cont -> [Names -> {NoLink} \cup SUBSET IP]]
    /\ link'[c][i] = addrs
    /\ \A j \in Names \ {i} : link'[c][j] = link[c][j]
    /\ \A d \in Cont \ {c} : link'[d] = link[d]

LEMMA SetLinkFx ==
  ASSUME TypeOK, NEW c \in Cont, NEW i \in Names, NEW addrs \in {NoLink} \cup SUBSET IP,
         SetLink(c, i, addrs)
  PROVE  Linked(c, i, addrs)
<1> DEFINE r == [link[c] EXCEPT ![i] = addrs]
<1>1. link[c] \in [Names -> {NoLink} \cup SUBSET IP]
  BY DEF TypeOK
<1>2. /\ r \in [Names -> {NoLink} \cup SUBSET IP] /\ r[i] = addrs
      /\ \A j \in Names \ {i} : r[j] = link[c][j]
  BY <1>1
<1>3. link' = [link EXCEPT ![c] = r]
  BY DEF SetLink
<1> HIDE DEF r
<1>4. /\ link' \in [Cont -> [Names -> {NoLink} \cup SUBSET IP]]
      /\ link'[c] = r /\ \A d \in Cont \ {c} : link'[d] = link[d]
  BY <1>2, <1>3 DEF TypeOK
<1> QED
  BY <1>2, <1>4 DEF Linked

\* cmdAdd returns its error.
Failed(c) ==
    \/ cmd[c].att \in Layer3 /\ Moved(c, "undoIpam") /\ status' = status
    \/ cmd[c].att \notin Layer3 /\ Answered(c, "addFailed")

LEMMA AddFailsFx ==
  ASSUME TypeOK, NEW c \in Cont, cmd[c].att \in Att, AddFails(c)
  PROVE  Failed(c)
<1>1. "undoIpam" \in Labels /\ "addFailed" \in Stati
  BY DEF Labels, Stati, AddSteps
<1> QED
  BY <1>1, GotoFx, AnswerFx DEF AddFails, Failed

\* bridge.Del returns.
Returned(c, ok) ==
    \/ status[cmd[c].att] = "adding" /\ Moved(c, "undoIpam") /\ status' = status
    \/ status[cmd[c].att] # "adding" /\ Answered(c, IF ok THEN "none" ELSE "delFailed")

LEMMA DelReturnsFx ==
  ASSUME TypeOK, NEW c \in Cont, cmd[c].att \in Att, NEW ok \in BOOLEAN, DelReturns(c, ok)
  PROVE  Returned(c, ok)
<1>1. "undoIpam" \in Labels /\ (IF ok THEN "none" ELSE "delFailed") \in Stati
  BY DEF Labels, Stati, AddSteps
<1> QED
  BY <1>1, GotoFx, AnswerFx DEF DelReturns, Returned

-----------------------------------------------------------------------------
(* The inductive invariants, per attachment.                               *)

\* Where the command is that works on a, and what it has to do there.
Pc(a) == IF cmd[ContainerOf[a]].att = a THEN cmd[ContainerOf[a]].pc ELSE "idle"
Todo(a) == cmd[ContainerOf[a]].todo
In(a, labels) == Pc(a) \in labels

\* Its two interfaces, the macvlans without a name beside them, its jumps and
\* its chain.
L(a) == link[ContainerOf[a]][IfNameOf[a]]
M(a) == link[ContainerOf[a]][Mv]
U(a) == unnamed[ContainerOf[a]]
J(a) == jumps[ChainOf[a]]
K(a) == chain[ChainOf[a]]

\* Addresses are held from the IPAM plugin's ADD to its DEL.
AsgOK(a) ==
    /\ \/ a \notin Layer3
       \/ status[a] = "none"
       \/ In(a, {"ipamAdd", "delMv", "delLink", "delMasq"})
       => assigned[a] = {}
    /\ assigned[a] # {} => assigned[a] \in Results
    /\ "undoIpam" \notin MayFail /\ status[a] = "addFailed" => assigned[a] = {}

Disjoint == \A a, b \in Att : a # b => assigned[a] \cap assigned[b] = {}

\* The bridge's end is there, with its addresses, from its configuration on.
LinkOK(a) ==
    /\ status[a] = "none" \/ In(a, {"ipamAdd", "bridge", "veth", "delMasq"}) => L(a) = NoLink
    /\ In(a, {"gateway", "masq", "print", "macvlan", "rename", "configureMv"}) => L(a) = Bridged(a)
    /\ Added(a) /\ ContainerOf[a] \in netns => L(a) = Bridged(a)

\* Only an attachment of such a network makes an "mv0".
MvOwned == \A c \in Cont : link[c][Mv] # NoLink => \E a \in MacVlan : ContainerOf[a] = c

\* The macvlan of an attachment that has finished its ADD and has its container
\* for itself, ...
AloneOK(a) ==
    /\ Added(a) /\ ContainerOf[a] \in netns
    /\ OnlyOne(a) /\ a \in MacVlan /\ assigned[a] \cap MvIPs # {}
    => M(a) = assigned[a] \cap MvIPs

\* ... and before and after that.
MvOK(a) ==
    a \in MacVlan =>
        /\ \/ status[a] = "none"
           \/ In(a, {"ipamAdd", "bridge", "veth", "configure", "gateway", "masq", "print",
                     "macvlan", "rename", "unmake", "delLink", "delMasq"})
           => M(a) = NoLink
        /\ Added(a) => M(a) \in {NoLink, assigned[a] \cap MvIPs}
        /\ "undoLink" \notin MayFail =>
              (status[a] = "addFailed" \/ In(a, {"undoMasq", "undoIpam"}) => M(a) = NoLink)

Masked(a, ip) == ip \in J(a) /\ K(a)[Family(ip)] = "masq"

\* The addresses that SetupIPMasq has not seen yet are still to do.
MasqOK(a) ==
    IPMasq =>
        /\ Added(a) \/ In(a, {"print", "macvlan", "rename", "configureMv"}) =>
              \A ip \in Bridged(a) : Masked(a, ip)
        /\ In(a, {"masq"}) =>
              \A ip \in Bridged(a) : ip \in Todo(a) \/ Masked(a, ip)

\* The addresses whose rules a DEL would remove, or is removing.
ToClean(a) ==
    IF In(a, {"delMasq"}) THEN Todo(a)
    ELSE IF L(a) = NoLink THEN {} ELSE L(a)

NoRules(a) == J(a) = {} /\ \A f \in {4, 6} : K(a)[f] = "none"

\* Every rule and chain belongs to an address that a DEL finds on the interface.
CleanOK(a) ==
    /\ J(a) \subseteq ToClean(a)
    /\ \A f \in {4, 6} : K(a)[f] # "none" => \E ip \in ToClean(a) : Family(ip) = f
    /\ \A x, y \in ToClean(a) : x = y
    /\ \A ip \in J(a) : K(a)[Family(ip)] # "none"
    /\ \/ ~IPMasq \/ a \notin Layer3
       \/ In(a, {"ipamAdd", "bridge", "veth", "configure", "gateway"})
       => NoRules(a)
    /\ In(a, {"masq"}) => IPMasq /\ Todo(a) \subseteq ToClean(a)

-----------------------------------------------------------------------------
(* What every action leaves alone, and what it does to its own attachment. *)

\* A step of the process of c that works on a.
Frame(c, a) ==
    /\ cmd[c].pc = "idle" \/ cmd[c].att = a
    /\ cmd'[c].pc = "idle" \/ cmd'[c].att = a
    /\ \A d \in Cont \ {c} : cmd'[d] = cmd[d] /\ link'[d] = link[d]
    /\ \A i \in Names \ {IfNameOf[a], Mv} : link'[c][i] = link[c][i]
    /\ link'[c][Mv] = link[c][Mv] \/ link'[c][Mv] = NoLink \/ a \in MacVlan
    /\ \A b \in Att \ {a} : status'[b] = status[b] /\ assigned'[b] = assigned[b]
    /\ \A ch \in Chains \ {ChainOf[a]} : jumps'[ch] = jumps[ch] /\ chain'[ch] = chain[ch]
    /\ netns' = netns
    /\ \A d \in Cont \ {c} : unnamed'[d] = unnamed[d]

LEMMA CtlKept ==
  ASSUME CtlInv, NEW c \in Cont, NEW a \in Att, ContainerOf[a] = c, Frame(c, a),
         TypeOK', CmdOK(c)', NetnsOK(c)'
  PROVE  CtlInv'
<1> SUFFICES ASSUME NEW d \in Cont, d # c
             PROVE  CmdOK(d)' /\ NetnsOK(d)'
  BY DEF CtlInv
<1>1. cmd'[d] = cmd[d] /\ link'[d] = link[d] /\ netns' = netns /\ unnamed'[d] = unnamed[d]
  BY DEF Frame
<1>2. CmdOK(d) /\ NetnsOK(d)
  BY DEF CtlInv
<1>3. cmd[d].pc # "idle" => cmd[d].att \in Att \ {a}
  BY <1>2 DEF CmdOK
<1>4. cmd[d].pc # "idle" => status'[cmd[d].att] = status[cmd[d].att]
  BY <1>3 DEF Frame
<1>5. CmdOK(d)'
  BY <1>1, <1>2, <1>4 DEF CmdOK
<1>6. NetnsOK(d)'
  BY <1>1, <1>2 DEF NetnsOK
<1> QED
  BY <1>5, <1>6

\* What is known of a process that runs.
LEMMA Running ==
  ASSUME CtlInv, NEW c \in Cont, cmd[c].pc # "idle"
  PROVE  /\ TypeOK /\ CmdOK(c) /\ NetnsOK(c)
         /\ cmd[c] \in CmdType /\ cmd[c].att \in Att /\ ContainerOf[cmd[c].att] = c
         /\ ChainOf[cmd[c].att] \in Chains
         /\ IfNameOf[cmd[c].att] \in Names /\ IfNameOf[cmd[c].att] # Mv /\ Mv \in Names
<1>1. TypeOK /\ CmdOK(c) /\ NetnsOK(c)
  BY DEF CtlInv
<1>2. cmd[c] \in CmdType
  BY <1>1 DEF TypeOK
<1>3. cmd[c].att \in Att /\ ContainerOf[cmd[c].att] = c
  BY <1>1 DEF CmdOK
<1> QED
  BY <1>1, <1>2, <1>3, VillageAssumption DEF Chains, Names

\* The parts of a step of the process of c.
ProcFx(c) ==
    \/ /\ status' = status
       /\ \E label \in Labels : \E name, todo : Went(c, label, name, todo)
    \/ \E s \in Stati : Answered(c, s)

LinkFx(c) ==
    \/ link' = link
    \/ \E i \in {IfNameOf[cmd[c].att], Mv} : \E addrs :
          /\ Linked(c, i, addrs)
          /\ i = Mv => addrs = NoLink \/ cmd[c].att \in MacVlan
          /\ addrs = NoLink \/ c \in netns

RuleFx(c) ==
    /\ jumps' \in [Chains -> SUBSET IP]
    /\ chain' \in [Chains -> [{4, 6} -> {"none", "bare", "masq"}]]
    /\ \A ch \in Chains \ {ChainOf[cmd[c].att]} : jumps'[ch] = jumps[ch] /\ chain'[ch] = chain[ch]

\* The namespace stays, and the macvlans without their name in other ones.
NsFx(c) ==
    /\ netns' = netns
    /\ unnamed' \in [Cont -> 0 .. MaxUnnamed]
    /\ \A d \in Cont \ {c} : unnamed'[d] = unnamed[d]

AsgFx(c) ==
    /\ assigned' \in [Att -> SUBSET IP]
    /\ \A b \in Att \ {cmd[c].att} : assigned'[b] = assigned[b]

\* What a process changes is its own, so the invariant is its own affair.
LEMMA StepShape ==
  ASSUME CtlInv, NEW c \in Cont, cmd[c].pc # "idle",
         ProcFx(c), LinkFx(c), RuleFx(c), AsgFx(c), NsFx(c), CmdOK(c)'
  PROVE  CtlInv' /\ Frame(c, cmd[c].att)
<1>1. /\ TypeOK /\ CmdOK(c) /\ NetnsOK(c)
      /\ cmd[c] \in CmdType /\ cmd[c].att \in Att /\ ContainerOf[cmd[c].att] = c
      /\ IfNameOf[cmd[c].att] \in Names /\ IfNameOf[cmd[c].att] # Mv /\ Mv \in Names
  BY Running
<1>2. /\ cmd' \in [Cont -> CmdType] /\ status' \in [Att -> Stati]
      /\ cmd'[c].pc = "idle" \/ cmd'[c].att = cmd[c].att
      /\ \A d \in Cont \ {c} : cmd'[d] = cmd[d]
      /\ \A b \in Att \ {cmd[c].att} : status'[b] = status[b]
  BY <1>1 DEF ProcFx, Went, Answered, TypeOK, Stati
<1>3. /\ link' \in [Cont -> [Names -> {NoLink} \cup SUBSET IP]]
      /\ \A d \in Cont \ {c} : link'[d] = link[d]
      /\ \A i \in Names \ {IfNameOf[cmd[c].att], Mv} : link'[c][i] = link[c][i]
      /\ link'[c][Mv] = link[c][Mv] \/ link'[c][Mv] = NoLink \/ cmd[c].att \in MacVlan
      /\ c \notin netns => \A i \in Names : link'[c][i] = NoLink
  <2>1. CASE link' = link
    BY <1>1, <2>1 DEF TypeOK, NetnsOK
  <2>2. CASE link' # link
    <3>1. PICK i \in {IfNameOf[cmd[c].att], Mv} : \E addrs :
              /\ Linked(c, i, addrs)
              /\ i = Mv => addrs = NoLink \/ cmd[c].att \in MacVlan
              /\ addrs = NoLink \/ c \in netns
      BY <2>2 DEF LinkFx
    <3> QED
      BY <1>1, <3>1 DEF Linked, NetnsOK
  <2> QED
    BY <2>1, <2>2
<1>4. TypeOK'
  BY <1>1, <1>2, <1>3 DEF TypeOK, Stati, RuleFx, AsgFx, NsFx
<1>5. Frame(c, cmd[c].att)
  BY <1>1, <1>2, <1>3 DEF Frame, RuleFx, AsgFx, NsFx
<1>6. NetnsOK(c)'
  BY <1>3 DEF NetnsOK, NsFx
<1> QED
  BY <1>1, <1>4, <1>5, <1>6, CtlKept

\* A process that goes on works on the same attachment.
LEMMA WentOK ==
  ASSUME CtlInv, NEW c \in Cont, cmd[c].pc # "idle", NEW label \in Labels, NEW name, NEW todo,
         Went(c, label, name, todo), status' = status, netns' = netns,
         label \in AddSteps => cmd[c].pc \in AddSteps,
         label \in DelSteps => cmd[c].pc \in DelSteps,
         label \notin {"bridge", "veth", "print", "delMv", "delLink"} => cmd[c].att \in Layer3,
         label \in MvSteps => name = Mv /\ cmd[c].att \in MacVlan,
         label \notin MvSteps \cup {"undoIpam"} => name = IfNameOf[cmd[c].att],
         label \in Half => unnamed'[c] # 0
  PROVE  CmdOK(c)'
BY Running DEF CmdOK, Went

LEMMA AnsweredOK ==
  ASSUME NEW c, NEW s, Answered(c, s)
  PROVE  CmdOK(c)'
BY DEF CmdOK, Answered

\* Where nothing is touched.
LEMMA SameFx ==
  ASSUME TypeOK, NEW c
  PROVE  /\ link' = link => LinkFx(c)
         /\ UNCHANGED <<jumps, chain>> => RuleFx(c)
         /\ UNCHANGED assigned => AsgFx(c)
         /\ UNCHANGED <<netns, unnamed>> => NsFx(c)
BY DEF LinkFx, RuleFx, AsgFx, NsFx, TypeOK

\* cmdAdd returns its error before the macvlan's turn.
LEMMA FailedOK ==
  ASSUME CtlInv, NEW c \in Cont, Failed(c), netns' = netns,
         cmd[c].pc \in {"bridge", "veth", "configure", "gateway", "masq", "print"}
  PROVE  ProcFx(c) /\ CmdOK(c)'
<1>1. CASE cmd[c].att \in Layer3 /\ Moved(c, "undoIpam") /\ status' = status
  <2>1. "undoIpam" \in Labels
    BY DEF Labels, AddSteps
  <2>2. ProcFx(c)
    BY <1>1, <2>1 DEF ProcFx, Moved
  <2>3. CmdOK(c)'
    BY <1>1, <2>1, WentOK DEF Moved, MvSteps, Half, AddSteps, DelSteps
  <2> QED
    BY <2>2, <2>3
<1>2. CASE Answered(c, "addFailed")
  BY <1>2, AnsweredOK DEF ProcFx, Stati
<1> QED
  BY <1>1, <1>2 DEF Failed

\* bridge.Del returns.
LEMMA ReturnedOK ==
  ASSUME CtlInv, NEW c \in Cont, NEW ok \in BOOLEAN, Returned(c, ok), netns' = netns,
         cmd[c].pc \in {"undoLink", "undoMasq", "delLink", "delMasq"}
  PROVE  /\ ProcFx(c) /\ CmdOK(c)'
         /\ \/ /\ cmd[c].pc \in {"undoLink", "undoMasq"}
               /\ Moved(c, "undoIpam") /\ status' = status
            \/ /\ cmd[c].pc \in {"delLink", "delMasq"}
               /\ Answered(c, IF ok THEN "none" ELSE "delFailed")
<1>1. CmdOK(c)
  BY DEF CtlInv
<1>2. CASE status[cmd[c].att] = "adding" /\ Moved(c, "undoIpam") /\ status' = status
  <2>1. "undoIpam" \in Labels
    BY DEF Labels, AddSteps
  <2>2. cmd[c].pc \in {"undoLink", "undoMasq"} /\ cmd[c].att \in Layer3
    BY <1>1, <1>2 DEF CmdOK, AddSteps, DelSteps
  <2>3. ProcFx(c)
    BY <1>2, <2>1 DEF ProcFx, Moved
  <2>4. CmdOK(c)'
    BY <1>2, <2>1, <2>2, WentOK DEF Moved, MvSteps, Half, AddSteps, DelSteps
  <2> QED
    BY <1>2, <2>2, <2>3, <2>4
<1>3. CASE status[cmd[c].att] # "adding" /\ Answered(c, IF ok THEN "none" ELSE "delFailed")
  <2>1. cmd[c].pc \in {"delLink", "delMasq"}
    BY <1>1, <1>3 DEF CmdOK, AddSteps, DelSteps
  <2>2. ProcFx(c) /\ CmdOK(c)'
    BY <1>3, AnsweredOK DEF ProcFx, Stati
  <2> QED
    BY <1>3, <2>1, <2>2
<1> QED
  BY <1>2, <1>3 DEF Returned

-----------------------------------------------------------------------------
(* The actions.                                                            *)

\* The own chain of an attachment is changed for one family.
Chained(ch, f, v) ==
    /\ chain' \in [Chains -> [{4, 6} -> {"none", "bare", "masq"}]]
    /\ chain'[ch][f] = v
    /\ \A g \in {4, 6} \ {f} : chain'[ch][g] = chain[ch][g]
    /\ \A x \in Chains \ {ch} : chain'[x] = chain[x]

LEMMA ChainFx ==
  ASSUME TypeOK, NEW ch \in Chains, NEW f \in {4, 6}, NEW v \in {"none", "bare", "masq"},
         chain' = [chain EXCEPT ![ch][f] = v]
  PROVE  Chained(ch, f, v)
<1> DEFINE r == [chain[ch] EXCEPT ![f] = v]
<1>1. chain[ch] \in [{4, 6} -> {"none", "bare", "masq"}]
  BY DEF TypeOK
<1>2. /\ r \in [{4, 6} -> {"none", "bare", "masq"}] /\ r[f] = v
      /\ \A g \in {4, 6} \ {f} : r[g] = chain[ch][g]
  BY <1>1
<1>3. chain' = [chain EXCEPT ![ch] = r]
  OBVIOUS
<1> HIDE DEF r
<1>4. /\ chain' \in [Chains -> [{4, 6} -> {"none", "bare", "masq"}]]
      /\ chain'[ch] = r /\ \A x \in Chains \ {ch} : chain'[x] = chain[x]
  BY <1>2, <1>3 DEF TypeOK
<1> QED
  BY <1>2, <1>4 DEF Chained

\* The jumps of one chain are changed.
Jumped(ch, S) ==
    /\ jumps' \in [Chains -> SUBSET IP]
    /\ jumps'[ch] = S
    /\ \A x \in Chains \ {ch} : jumps'[x] = jumps[x]

LEMMA JumpFx ==
  ASSUME TypeOK, NEW ch \in Chains, NEW S \in SUBSET IP, jumps' = [jumps EXCEPT ![ch] = S]
  PROVE  Jumped(ch, S)
BY DEF TypeOK, Jumped

\* BeginAdd and BeginDel start a process.
Begun(a, label, s) ==
    /\ cmd[ContainerOf[a]].pc = "idle"
    /\ cmd'[ContainerOf[a]].pc = label
    /\ cmd'[ContainerOf[a]].att = a
    /\ status'[a] = s
    /\ UNCHANGED <<assigned, kernel>>

LEMMA NoCmdType == NoCmd \in CmdType /\ NoCmd.pc = "idle" /\ NoCmd.path
BY DEF NoCmd, CmdType, Names

LEMMA BeginFx ==
  ASSUME CtlInv, NEW a \in Att, NEW s \in Stati, NEW r \in CmdType,
         r.att = a, r.ifName = IfNameOf[a], r.path \/ ContainerOf[a] \notin netns,
         cmd[ContainerOf[a]].pc = "idle",
         cmd' = [cmd EXCEPT ![ContainerOf[a]] = r],
         status' = [status EXCEPT ![a] = s],
         UNCHANGED <<assigned, kernel>>,
         \/ s = "adding" /\ r.pc \in {"ipamAdd", "bridge"} /\ r.path /\ ContainerOf[a] \in netns
         \/ s = "deleting" /\ r.pc \in {"ipamDel", "delMv"},
         r.pc \in {"ipamAdd", "ipamDel"} => a \in Layer3
  PROVE  CtlInv' /\ Frame(ContainerOf[a], a) /\ Begun(a, r.pc, s)
<1>1. TypeOK /\ ContainerOf[a] \in Cont
  BY VillageAssumption DEF CtlInv
<1>2. /\ cmd' \in [Cont -> CmdType] /\ cmd'[ContainerOf[a]] = r
      /\ \A d \in Cont \ {ContainerOf[a]} : cmd'[d] = cmd[d]
  BY <1>1 DEF TypeOK
<1>3. /\ status' \in [Att -> Stati] /\ status'[a] = s
      /\ \A b \in Att \ {a} : status'[b] = status[b]
  BY <1>1 DEF TypeOK, Stati
<1>4. TypeOK'
  BY <1>1, <1>2, <1>3 DEF TypeOK, Stati, kernel
<1>5. Frame(ContainerOf[a], a)
  BY <1>2, <1>3 DEF Frame, kernel
<1>6. CmdOK(ContainerOf[a])' /\ NetnsOK(ContainerOf[a])'
  <2>1. NetnsOK(ContainerOf[a])
    BY <1>1 DEF CtlInv
  <2>2. NetnsOK(ContainerOf[a])'
    BY <2>1 DEF NetnsOK, kernel
  <2>3. CmdOK(ContainerOf[a])'
    BY <1>2, <1>3 DEF CmdOK, kernel, AddSteps, DelSteps, MvSteps, Half
  <2> QED
    BY <2>2, <2>3
<1>7. Begun(a, r.pc, s)
  BY <1>2, <1>3 DEF Begun
<1> QED
  BY <1>1, <1>4, <1>5, <1>6, <1>7, CtlKept

LEMMA BeginAddFx ==
  ASSUME CtlInv, NEW a \in Att, BeginAdd(a)
  PROVE  /\ CtlInv' /\ Frame(ContainerOf[a], a)
         /\ status[a] = "none"
         /\ Begun(a, IF a \in Layer3 THEN "ipamAdd" ELSE "bridge", "adding")
<1> DEFINE label == IF a \in Layer3 THEN "ipamAdd" ELSE "bridge"
           r == [NoCmd EXCEPT !.pc = label, !.att = a, !.ifName = IfNameOf[a]]
<1>1. /\ cmd[ContainerOf[a]].pc = "idle" /\ ContainerOf[a] \in netns /\ status[a] = "none"
      /\ status' = [status EXCEPT ![a] = "adding"] /\ UNCHANGED <<assigned, kernel>>
      /\ cmd' = [cmd EXCEPT ![ContainerOf[a]] = r]
  BY DEF BeginAdd, At
<1>2. IfNameOf[a] \in Names /\ label \in Labels /\ "adding" \in Stati
  BY DEF Names, Labels, Stati, AddSteps
<1>3. r \in CmdType /\ r.pc = label /\ r.att = a /\ r.ifName = IfNameOf[a] /\ r.path
  BY <1>2, NoCmdType DEF CmdType, Labels
<1> HIDE DEF r
<1>4. CtlInv' /\ Frame(ContainerOf[a], a) /\ Begun(a, r.pc, "adding")
  BY <1>1, <1>2, <1>3, BeginFx
<1> QED
  BY <1>1, <1>3, <1>4

LEMMA BeginDelFx ==
  ASSUME CtlInv, NEW a \in Att, BeginDel(a)
  PROVE  /\ CtlInv' /\ Frame(ContainerOf[a], a)
         /\ Begun(a, IF a \in Layer3 THEN "ipamDel" ELSE "delMv", "deleting")
<1> DEFINE label == IF a \in Layer3 THEN "ipamDel" ELSE "delMv"
           r(p) == [NoCmd EXCEPT !.pc = label, !.att = a, !.ifName = IfNameOf[a], !.path = p]
<1>1. /\ cmd[ContainerOf[a]].pc = "idle"
      /\ status' = [status EXCEPT ![a] = "deleting"] /\ UNCHANGED <<assigned, kernel>>
  BY DEF BeginDel, At
<1>2. PICK path \in BOOLEAN :
          /\ path \/ ContainerOf[a] \notin netns
          /\ cmd' = [cmd EXCEPT ![ContainerOf[a]] = r(path)]
  BY DEF BeginDel
<1>3. IfNameOf[a] \in Names /\ label \in Labels /\ "deleting" \in Stati
  BY DEF Names, Labels, Stati, DelSteps
<1>4. /\ r(path) \in CmdType /\ r(path).pc = label /\ r(path).att = a
      /\ r(path).ifName = IfNameOf[a] /\ r(path).path = path
  BY <1>2, <1>3, NoCmdType DEF CmdType, Labels
<1> HIDE DEF r
<1>5. CtlInv' /\ Frame(ContainerOf[a], a) /\ Begun(a, r(path).pc, "deleting")
  BY <1>1, <1>2, <1>3, <1>4, BeginFx
<1> QED
  BY <1>4, <1>5

LEMMA IpamAddFx ==
  ASSUME CtlInv, NEW c \in Cont, IpamAdd(c)
  PROVE  /\ CtlInv' /\ Frame(c, cmd[c].att)
         /\ cmd[c].pc = "ipamAdd" /\ Moved(c, "bridge") /\ UNCHANGED <<kernel, status>>
         /\ assigned'[cmd[c].att] \in Results
         /\ \A b \in Att : assigned[b] \cap assigned'[cmd[c].att] = {}
<1>1. cmd[c].pc = "ipamAdd" /\ Goto(c, "bridge") /\ UNCHANGED <<kernel, status>>
  BY DEF IpamAdd, At
<1>2. TypeOK /\ CmdOK(c) /\ cmd[c].att \in Att
  BY <1>1, Running
<1>3. "bridge" \in Labels /\ Moved(c, "bridge")
  BY <1>1, <1>2, GotoFx DEF Labels, AddSteps
<1>4. PICK S \in Results : /\ \A b \in Att : assigned[b] \cap S = {}
                           /\ assigned' = [assigned EXCEPT ![cmd[c].att] = S]
  BY DEF IpamAdd, Pool!Assign
<1>5. S \in SUBSET IP
  BY DEF IP
<1>6. AsgFx(c) /\ assigned'[cmd[c].att] = S
  BY <1>2, <1>4, <1>5 DEF AsgFx, TypeOK
<1>7. CmdOK(c)'
  BY <1>1, <1>2, <1>3, WentOK DEF Moved, CmdOK, kernel, AddSteps, DelSteps, MvSteps, Half
<1>8. ProcFx(c) /\ LinkFx(c) /\ RuleFx(c) /\ NsFx(c)
  BY <1>1, <1>2, <1>3, SameFx DEF ProcFx, Moved, kernel
<1> QED
  BY <1>1, <1>3, <1>4, <1>6, <1>7, <1>8, StepShape

\* Steps that end the command and touch nothing else.
LEMMA EndFx ==
  ASSUME CtlInv, NEW c \in Cont, IpamAddFails(c) \/ IpamDelFails(c) \/ Crash(c)
  PROVE  /\ CtlInv' /\ Frame(c, cmd[c].att)
         /\ UNCHANGED <<assigned, kernel>> /\ cmd[c].pc # "idle"
         /\ \/ cmd[c].pc = "ipamAdd" /\ Answered(c, "addFailed")
            \/ cmd[c].pc = "ipamDel" /\ Answered(c, "delFailed")
            \/ Answered(c, "killed") /\ cmd[c].pc \in CrashAt
<1>1. /\ UNCHANGED <<assigned, kernel>>
      /\ \/ cmd[c].pc = "ipamAdd" /\ Answer(c, "addFailed")
         \/ cmd[c].pc = "ipamDel" /\ Answer(c, "delFailed")
         \/ cmd[c].pc \in CrashAt /\ Answer(c, "killed")
  BY DEF IpamAddFails, IpamDelFails, Crash, At, Fails
<1>2. cmd[c].pc # "idle"
  BY <1>1, VillageAssumption DEF AddSteps, DelSteps
<1>3. TypeOK /\ cmd[c].att \in Att
  BY <1>2, Running
<1>4. {"addFailed", "delFailed", "killed"} \subseteq Stati
  BY DEF Stati
<1>5. \/ cmd[c].pc = "ipamAdd" /\ Answered(c, "addFailed")
      \/ cmd[c].pc = "ipamDel" /\ Answered(c, "delFailed")
      \/ Answered(c, "killed") /\ cmd[c].pc \in CrashAt
  BY <1>1, <1>3, <1>4, AnswerFx
<1>6. ProcFx(c) /\ CmdOK(c)'
  BY <1>4, <1>5, AnsweredOK DEF ProcFx
<1>7. LinkFx(c) /\ RuleFx(c) /\ AsgFx(c) /\ NsFx(c)
  BY <1>1, <1>3, SameFx DEF kernel
<1> QED
  BY <1>1, <1>2, <1>5, <1>6, <1>7, StepShape

LEMMA SetupBridgeFx ==
  ASSUME CtlInv, NEW c \in Cont, SetupBridge(c)
  PROVE  /\ CtlInv' /\ Frame(c, cmd[c].att)
         /\ cmd[c].pc = "bridge" /\ Moved(c, "veth") /\ UNCHANGED <<assigned, kernel, status>>
<1>1. cmd[c].pc = "bridge" /\ Goto(c, "veth") /\ UNCHANGED <<assigned, kernel, status>>
  BY DEF SetupBridge, At
<1>2. TypeOK /\ CmdOK(c) /\ cmd[c].att \in Att
  BY <1>1, Running
<1>3. "veth" \in Labels /\ Moved(c, "veth")
  BY <1>1, <1>2, GotoFx DEF Labels, AddSteps
<1>4. CmdOK(c)'
  BY <1>1, <1>2, <1>3, WentOK DEF Moved, CmdOK, kernel, AddSteps, DelSteps, MvSteps, Half
<1>5. ProcFx(c) /\ LinkFx(c) /\ RuleFx(c) /\ AsgFx(c) /\ NsFx(c)
  BY <1>1, <1>2, <1>3, SameFx DEF ProcFx, Moved, kernel
<1> QED
  BY <1>1, <1>3, <1>4, <1>5, StepShape

\* ADD fails between two changes.
LEMMA FailFx ==
  ASSUME CtlInv, NEW c \in Cont,
         SetupBridgeFails(c) \/ SetGatewayFails(c) \/ PrintResultFails(c)
  PROVE  /\ CtlInv' /\ Frame(c, cmd[c].att)
         /\ cmd[c].pc \in {"bridge", "gateway", "print"} /\ Failed(c)
         /\ UNCHANGED <<assigned, kernel>>
<1>1. /\ cmd[c].pc \in {"bridge", "gateway", "print"} /\ AddFails(c)
      /\ UNCHANGED <<assigned, kernel>>
  BY DEF SetupBridgeFails, SetGatewayFails, PrintResultFails, Fails, At
<1>2. TypeOK /\ cmd[c].att \in Att /\ cmd[c].pc # "idle"
  BY <1>1, Running
<1>3. Failed(c)
  BY <1>1, <1>2, AddFailsFx
<1>4. ProcFx(c) /\ CmdOK(c)'
  BY <1>1, <1>3, FailedOK DEF kernel
<1>5. LinkFx(c) /\ RuleFx(c) /\ AsgFx(c) /\ NsFx(c)
  BY <1>1, <1>2, SameFx DEF kernel
<1> QED
  BY <1>1, <1>2, <1>3, <1>4, <1>5, StepShape

\* A step that sets one of the two links of the attachment.
LEMMA LinkedFx ==
  ASSUME CtlInv, NEW c \in Cont, cmd[c].pc # "idle", NEW i \in {IfNameOf[cmd[c].att], Mv},
         NEW addrs \in {NoLink} \cup SUBSET IP, SetLink(c, i, addrs),
         i = Mv => addrs = NoLink \/ cmd[c].att \in MacVlan,
         addrs = NoLink \/ c \in netns
  PROVE  Linked(c, i, addrs) /\ LinkFx(c)
<1>1. TypeOK /\ i \in Names
  BY Running
<1>2. Linked(c, i, addrs)
  BY <1>1, SetLinkFx
<1> QED
  BY <1>2 DEF LinkFx

LEMMA SetupVethFx ==
  ASSUME CtlInv, NEW c \in Cont, SetupVeth(c)
  PROVE  /\ CtlInv' /\ Frame(c, cmd[c].att)
         /\ cmd[c].pc = "veth" /\ Linked(c, IfNameOf[cmd[c].att], {})
         /\ Moved(c, IF cmd[c].att \in Layer3 THEN "configure" ELSE "print")
         /\ UNCHANGED <<assigned, jumps, chain, status>>
<1> DEFINE label == IF cmd[c].att \in Layer3 THEN "configure" ELSE "print"
<1>1. /\ cmd[c].pc = "veth" /\ SetLink(c, cmd[c].ifName, {}) /\ Goto(c, label)
      /\ UNCHANGED <<assigned, netns, unnamed, jumps, chain, status>>
  BY DEF SetupVeth, At
<1>2. TypeOK /\ CmdOK(c) /\ cmd[c].att \in Att
  BY <1>1, Running
<1>3. cmd[c].ifName = IfNameOf[cmd[c].att] /\ c \in netns
  BY <1>1, <1>2 DEF CmdOK, AddSteps, MvSteps
<1>4. label \in Labels /\ Moved(c, label)
  BY <1>1, <1>2, GotoFx DEF Labels, AddSteps
<1>5. Linked(c, IfNameOf[cmd[c].att], {}) /\ LinkFx(c)
  <2>1. IfNameOf[cmd[c].att] # Mv
    BY <1>1, Running
  <2> QED
    BY <1>1, <1>3, <2>1, LinkedFx
<1>6. CmdOK(c)'
  BY <1>1, <1>2, <1>3, <1>4, WentOK DEF Moved, AddSteps, DelSteps, MvSteps, Half
<1>7. ProcFx(c) /\ RuleFx(c) /\ AsgFx(c) /\ NsFx(c)
  BY <1>1, <1>2, <1>4, SameFx DEF ProcFx, Moved
<1> QED
  BY <1>1, <1>4, <1>5, <1>6, <1>7, StepShape

LEMMA SetupVethFailsFx ==
  ASSUME CtlInv, NEW c \in Cont, SetupVethFails(c)
  PROVE  /\ CtlInv' /\ Frame(c, cmd[c].att)
         /\ cmd[c].pc = "veth" /\ Failed(c)
         /\ link' = link \/ Linked(c, IfNameOf[cmd[c].att], {})
         /\ UNCHANGED <<assigned, jumps, chain>>
<1>1. /\ cmd[c].pc = "veth" /\ AddFails(c)
      /\ link' = link \/ SetLink(c, cmd[c].ifName, {})
      /\ UNCHANGED <<assigned, netns, unnamed, jumps, chain>>
  BY DEF SetupVethFails, At
<1>2. TypeOK /\ CmdOK(c) /\ cmd[c].att \in Att /\ IfNameOf[cmd[c].att] # Mv
  BY <1>1, Running
<1>3. cmd[c].ifName = IfNameOf[cmd[c].att] /\ c \in netns
  BY <1>1, <1>2 DEF CmdOK, AddSteps, MvSteps
<1>4. Failed(c)
  BY <1>1, <1>2, AddFailsFx
<1>5. (link' = link \/ Linked(c, IfNameOf[cmd[c].att], {})) /\ LinkFx(c)
  BY <1>1, <1>2, <1>3, LinkedFx, SameFx
<1>6. ProcFx(c) /\ CmdOK(c)' /\ RuleFx(c) /\ AsgFx(c) /\ NsFx(c)
  BY <1>1, <1>2, <1>4, FailedOK, SameFx
<1> QED
  BY <1>1, <1>4, <1>5, <1>6, StepShape

\* The addresses of the two interfaces.
LEMMA Split ==
  ASSUME CtlInv, NEW c \in Cont, cmd[c].pc # "idle"
  PROVE  BrIPs(c) \in SUBSET IP /\ MvOf(c) \in SUBSET IP
BY Running DEF TypeOK, BrIPs, MvOf

LEMMA ConfigureFx ==
  ASSUME CtlInv, NEW c \in Cont, Configure(c)
  PROVE  /\ CtlInv' /\ Frame(c, cmd[c].att)
         /\ cmd[c].pc = "configure" /\ Linked(c, IfNameOf[cmd[c].att], BrIPs(c))
         /\ Moved(c, "gateway") /\ UNCHANGED <<assigned, jumps, chain, status>>
<1>1. /\ cmd[c].pc = "configure" /\ SetLink(c, cmd[c].ifName, BrIPs(c)) /\ Goto(c, "gateway")
      /\ UNCHANGED <<assigned, netns, unnamed, jumps, chain, status>>
  BY DEF Configure, At
<1>2. TypeOK /\ CmdOK(c) /\ cmd[c].att \in Att /\ IfNameOf[cmd[c].att] # Mv
  BY <1>1, Running
<1>3. cmd[c].ifName = IfNameOf[cmd[c].att] /\ c \in netns /\ cmd[c].att \in Layer3
  BY <1>1, <1>2 DEF CmdOK, AddSteps, MvSteps
<1>4. "gateway" \in Labels /\ Moved(c, "gateway")
  BY <1>1, <1>2, GotoFx DEF Labels, AddSteps
<1>5. Linked(c, IfNameOf[cmd[c].att], BrIPs(c)) /\ LinkFx(c)
  BY <1>1, <1>2, <1>3, LinkedFx, Split
<1>6. CmdOK(c)'
  BY <1>1, <1>2, <1>3, <1>4, WentOK DEF Moved, AddSteps, DelSteps, MvSteps, Half
<1>7. ProcFx(c) /\ RuleFx(c) /\ AsgFx(c) /\ NsFx(c)
  BY <1>1, <1>2, <1>4, SameFx DEF ProcFx, Moved
<1> QED
  BY <1>1, <1>4, <1>5, <1>6, <1>7, StepShape

LEMMA ConfigureFailsFx ==
  ASSUME CtlInv, NEW c \in Cont, ConfigureFails(c)
  PROVE  /\ CtlInv' /\ Frame(c, cmd[c].att)
         /\ cmd[c].pc = "configure" /\ Failed(c)
         /\ \E S \in SUBSET BrIPs(c) : Linked(c, IfNameOf[cmd[c].att], S)
         /\ UNCHANGED <<assigned, jumps, chain>>
<1>1. /\ cmd[c].pc = "configure" /\ AddFails(c)
      /\ UNCHANGED <<assigned, netns, unnamed, jumps, chain>>
  BY DEF ConfigureFails, At
<1>2. PICK S \in SUBSET BrIPs(c) : SetLink(c, cmd[c].ifName, S)
  BY DEF ConfigureFails
<1>3. TypeOK /\ CmdOK(c) /\ cmd[c].att \in Att /\ IfNameOf[cmd[c].att] # Mv
  BY <1>1, Running
<1>4. cmd[c].ifName = IfNameOf[cmd[c].att] /\ c \in netns
  BY <1>1, <1>3 DEF CmdOK, AddSteps, MvSteps
<1>5. Failed(c)
  BY <1>1, <1>3, AddFailsFx
<1>6. Linked(c, IfNameOf[cmd[c].att], S) /\ LinkFx(c)
  <2>1. S \in SUBSET IP
    BY <1>1, Split
  <2> QED
    BY <1>1, <1>2, <1>3, <1>4, <2>1, LinkedFx
<1>7. ProcFx(c) /\ CmdOK(c)' /\ RuleFx(c) /\ AsgFx(c) /\ NsFx(c)
  BY <1>1, <1>3, <1>5, FailedOK, SameFx
<1> QED
  BY <1>1, <1>2, <1>5, <1>6, <1>7, StepShape

LEMMA SetGatewayFx ==
  ASSUME CtlInv, NEW c \in Cont, SetGateway(c)
  PROVE  /\ CtlInv' /\ Frame(c, cmd[c].att)
         /\ cmd[c].pc = "gateway" /\ UNCHANGED <<assigned, kernel, status>>
         /\ \/ IPMasq /\ Went(c, "masq", cmd[c].ifName, BrIPs(c))
            \/ ~IPMasq /\ Went(c, "print", cmd[c].ifName, {})
<1> DEFINE label == IF IPMasq THEN "masq" ELSE "print"
           todo == IF IPMasq THEN BrIPs(c) ELSE {}
           r == [cmd[c] EXCEPT !.pc = label, !.todo = todo]
<1>1. /\ cmd[c].pc = "gateway" /\ UNCHANGED <<assigned, kernel, status>>
      /\ cmd' = [cmd EXCEPT ![c] = r]
  BY DEF SetGateway, At
<1>2. TypeOK /\ CmdOK(c) /\ cmd[c].att \in Att /\ cmd[c] \in CmdType
  BY <1>1, Running
<1>3. cmd[c].ifName = IfNameOf[cmd[c].att] /\ cmd[c].att \in Layer3
  BY <1>1, <1>2 DEF CmdOK, MvSteps
<1>4. label \in Labels /\ todo \in SUBSET IP
  BY <1>1, Split DEF Labels, AddSteps
<1>5. /\ r \in CmdType /\ r.pc = label /\ r.todo = todo /\ r.att = cmd[c].att
      /\ r.path = cmd[c].path /\ r.ifName = cmd[c].ifName
  BY <1>2, <1>4 DEF CmdType, Labels
<1> HIDE DEF r
<1>6. Went(c, label, cmd[c].ifName, todo)
  BY <1>1, <1>2, <1>5, WentFx
<1>7. CmdOK(c)'
  BY <1>1, <1>3, <1>4, <1>6, WentOK DEF AddSteps, DelSteps, MvSteps, Half, kernel
<1>8. ProcFx(c) /\ LinkFx(c) /\ RuleFx(c) /\ AsgFx(c) /\ NsFx(c)
  BY <1>1, <1>2, <1>4, <1>6, SameFx DEF ProcFx, kernel
<1> QED
  BY <1>1, <1>6, <1>7, <1>8, StepShape

LEMMA FamilyFx == \A ip : Family(ip) \in {4, 6}
BY DEF Family

LEMMA SetupIPMasqFx ==
  ASSUME CtlInv, NEW c \in Cont, SetupIPMasq(c)
  PROVE  /\ CtlInv' /\ Frame(c, cmd[c].att)
         /\ cmd[c].pc = "masq" /\ UNCHANGED <<assigned, link, status>>
         /\ \E ip \in cmd[c].todo :
               /\ Chained(ChainOf[cmd[c].att], Family(ip), "masq")
               /\ Jumped(ChainOf[cmd[c].att], jumps[ChainOf[cmd[c].att]] \cup {ip})
               /\ Went(c, IF cmd[c].todo = {ip} THEN "print" ELSE "masq",
                       cmd[c].ifName, cmd[c].todo \ {ip})
<1> DEFINE ch == ChainOf[cmd[c].att]
           label(ip) == IF cmd[c].todo = {ip} THEN "print" ELSE "masq"
           r(ip) == [cmd[c] EXCEPT !.todo = cmd[c].todo \ {ip}, !.pc = label(ip)]
<1>1. cmd[c].pc = "masq" /\ UNCHANGED <<assigned, netns, link, unnamed, status>>
  BY DEF SetupIPMasq, At
<1>2. PICK ip \in cmd[c].todo :
         /\ chain' = [chain EXCEPT ![ch][Family(ip)] = "masq"]
         /\ jumps' = [jumps EXCEPT ![ch] = jumps[ch] \cup {ip}]
         /\ cmd' = [cmd EXCEPT ![c] = r(ip)]
  BY DEF SetupIPMasq
<1>3. TypeOK /\ CmdOK(c) /\ cmd[c].att \in Att /\ cmd[c] \in CmdType /\ ch \in Chains
  BY <1>1, Running
<1>4. cmd[c].ifName = IfNameOf[cmd[c].att] /\ cmd[c].att \in Layer3
  BY <1>1, <1>3 DEF CmdOK, MvSteps
<1>5. label(ip) \in Labels /\ cmd[c].todo \in SUBSET IP
  BY <1>3 DEF Labels, AddSteps, CmdType
<1>6. /\ r(ip) \in CmdType /\ r(ip).pc = label(ip) /\ r(ip).todo = cmd[c].todo \ {ip}
      /\ r(ip).att = cmd[c].att /\ r(ip).path = cmd[c].path /\ r(ip).ifName = cmd[c].ifName
  BY <1>3, <1>5 DEF CmdType, Labels
<1> HIDE DEF r
<1>7. Went(c, label(ip), cmd[c].ifName, cmd[c].todo \ {ip})
  BY <1>2, <1>3, <1>6, WentFx
<1>8. CmdOK(c)'
  BY <1>1, <1>4, <1>5, <1>7, WentOK DEF AddSteps, DelSteps, MvSteps, Half
<1>9. Chained(ch, Family(ip), "masq")
  <2>1. Family(ip) \in {4, 6} /\ "masq" \in {"none", "bare", "masq"}
    BY FamilyFx
  <2>2. chain' = [chain EXCEPT ![ch][Family(ip)] = "masq"]
    BY <1>2
  <2> HIDE DEF ch
  <2> QED
    BY <1>3, <2>1, <2>2, ChainFx
<1>10. Jumped(ch, jumps[ch] \cup {ip})
  <2>1. jumps[ch] \cup {ip} \in SUBSET IP
    BY <1>2, <1>3, <1>5 DEF TypeOK
  <2> QED
    BY <1>2, <1>3, <2>1, JumpFx
<1>11. RuleFx(c)
  BY <1>9, <1>10 DEF RuleFx, Chained, Jumped
<1>12. ProcFx(c) /\ LinkFx(c) /\ AsgFx(c) /\ NsFx(c)
  BY <1>1, <1>3, <1>5, <1>7, SameFx DEF ProcFx
<1> QED
  BY <1>1, <1>2, <1>7, <1>8, <1>9, <1>10, <1>11, <1>12, StepShape

LEMMA SetupIPMasqFailsFx ==
  ASSUME CtlInv, NEW c \in Cont, SetupIPMasqFails(c)
  PROVE  /\ CtlInv' /\ Frame(c, cmd[c].att)
         /\ cmd[c].pc = "masq" /\ Failed(c) /\ UNCHANGED <<assigned, link, jumps>>
         /\ \/ chain' = chain
            \/ \E ip \in cmd[c].todo :
                  \E v \in {"masq", "bare", chain[ChainOf[cmd[c].att]][Family(ip)]} :
                     Chained(ChainOf[cmd[c].att], Family(ip), v)
<1> DEFINE ch == ChainOf[cmd[c].att]
<1>1. cmd[c].pc = "masq" /\ AddFails(c) /\ UNCHANGED <<assigned, netns, link, unnamed, jumps>>
  BY DEF SetupIPMasqFails, Fails, At
<1>2. TypeOK /\ CmdOK(c) /\ cmd[c].att \in Att /\ ch \in Chains
  BY <1>1, Running
<1>3. PICK ip \in cmd[c].todo :
         \/ chain' = chain
         \/ \E v \in {"masq", "bare", chain[ch][Family(ip)]} : chain' = [chain EXCEPT ![ch][Family(ip)] = v]
  BY DEF SetupIPMasqFails
<1>4. chain[ch][Family(ip)] \in {"none", "bare", "masq"}
  BY <1>2, FamilyFx DEF TypeOK
<1>5. \/ chain' = chain
      \/ \E v \in {"masq", "bare", chain[ch][Family(ip)]} : Chained(ch, Family(ip), v)
  BY <1>2, <1>3, <1>4, FamilyFx, ChainFx
<1>6. RuleFx(c)
  BY <1>1, <1>2, <1>5 DEF RuleFx, Chained, TypeOK
<1>7. Failed(c)
  BY <1>1, <1>2, AddFailsFx
<1>8. ProcFx(c) /\ CmdOK(c)' /\ LinkFx(c) /\ AsgFx(c) /\ NsFx(c)
  BY <1>1, <1>2, <1>7, FailedOK, SameFx
<1> QED
  BY <1>1, <1>3, <1>5, <1>6, <1>7, <1>8, StepShape

LEMMA PrintResultFx ==
  ASSUME CtlInv, NEW c \in Cont, PrintResult(c)
  PROVE  /\ CtlInv' /\ Frame(c, cmd[c].att)
         /\ cmd[c].pc = "print" /\ UNCHANGED <<assigned, kernel>>
         /\ \/ /\ cmd[c].att \in Layer3 \cap MacVlan /\ MvOf(c) # {}
               /\ Went(c, "macvlan", Mv, cmd[c].todo) /\ status' = status
            \/ /\ ~(cmd[c].att \in Layer3 \cap MacVlan /\ MvOf(c) # {})
               /\ Answered(c, "ready")
<1>1. cmd[c].pc = "print" /\ UNCHANGED <<assigned, kernel>>
  BY DEF PrintResult, At
<1>2. TypeOK /\ CmdOK(c) /\ cmd[c].att \in Att /\ cmd[c] \in CmdType
  BY <1>1, Running
<1>3. LinkFx(c) /\ RuleFx(c) /\ AsgFx(c) /\ NsFx(c)
  BY <1>1, <1>2, SameFx DEF kernel
<1>4. CASE cmd[c].att \in Layer3 \cap MacVlan /\ MvOf(c) # {}
  <2> DEFINE r == [cmd[c] EXCEPT !.pc = "macvlan", !.ifName = Mv, !.prints = 1]
  <2>1. cmd' = [cmd EXCEPT ![c] = r] /\ status' = status
    BY <1>4 DEF PrintResult
  <2>2. /\ r \in CmdType /\ r.pc = "macvlan" /\ r.todo = cmd[c].todo /\ r.att = cmd[c].att
        /\ r.path = cmd[c].path /\ r.ifName = Mv
    <3>1. "macvlan" \in Labels /\ Mv \in Names /\ 1 \in 0 .. 1
      BY DEF Labels, AddSteps, Names
    <3> QED
      BY <1>2, <3>1 DEF CmdType, Labels
  <2> HIDE DEF r
  <2>3. Went(c, "macvlan", Mv, cmd[c].todo) /\ "macvlan" \in Labels
    BY <1>2, <2>1, <2>2, WentFx DEF Labels, AddSteps
  <2>4. CmdOK(c)' /\ ProcFx(c)
    BY <1>1, <1>4, <2>1, <2>3, WentOK DEF AddSteps, DelSteps, MvSteps, Half, kernel, ProcFx
  <2> QED
    BY <1>1, <1>3, <1>4, <2>1, <2>3, <2>4, StepShape
<1>5. CASE ~(cmd[c].att \in Layer3 \cap MacVlan /\ MvOf(c) # {})
  <2>1. Answer(c, "ready")
    BY <1>5 DEF PrintResult, Succeed
  <2>2. Answered(c, "ready") /\ "ready" \in Stati
    BY <1>2, <2>1, AnswerFx DEF Stati
  <2>3. CmdOK(c)' /\ ProcFx(c)
    BY <2>2, AnsweredOK DEF ProcFx
  <2> QED
    BY <1>1, <1>3, <1>5, <2>2, <2>3, StepShape
<1> QED
  BY <1>4, <1>5

\* A macvlan has been made, or its temporary name is gone.
Counted(c, n) == unnamed' = [unnamed EXCEPT ![c] = n]

LEMMA CountFx ==
  ASSUME TypeOK, NEW c \in Cont, NEW n \in 0 .. MaxUnnamed, Counted(c, n), netns' = netns
  PROVE  NsFx(c) /\ unnamed'[c] = n
BY DEF TypeOK, Counted, NsFx

\* What is known of a step that makes or names the macvlan.
LEMMA MakingMacvlan ==
  ASSUME CtlInv, NEW c \in Cont, cmd[c].pc \in {"macvlan", "rename", "unmake"},
         NEW label \in {"rename", "unmake", "configureMv", "undoLink"}, Goto(c, label),
         label \in Half => unnamed'[c] # 0,
         LinkFx(c), NsFx(c), UNCHANGED <<assigned, jumps, chain, status>>
  PROVE  CtlInv' /\ Frame(c, cmd[c].att) /\ Moved(c, label)
<1>1. TypeOK /\ CmdOK(c) /\ cmd[c].att \in Att
  BY Running
<1>2. cmd[c].ifName = Mv /\ cmd[c].att \in Layer3 /\ cmd[c].att \in MacVlan
  BY <1>1 DEF CmdOK, MvSteps
<1>3. label \in Labels /\ Moved(c, label)
  BY <1>1, GotoFx DEF Labels, AddSteps
<1>4. CmdOK(c)'
  BY <1>2, <1>3, WentOK DEF Moved, AddSteps, DelSteps, MvSteps, Half, NsFx
<1>5. ProcFx(c) /\ RuleFx(c) /\ AsgFx(c)
  BY <1>1, <1>3, SameFx DEF ProcFx, Moved
<1> QED
  BY <1>3, <1>4, <1>5, StepShape

LEMMA CreateMacvlanFx ==
  ASSUME CtlInv, NEW c \in Cont, CreateMacvlan(c) \/ CreateMacvlanFails(c)
  PROVE  /\ CtlInv' /\ Frame(c, cmd[c].att)
         /\ cmd[c].pc = "macvlan" /\ UNCHANGED <<assigned, link, jumps, chain, status>>
         /\ \/ Moved(c, "rename") /\ unnamed'[c] = unnamed[c] + 1
            \/ Moved(c, "undoLink") /\ unnamed'[c] = unnamed[c]
<1>1. /\ cmd[c].pc = "macvlan" /\ UNCHANGED <<assigned, netns, link, jumps, chain, status>>
      /\ \/ Goto(c, "rename") /\ unnamed[c] < MaxUnnamed /\ Counted(c, unnamed[c] + 1)
         \/ Goto(c, "undoLink") /\ unnamed' = unnamed
  BY DEF CreateMacvlan, CreateMacvlanFails, Fails, At, kernel, Counted
<1>2. TypeOK /\ unnamed[c] \in 0 .. MaxUnnamed
  BY <1>1, Running DEF TypeOK
<1>3. CASE Goto(c, "rename") /\ unnamed[c] < MaxUnnamed /\ Counted(c, unnamed[c] + 1)
  <2>1. unnamed[c] + 1 \in 0 .. MaxUnnamed
    BY <1>2, <1>3, VillageAssumption
  <2>2. NsFx(c) /\ LinkFx(c) /\ unnamed'[c] = unnamed[c] + 1
    BY <1>1, <1>2, <1>3, <2>1, CountFx, SameFx
  <2> QED
    BY <1>1, <1>2, <1>3, <2>2, MakingMacvlan DEF Half
<1>4. CASE Goto(c, "undoLink") /\ unnamed' = unnamed
  <2>1. NsFx(c) /\ LinkFx(c)
    BY <1>1, <1>2, <1>4, SameFx
  <2> QED
    BY <1>1, <1>4, <2>1, MakingMacvlan DEF Half
<1> QED
  BY <1>1, <1>3, <1>4

LEMMA RenameFx ==
  ASSUME CtlInv, NEW c \in Cont, RenameMacvlan(c) \/ RenameMacvlanFails(c)
  PROVE  /\ CtlInv' /\ Frame(c, cmd[c].att)
         /\ cmd[c].pc = "rename" /\ UNCHANGED <<assigned, jumps, chain, status>>
         /\ \/ /\ Linked(c, Mv, {}) /\ unnamed'[c] = unnamed[c] - 1
               /\ Moved(c, "configureMv") \/ Moved(c, "undoLink")
            \/ link' = link /\ unnamed'[c] = unnamed[c] /\ Moved(c, "unmake")
<1>1. /\ cmd[c].pc = "rename" /\ UNCHANGED <<assigned, netns, jumps, chain, status>>
      /\ \/ Goto(c, "unmake") /\ UNCHANGED <<link, unnamed>>
         \/ /\ Goto(c, "configureMv") \/ Goto(c, "undoLink")
            /\ SetLink(c, Mv, {}) /\ Counted(c, unnamed[c] - 1)
  BY DEF RenameMacvlan, RenameMacvlanFails, Rename, Fails, At, Counted
<1>2. TypeOK /\ CmdOK(c) /\ unnamed[c] \in 1 .. MaxUnnamed
  <2>1. TypeOK /\ CmdOK(c)
    BY <1>1, Running
  <2>2. unnamed[c] \in 0 .. MaxUnnamed /\ unnamed[c] # 0
    BY <1>1, <2>1 DEF TypeOK, CmdOK, Half
  <2> QED
    BY <2>1, <2>2, VillageAssumption
<1>3. CASE Goto(c, "unmake") /\ UNCHANGED <<link, unnamed>>
  <2>1. NsFx(c) /\ LinkFx(c)
    BY <1>1, <1>2, <1>3, SameFx
  <2> QED
    BY <1>1, <1>2, <1>3, <2>1, MakingMacvlan
<1>4. CASE /\ Goto(c, "configureMv") \/ Goto(c, "undoLink")
           /\ SetLink(c, Mv, {}) /\ Counted(c, unnamed[c] - 1)
  <2>1. unnamed[c] - 1 \in 0 .. MaxUnnamed
    BY <1>2, VillageAssumption
  <2>2. NsFx(c) /\ unnamed'[c] = unnamed[c] - 1
    BY <1>1, <1>2, <1>4, <2>1, CountFx
  <2>3. cmd[c].att \in MacVlan /\ c \in netns
    BY <1>1, <1>2 DEF CmdOK, MvSteps, AddSteps
  <2>4. Linked(c, Mv, {}) /\ LinkFx(c)
    BY <1>1, <1>4, <2>3, LinkedFx
  <2> QED
    BY <1>1, <1>4, <2>2, <2>4, MakingMacvlan DEF Half
<1> QED
  BY <1>1, <1>3, <1>4

LEMMA UnmakeFx ==
  ASSUME CtlInv, NEW c \in Cont, Unmake(c)
  PROVE  /\ CtlInv' /\ Frame(c, cmd[c].att)
         /\ cmd[c].pc = "unmake" /\ UNCHANGED <<assigned, link, jumps, chain, status>>
         /\ Moved(c, "undoLink")
         /\ \/ unnamed'[c] = unnamed[c] - 1
            \/ unnamed'[c] = unnamed[c] /\ "unmake" \in MayFail
<1>1. /\ cmd[c].pc = "unmake" /\ UNCHANGED <<assigned, netns, link, jumps, chain, status>>
      /\ Goto(c, "undoLink")
      /\ Counted(c, unnamed[c] - 1) \/ (unnamed' = unnamed /\ "unmake" \in MayFail)
  BY DEF Unmake, At, Counted
<1>2. TypeOK /\ unnamed[c] - 1 \in 0 .. MaxUnnamed
  <2>1. TypeOK /\ CmdOK(c)
    BY <1>1, Running
  <2>2. unnamed[c] \in 0 .. MaxUnnamed /\ unnamed[c] # 0
    BY <1>1, <2>1 DEF TypeOK, CmdOK, Half
  <2> QED
    BY <2>1, <2>2, VillageAssumption
<1>3. /\ NsFx(c) /\ LinkFx(c)
      /\ unnamed'[c] = unnamed[c] - 1 \/ (unnamed'[c] = unnamed[c] /\ "unmake" \in MayFail)
  BY <1>1, <1>2, CountFx, SameFx
<1> QED
  BY <1>1, <1>3, MakingMacvlan DEF Half

LEMMA ConfigureMacvlanFx ==
  ASSUME CtlInv, NEW c \in Cont, ConfigureMacvlan(c)
  PROVE  /\ CtlInv' /\ Frame(c, cmd[c].att)
         /\ cmd[c].pc = "configureMv" /\ UNCHANGED <<assigned, jumps, chain>>
         /\ Linked(c, Mv, MvOf(c))
         /\ Answered(c, "ready") \/ Answered(c, "garbled")
<1>1. /\ cmd[c].pc = "configureMv" /\ UNCHANGED <<assigned, netns, unnamed, jumps, chain>>
      /\ SetLink(c, Mv, MvOf(c))
      /\ Answer(c, "ready") \/ Answer(c, "garbled")
  BY DEF ConfigureMacvlan, At, Succeed
<1>2. TypeOK /\ CmdOK(c) /\ cmd[c].att \in Att
  BY <1>1, Running
<1>3. cmd[c].att \in MacVlan /\ c \in netns
  BY <1>1, <1>2 DEF CmdOK, MvSteps, AddSteps
<1>4. {"ready", "garbled"} \subseteq Stati
  BY DEF Stati
<1>5. Answered(c, "ready") \/ Answered(c, "garbled")
  BY <1>1, <1>2, <1>4, AnswerFx
<1>6. Linked(c, Mv, MvOf(c)) /\ LinkFx(c)
  BY <1>1, <1>3, LinkedFx, Split
<1>7. CmdOK(c)' /\ ProcFx(c)
  BY <1>4, <1>5, AnsweredOK DEF ProcFx
<1>8. RuleFx(c) /\ AsgFx(c) /\ NsFx(c)
  BY <1>1, <1>2, SameFx
<1> QED
  BY <1>1, <1>5, <1>6, <1>7, <1>8, StepShape

LEMMA ConfigureMacvlanFailsFx ==
  ASSUME CtlInv, NEW c \in Cont, ConfigureMacvlanFails(c)
  PROVE  /\ CtlInv' /\ Frame(c, cmd[c].att)
         /\ cmd[c].pc = "configureMv" /\ UNCHANGED <<assigned, jumps, chain, status>>
         /\ Linked(c, Mv, NoLink) \/ Linked(c, Mv, MvOf(c))
         /\ Moved(c, "undoLink")
<1>1. /\ cmd[c].pc = "configureMv" /\ UNCHANGED <<assigned, netns, unnamed, jumps, chain, status>>
      /\ SetLink(c, Mv, NoLink) \/ SetLink(c, Mv, MvOf(c))
      /\ Goto(c, "undoLink")
  BY DEF ConfigureMacvlanFails, Fails, At
<1>2. TypeOK /\ CmdOK(c) /\ cmd[c].att \in Att
  BY <1>1, Running
<1>3. cmd[c].ifName = Mv /\ cmd[c].att \in Layer3 /\ cmd[c].att \in MacVlan /\ c \in netns
  BY <1>1, <1>2 DEF CmdOK, MvSteps, AddSteps
<1>4. "undoLink" \in Labels /\ Moved(c, "undoLink")
  BY <1>1, <1>2, GotoFx DEF Labels, AddSteps
<1>5. (Linked(c, Mv, NoLink) \/ Linked(c, Mv, MvOf(c))) /\ LinkFx(c)
  BY <1>1, <1>3, LinkedFx, Split
<1>6. CmdOK(c)'
  BY <1>1, <1>3, <1>4, WentOK DEF Moved, AddSteps, DelSteps, MvSteps, Half
<1>7. ProcFx(c) /\ RuleFx(c) /\ AsgFx(c) /\ NsFx(c)
  BY <1>1, <1>2, <1>4, SameFx DEF ProcFx, Moved
<1> QED
  BY <1>1, <1>4, <1>5, <1>6, <1>7, StepShape

LEMMA DelLinkFx ==
  ASSUME CtlInv, NEW c \in Cont, DelLink(c)
  PROVE  /\ CtlInv' /\ Frame(c, cmd[c].att)
         /\ Linked(c, cmd[c].ifName, NoLink) /\ UNCHANGED <<assigned, jumps, chain>>
         /\ \/ /\ cmd[c].pc = "delLink" /\ cmd[c].ifName = IfNameOf[cmd[c].att]
               /\ link[c][cmd[c].ifName] \notin {NoLink, {}} /\ IPMasq /\ cmd[c].att \in Layer3
               /\ Went(c, "delMasq", cmd[c].ifName, link[c][cmd[c].ifName]) /\ status' = status
            \/ /\ cmd[c].pc = "delLink" /\ cmd[c].ifName = IfNameOf[cmd[c].att]
               /\ link[c][cmd[c].ifName] \in {NoLink, {}} \/ ~IPMasq \/ cmd[c].att \notin Layer3
               /\ Answered(c, "none")
            \/ /\ cmd[c].pc = "undoLink" /\ cmd[c].ifName = Mv /\ status' = status
               /\ Moved(c, "undoIpam") \/ \E todo : Went(c, "undoMasq", Mv, todo)
<1> DEFINE addrs == link[c][cmd[c].ifName]
           masq == IF addrs = NoLink \/ ~IPMasq \/ cmd[c].att \notin Layer3 THEN {} ELSE addrs
           label == IF cmd[c].pc = "delLink" THEN "delMasq" ELSE "undoMasq"
           r == [cmd[c] EXCEPT !.todo = masq, !.pc = label]
<1>1. /\ cmd[c].pc \in {"delLink", "undoLink"} /\ SetLink(c, cmd[c].ifName, NoLink)
      /\ UNCHANGED <<assigned, netns, unnamed, jumps, chain>>
      /\ \/ masq # {} /\ cmd' = [cmd EXCEPT ![c] = r] /\ status' = status
         \/ masq = {} /\ DelReturns(c, TRUE)
  BY DEF DelLink, At
<1>2. /\ TypeOK /\ CmdOK(c) /\ cmd[c].att \in Att /\ cmd[c] \in CmdType
      /\ IfNameOf[cmd[c].att] \in Names /\ IfNameOf[cmd[c].att] # Mv /\ Mv \in Names
  BY <1>1, Running
<1>3. /\ cmd[c].pc = "delLink" => cmd[c].ifName = IfNameOf[cmd[c].att]
      /\ cmd[c].pc = "undoLink" => cmd[c].ifName = Mv /\ cmd[c].att \in Layer3 /\ cmd[c].att \in MacVlan
  BY <1>2 DEF CmdOK, MvSteps
<1>4. cmd[c].ifName \in {IfNameOf[cmd[c].att], Mv} /\ cmd[c].ifName \in Names
  BY <1>1, <1>2, <1>3
<1>5. Linked(c, cmd[c].ifName, NoLink) /\ LinkFx(c)
  BY <1>1, <1>4, LinkedFx
<1>6. RuleFx(c) /\ AsgFx(c) /\ NsFx(c)
  BY <1>1, <1>2, SameFx
<1>7. CASE masq # {} /\ cmd' = [cmd EXCEPT ![c] = r] /\ status' = status
  <2>1. masq \in SUBSET IP /\ label \in Labels
    BY <1>2, <1>4 DEF TypeOK, Labels, AddSteps, DelSteps
  <2>2. masq = addrs /\ addrs \notin {NoLink, {}} /\ IPMasq /\ cmd[c].att \in Layer3
    BY <1>7
  <2> HIDE DEF masq
  <2>3. /\ r \in CmdType /\ r.pc = label /\ r.todo = masq /\ r.att = cmd[c].att
        /\ r.path = cmd[c].path /\ r.ifName = cmd[c].ifName
    BY <1>2, <2>1 DEF CmdType, Labels
  <2> HIDE DEF r
  <2>4. Went(c, label, cmd[c].ifName, masq)
    BY <1>2, <1>7, <2>3, WentFx
  <2>5. CmdOK(c)'
    BY <1>1, <1>3, <1>7, <2>1, <2>2, <2>4, WentOK DEF AddSteps, DelSteps, MvSteps, Half
  <2>6. ProcFx(c)
    BY <1>7, <2>1, <2>4 DEF ProcFx
  <2>7. CtlInv' /\ Frame(c, cmd[c].att)
    BY <1>1, <1>5, <1>6, <2>5, <2>6, StepShape
  <2> QED
    BY <1>1, <1>3, <1>5, <1>7, <2>2, <2>4, <2>7
<1>8. CASE masq = {} /\ DelReturns(c, TRUE)
  <2>1. Returned(c, TRUE)
    BY <1>2, <1>8, DelReturnsFx
  <2>2. addrs \in {NoLink, {}} \/ ~IPMasq \/ cmd[c].att \notin Layer3
    BY <1>8
  <2>3. /\ ProcFx(c) /\ CmdOK(c)'
        /\ \/ /\ cmd[c].pc \in {"undoLink", "undoMasq"}
              /\ Moved(c, "undoIpam") /\ status' = status
           \/ /\ cmd[c].pc \in {"delLink", "delMasq"}
              /\ Answered(c, "none")
    BY <1>1, <2>1, ReturnedOK
  <2>4. CtlInv' /\ Frame(c, cmd[c].att)
    BY <1>1, <1>5, <1>6, <2>3, StepShape
  <2> QED
    BY <1>1, <1>3, <1>5, <2>2, <2>3, <2>4
<1> QED
  BY <1>1, <1>7, <1>8

\* bridge.Del returns without having changed anything.
LEMMA DelLinkEndsFx ==
  ASSUME CtlInv, NEW c \in Cont, DelLinkWithoutNetns(c) \/ DelLinkFails(c)
  PROVE  /\ CtlInv' /\ Frame(c, cmd[c].att) /\ UNCHANGED <<assigned, kernel>>
         /\ \/ /\ cmd[c].pc = "undoLink" /\ "undoLink" \in MayFail
               /\ Moved(c, "undoIpam") /\ status' = status
            \/ cmd[c].pc = "delLink" /\ c \notin netns /\ Answered(c, "none")
            \/ cmd[c].pc = "delLink" /\ Answered(c, "delFailed")
<1>1. /\ cmd[c].pc \in {"delLink", "undoLink"} /\ UNCHANGED <<assigned, kernel>>
      /\ \/ cmd[c].pc = "delLink" /\ ~cmd[c].path /\ DelReturns(c, TRUE)
         \/ (c \notin netns \/ cmd[c].pc \in MayFail) /\ DelReturns(c, FALSE)
  BY DEF DelLinkWithoutNetns, DelLinkFails, At
<1>2. TypeOK /\ CmdOK(c) /\ cmd[c].att \in Att
  BY <1>1, Running
<1>3. /\ cmd[c].pc = "undoLink" => c \in netns
      /\ ~cmd[c].path => c \notin netns
  BY <1>1, <1>2 DEF CmdOK, AddSteps
<1>4. \/ cmd[c].pc = "delLink" /\ c \notin netns /\ Returned(c, TRUE)
      \/ (cmd[c].pc = "undoLink" => "undoLink" \in MayFail) /\ Returned(c, FALSE)
  BY <1>1, <1>2, <1>3, DelReturnsFx
<1>5. /\ ProcFx(c) /\ CmdOK(c)'
      /\ \/ /\ cmd[c].pc = "undoLink" /\ "undoLink" \in MayFail
            /\ Moved(c, "undoIpam") /\ status' = status
         \/ cmd[c].pc = "delLink" /\ c \notin netns /\ Answered(c, "none")
         \/ cmd[c].pc = "delLink" /\ Answered(c, "delFailed")
  BY <1>1, <1>4, ReturnedOK DEF kernel
<1>6. LinkFx(c) /\ RuleFx(c) /\ AsgFx(c) /\ NsFx(c)
  BY <1>1, <1>2, SameFx DEF kernel
<1> QED
  BY <1>1, <1>5, <1>6, StepShape

\* The body of TeardownIPMasq: one address of those that are left.
TeardownOf(c, ip) ==
    LET ch    == ChainOf[cmd[c].att]
        f     == Family(ip)
        used  == \E x \in jumps[ch] \ {ip} : Family(x) = f
        ok    == chain[ch][f] # "none" /\ ~used
        after == IF used THEN "bare" ELSE "none"
    IN  /\ IF chain[ch][f] = "none"
           THEN UNCHANGED <<jumps, chain>>
           ELSE /\ jumps' = [jumps EXCEPT ![ch] = @ \ {ip}]
                /\ chain' = [chain EXCEPT ![ch][f] = after]
        /\ IF ok /\ cmd[c].todo # {ip}
           THEN cmd' = [cmd EXCEPT ![c].todo = @ \ {ip}] /\ UNCHANGED status
           ELSE DelReturns(c, ok)

\* Its rule names a chain that is not there, and bridge.Del returns.
Refused(c) ==
    /\ \E ip \in cmd[c].todo : chain[ChainOf[cmd[c].att]][Family(ip)] = "none"
    /\ UNCHANGED <<jumps, chain>>
    /\ \/ cmd[c].pc = "undoMasq" /\ Moved(c, "undoIpam") /\ status' = status
       \/ cmd[c].pc = "delMasq" /\ Answered(c, "delFailed")

\* Its rule is gone, and the chain is deleted or, in use, left empty.
Removed(c, ip, used) ==
    /\ used <=> \E x \in jumps[ChainOf[cmd[c].att]] \ {ip} : Family(x) = Family(ip)
    /\ Jumped(ChainOf[cmd[c].att], jumps[ChainOf[cmd[c].att]] \ {ip})
    /\ Chained(ChainOf[cmd[c].att], Family(ip), IF used THEN "bare" ELSE "none")
    /\ \/ /\ cmd[c].pc = "undoMasq" /\ Moved(c, "undoIpam") /\ status' = status
       \/ /\ cmd[c].pc = "delMasq" /\ (used \/ cmd[c].todo = {ip})
          /\ Answered(c, IF used THEN "delFailed" ELSE "none")
       \/ /\ Went(c, cmd[c].pc, cmd[c].ifName, cmd[c].todo \ {ip})
          /\ status' = status

\* TeardownIPMasq of one address, for DEL and for the undoing of ADD.
LEMMA TeardownFx ==
  ASSUME CtlInv, NEW c \in Cont, TeardownIPMasq(c)
  PROVE  /\ CtlInv' /\ Frame(c, cmd[c].att)
         /\ cmd[c].pc \in {"delMasq", "undoMasq"} /\ UNCHANGED <<assigned, link>>
         /\ Refused(c) \/ \E ip \in cmd[c].todo, used \in BOOLEAN : Removed(c, ip, used)
<1> DEFINE ch == ChainOf[cmd[c].att]
           uses(ip) == \E x \in jumps[ch] \ {ip} : Family(x) = Family(ip)
           r(ip) == [cmd[c] EXCEPT !.todo = cmd[c].todo \ {ip}]
<1>1. cmd[c].pc \in {"delMasq", "undoMasq"} /\ UNCHANGED <<assigned, netns, link, unnamed>>
  BY DEF TeardownIPMasq, At
<1>2. PICK ip \in cmd[c].todo :
         \/ /\ chain[ch][Family(ip)] = "none" /\ UNCHANGED <<jumps, chain>>
            /\ DelReturns(c, FALSE)
         \/ /\ jumps' = [jumps EXCEPT ![ch] = jumps[ch] \ {ip}]
            /\ chain' = [chain EXCEPT ![ch][Family(ip)] = IF uses(ip) THEN "bare" ELSE "none"]
            /\ \/ uses(ip) /\ DelReturns(c, FALSE)
               \/ ~uses(ip) /\ cmd[c].todo = {ip} /\ DelReturns(c, TRUE)
               \/ cmd' = [cmd EXCEPT ![c] = r(ip)] /\ status' = status
  <2>1. PICK ip \in cmd[c].todo : TeardownOf(c, ip)
    BY DEF TeardownIPMasq, TeardownOf
  <2>2. CASE chain[ch][Family(ip)] = "none"
    BY <2>1, <2>2 DEF TeardownOf
  <2>3. CASE chain[ch][Family(ip)] # "none" /\ uses(ip)
    BY <2>1, <2>3 DEF TeardownOf
  <2>4. CASE chain[ch][Family(ip)] # "none" /\ ~uses(ip)
    BY <2>1, <2>4 DEF TeardownOf
  <2> QED
    BY <2>2, <2>3, <2>4
<1>3. PICK used \in BOOLEAN : used = uses(ip)
  OBVIOUS
<1>4. TypeOK /\ CmdOK(c) /\ cmd[c].att \in Att /\ cmd[c] \in CmdType /\ ch \in Chains
  BY <1>1, Running
<1>5. /\ cmd[c].pc = "delMasq" => cmd[c].ifName = IfNameOf[cmd[c].att]
      /\ cmd[c].pc = "undoMasq" => cmd[c].ifName = Mv /\ cmd[c].att \in MacVlan
      /\ cmd[c].att \in Layer3
  BY <1>1, <1>4 DEF CmdOK, MvSteps
<1>12. CASE chain[ch][Family(ip)] = "none" /\ UNCHANGED <<jumps, chain>> /\ DelReturns(c, FALSE)
  <2>1. Returned(c, FALSE)
    BY <1>4, <1>12, DelReturnsFx
  <2>2. /\ ProcFx(c) /\ CmdOK(c)'
        /\ \/ /\ cmd[c].pc \in {"undoLink", "undoMasq"}
              /\ Moved(c, "undoIpam") /\ status' = status
           \/ /\ cmd[c].pc \in {"delLink", "delMasq"}
              /\ Answered(c, "delFailed")
    BY <1>1, <2>1, ReturnedOK
  <2>3. LinkFx(c) /\ AsgFx(c) /\ NsFx(c) /\ RuleFx(c)
    BY <1>1, <1>4, <1>12, SameFx
  <2>4. CtlInv' /\ Frame(c, cmd[c].att)
    BY <1>1, <2>2, <2>3, StepShape
  <2>5. Refused(c)
    BY <1>1, <1>2, <1>12, <2>2 DEF Refused
  <2> QED
    BY <1>1, <2>4, <2>5
<1>13. SUFFICES ASSUME /\ jumps' = [jumps EXCEPT ![ch] = jumps[ch] \ {ip}]
                       /\ chain' = [chain EXCEPT ![ch][Family(ip)] = IF uses(ip) THEN "bare" ELSE "none"]
                       /\ \/ uses(ip) /\ DelReturns(c, FALSE)
                          \/ ~uses(ip) /\ cmd[c].todo = {ip} /\ DelReturns(c, TRUE)
                          \/ cmd' = [cmd EXCEPT ![c] = r(ip)] /\ status' = status
                PROVE  /\ CtlInv' /\ Frame(c, cmd[c].att)
                       /\ \E x \in cmd[c].todo, y \in BOOLEAN : Removed(c, x, y)
  BY <1>1, <1>2, <1>12 DEF Removed
<1>6. Jumped(ch, jumps[ch] \ {ip})
  <2>1. jumps[ch] \ {ip} \in SUBSET IP
    BY <1>4 DEF TypeOK
  <2> QED
    BY <1>4, <1>13, <2>1, JumpFx
<1>7. Chained(ch, Family(ip), IF used THEN "bare" ELSE "none")
  <2> DEFINE v == IF used THEN "bare" ELSE "none"
  <2>1. Family(ip) \in {4, 6} /\ v \in {"none", "bare", "masq"}
    BY FamilyFx
  <2>2. chain' = [chain EXCEPT ![ch][Family(ip)] = v]
    BY <1>3, <1>13
  <2> HIDE DEF ch, v
  <2>3. Chained(ch, Family(ip), v)
    BY <1>4, <2>1, <2>2, ChainFx
  <2> QED
    BY <2>3 DEF v
<1>8. RuleFx(c)
  BY <1>6, <1>7 DEF RuleFx, Chained, Jumped
<1>9. LinkFx(c) /\ AsgFx(c) /\ NsFx(c)
  BY <1>1, <1>4, SameFx
<1>10. ASSUME NEW ok \in BOOLEAN, ok = ~used, ok => cmd[c].todo = {ip}, DelReturns(c, ok)
       PROVE  CtlInv' /\ Frame(c, cmd[c].att) /\ Removed(c, ip, used)
  <2>2. Returned(c, ok)
    BY <1>4, <1>10, DelReturnsFx
  <2>3. /\ ProcFx(c) /\ CmdOK(c)'
        /\ \/ /\ cmd[c].pc \in {"undoLink", "undoMasq"}
              /\ Moved(c, "undoIpam") /\ status' = status
           \/ /\ cmd[c].pc \in {"delLink", "delMasq"}
              /\ Answered(c, IF ok THEN "none" ELSE "delFailed")
    BY <1>1, <2>2, ReturnedOK
  <2>4. CtlInv' /\ Frame(c, cmd[c].att)
    BY <1>1, <1>8, <1>9, <2>3, StepShape
  <2>5. (IF ok THEN "none" ELSE "delFailed") = IF used THEN "delFailed" ELSE "none"
    BY <1>10
  <2>6. \/ cmd[c].pc = "undoMasq" /\ Moved(c, "undoIpam") /\ status' = status
        \/ /\ cmd[c].pc = "delMasq" /\ (used \/ cmd[c].todo = {ip})
           /\ Answered(c, IF used THEN "delFailed" ELSE "none")
    BY <1>1, <1>10, <2>3, <2>5
  <2> QED
    BY <1>3, <1>6, <1>7, <2>4, <2>6 DEF Removed
<1>11. CASE cmd' = [cmd EXCEPT ![c] = r(ip)] /\ status' = status
  <2>1. /\ r(ip) \in CmdType /\ r(ip).pc = cmd[c].pc /\ r(ip).todo = cmd[c].todo \ {ip}
        /\ r(ip).att = cmd[c].att /\ r(ip).path = cmd[c].path /\ r(ip).ifName = cmd[c].ifName
    BY <1>4 DEF CmdType
  <2> HIDE DEF r
  <2>2. Went(c, cmd[c].pc, cmd[c].ifName, cmd[c].todo \ {ip})
    BY <1>4, <1>11, <2>1, WentFx
  <2>3. cmd[c].pc \in Labels
    BY <1>4 DEF CmdType, Labels
  <2>4. CmdOK(c)' /\ ProcFx(c)
    BY <1>1, <1>5, <1>11, <2>2, <2>3, WentOK DEF AddSteps, DelSteps, MvSteps, Half, ProcFx
  <2>5. CtlInv' /\ Frame(c, cmd[c].att)
    BY <1>1, <1>8, <1>9, <2>4, StepShape
  <2> QED
    BY <1>3, <1>6, <1>7, <1>11, <2>2, <2>5 DEF Removed
<1>14. CASE uses(ip) /\ DelReturns(c, FALSE)
  BY <1>3, <1>10, <1>14
<1>15. CASE ~uses(ip) /\ cmd[c].todo = {ip} /\ DelReturns(c, TRUE)
  BY <1>3, <1>10, <1>15
<1> QED
  BY <1>11, <1>13, <1>14, <1>15

LEMMA TeardownFailsFx ==
  ASSUME CtlInv, NEW c \in Cont, TeardownIPMasqFails(c)
  PROVE  /\ CtlInv' /\ Frame(c, cmd[c].att) /\ UNCHANGED <<assigned, link>>
         /\ \/ /\ cmd[c].pc = "undoMasq" /\ "undoMasq" \in MayFail
               /\ Moved(c, "undoIpam") /\ status' = status
            \/ /\ cmd[c].pc = "delMasq" /\ "delMasq" \in MayFail
               /\ Answered(c, "delFailed")
<1> DEFINE ch == ChainOf[cmd[c].att]
<1>1. /\ cmd[c].pc \in {"delMasq", "undoMasq"} /\ cmd[c].pc \in MayFail
      /\ UNCHANGED <<assigned, netns, link, unnamed>> /\ DelReturns(c, FALSE)
  BY DEF TeardownIPMasqFails, Fails, At
<1>2. TypeOK /\ CmdOK(c) /\ cmd[c].att \in Att /\ ch \in Chains
  BY <1>1, Running
<1>3. PICK ip \in cmd[c].todo :
         \/ UNCHANGED <<jumps, chain>>
         \/ /\ jumps' = [jumps EXCEPT ![ch] = jumps[ch] \ {ip}]
            /\ chain' = chain \/ chain' = [chain EXCEPT ![ch][Family(ip)] = "bare"]
  BY DEF TeardownIPMasqFails
<1>4. RuleFx(c)
  <2>1. CASE UNCHANGED <<jumps, chain>>
    BY <1>2, <2>1, SameFx
  <2>2. CASE /\ jumps' = [jumps EXCEPT ![ch] = jumps[ch] \ {ip}]
             /\ chain' = chain \/ chain' = [chain EXCEPT ![ch][Family(ip)] = "bare"]
    <3>1. jumps[ch] \ {ip} \in SUBSET IP /\ Family(ip) \in {4, 6} /\ "bare" \in {"none", "bare", "masq"}
      BY <1>2, FamilyFx DEF TypeOK
    <3> HIDE DEF ch
    <3>2. Jumped(ch, jumps[ch] \ {ip}) /\ (chain' = chain \/ Chained(ch, Family(ip), "bare"))
      BY <1>2, <2>2, <3>1, JumpFx, ChainFx
    <3> QED
      BY <1>2, <3>2 DEF RuleFx, Jumped, Chained, TypeOK, ch
  <2> QED
    BY <1>3, <2>1, <2>2
<1>5. Returned(c, FALSE)
  BY <1>1, <1>2, DelReturnsFx
<1>6. /\ ProcFx(c) /\ CmdOK(c)'
      /\ \/ /\ cmd[c].pc \in {"undoLink", "undoMasq"}
            /\ Moved(c, "undoIpam") /\ status' = status
         \/ /\ cmd[c].pc \in {"delLink", "delMasq"}
            /\ Answered(c, "delFailed")
  BY <1>1, <1>5, ReturnedOK
<1>7. LinkFx(c) /\ AsgFx(c) /\ NsFx(c)
  BY <1>1, <1>2, SameFx
<1> QED
  BY <1>1, <1>4, <1>6, <1>7, StepShape

\* The IPAM plugin's DEL.
Revoked(c) ==
    /\ assigned' \in [Att -> SUBSET IP]
    /\ assigned'[cmd[c].att] = {}
    /\ \A b \in Att \ {cmd[c].att} : assigned'[b] = assigned[b]

LEMMA RevokeFx ==
  ASSUME TypeOK, NEW c \in Cont, cmd[c].att \in Att, Pool!Revoke(cmd[c].att)
  PROVE  Revoked(c) /\ AsgFx(c)
BY DEF TypeOK, Pool!Revoke, Revoked, AsgFx

LEMMA UndoIpamFx ==
  ASSUME CtlInv, NEW c \in Cont, UndoIpam(c)
  PROVE  /\ CtlInv' /\ Frame(c, cmd[c].att)
         /\ cmd[c].pc = "undoIpam" /\ Answered(c, "addFailed") /\ UNCHANGED kernel
         /\ Revoked(c) \/ ("undoIpam" \in MayFail /\ UNCHANGED assigned)
<1>1. /\ cmd[c].pc = "undoIpam" /\ Answer(c, "addFailed") /\ UNCHANGED kernel
      /\ Pool!Revoke(cmd[c].att) \/ ("undoIpam" \in MayFail /\ UNCHANGED assigned)
  BY DEF UndoIpam, At
<1>2. TypeOK /\ cmd[c].att \in Att
  BY <1>1, Running
<1>3. Answered(c, "addFailed") /\ "addFailed" \in Stati
  BY <1>1, <1>2, AnswerFx DEF Stati
<1>4. (Revoked(c) \/ ("undoIpam" \in MayFail /\ UNCHANGED assigned)) /\ AsgFx(c)
  BY <1>1, <1>2, RevokeFx, SameFx
<1>5. ProcFx(c) /\ CmdOK(c)' /\ LinkFx(c) /\ RuleFx(c) /\ NsFx(c)
  BY <1>1, <1>2, <1>3, AnsweredOK, SameFx DEF ProcFx, kernel
<1> QED
  BY <1>1, <1>3, <1>4, <1>5, StepShape

LEMMA IpamDelFx ==
  ASSUME CtlInv, NEW c \in Cont, IpamDel(c)
  PROVE  /\ CtlInv' /\ Frame(c, cmd[c].att)
         /\ cmd[c].pc = "ipamDel" /\ Moved(c, "delMv") /\ UNCHANGED <<kernel, status>>
         /\ Revoked(c)
<1>1. /\ cmd[c].pc = "ipamDel" /\ Goto(c, "delMv") /\ UNCHANGED <<kernel, status>>
      /\ Pool!Revoke(cmd[c].att)
  BY DEF IpamDel, At
<1>2. TypeOK /\ CmdOK(c) /\ cmd[c].att \in Att
  BY <1>1, Running
<1>3. "delMv" \in Labels /\ Moved(c, "delMv")
  BY <1>1, <1>2, GotoFx DEF Labels, DelSteps
<1>4. CmdOK(c)'
  BY <1>1, <1>2, <1>3, WentOK DEF Moved, CmdOK, kernel, AddSteps, DelSteps, MvSteps, Half
<1>5. ProcFx(c) /\ LinkFx(c) /\ RuleFx(c) /\ AsgFx(c) /\ Revoked(c) /\ NsFx(c)
  BY <1>1, <1>2, <1>3, SameFx, RevokeFx DEF ProcFx, Moved, kernel
<1> QED
  BY <1>1, <1>3, <1>4, <1>5, StepShape

LEMMA DelMacvlanFx ==
  ASSUME CtlInv, NEW c \in Cont, DelMacvlan(c)
  PROVE  /\ CtlInv' /\ Frame(c, cmd[c].att)
         /\ cmd[c].pc = "delMv" /\ Moved(c, "delLink") /\ UNCHANGED <<assigned, jumps, chain, status>>
         /\ \/ Linked(c, Mv, NoLink)
            \/ link' = link /\ (c \notin netns \/ "delMv" \in MayFail)
<1>1. /\ cmd[c].pc = "delMv" /\ Goto(c, "delLink")
      /\ UNCHANGED <<assigned, netns, unnamed, jumps, chain, status>>
      /\ \/ SetLink(c, Mv, NoLink)
         \/ link' = link /\ (~cmd[c].path \/ c \notin netns \/ "delMv" \in MayFail)
  BY DEF DelMacvlan, At
<1>2. TypeOK /\ CmdOK(c) /\ cmd[c].att \in Att
  BY <1>1, Running
<1>3. "delLink" \in Labels /\ Moved(c, "delLink")
  BY <1>1, <1>2, GotoFx DEF Labels, DelSteps
<1>4. CmdOK(c)'
  BY <1>1, <1>2, <1>3, WentOK DEF Moved, CmdOK, AddSteps, DelSteps, MvSteps, Half
<1>5. /\ LinkFx(c)
      /\ \/ Linked(c, Mv, NoLink)
         \/ link' = link /\ (c \notin netns \/ "delMv" \in MayFail)
  BY <1>1, <1>2, LinkedFx, SameFx DEF CmdOK
<1>6. ProcFx(c) /\ RuleFx(c) /\ AsgFx(c) /\ NsFx(c)
  BY <1>1, <1>2, <1>3, SameFx DEF ProcFx, Moved
<1> QED
  BY <1>1, <1>3, <1>4, <1>5, <1>6, StepShape

LEMMA NetnsVanishesFx ==
  ASSUME CtlInv, NEW c \in Cont, NetnsVanishes(c)
  PROVE  /\ CtlInv' /\ NetnsMayVanish /\ cmd[c].pc = "idle"
         /\ UNCHANGED <<assigned, jumps, chain, cmd, status>>
         /\ netns' = netns \ {c}
         /\ \A i \in Names : link'[c][i] = NoLink
         /\ \A d \in Cont \ {c} : link'[d] = link[d]
<1>1. /\ NetnsMayVanish /\ cmd[c].pc = "idle"
      /\ UNCHANGED <<assigned, jumps, chain, cmd, status>>
      /\ netns' = netns \ {c}
      /\ link' = [link EXCEPT ![c] = [i \in Names |-> NoLink]]
      /\ unnamed' = [unnamed EXCEPT ![c] = 0]
  BY DEF NetnsVanishes, At
<1>2. TypeOK
  BY DEF CtlInv
<1>3. /\ link' \in [Cont -> [Names -> {NoLink} \cup SUBSET IP]]
      /\ \A i \in Names : link'[c][i] = NoLink
      /\ \A d \in Cont \ {c} : link'[d] = link[d]
      /\ unnamed' \in [Cont -> 0 .. MaxUnnamed]
  BY <1>1, <1>2, VillageAssumption DEF TypeOK
<1>4. TypeOK'
  BY <1>1, <1>2, <1>3 DEF TypeOK
<1>5. \A d \in Cont : CmdOK(d)' /\ NetnsOK(d)'
  BY <1>1, <1>3 DEF CtlInv, CmdOK, NetnsOK
<1> QED
  BY <1>1, <1>3, <1>4, <1>5 DEF CtlInv

-----------------------------------------------------------------------------
(* The steps of a process, and what they leave alone.                      *)

Works(c) ==
    \/ IpamAdd(c) \/ IpamAddFails(c) \/ SetupBridge(c) \/ SetupBridgeFails(c)
    \/ SetupVeth(c) \/ SetupVethFails(c) \/ Configure(c) \/ ConfigureFails(c)
    \/ SetGateway(c) \/ SetGatewayFails(c) \/ SetupIPMasq(c) \/ SetupIPMasqFails(c)
    \/ PrintResult(c) \/ PrintResultFails(c)
    \/ CreateMacvlan(c) \/ CreateMacvlanFails(c)
    \/ RenameMacvlan(c) \/ RenameMacvlanFails(c) \/ Unmake(c)
    \/ ConfigureMacvlan(c) \/ ConfigureMacvlanFails(c)
    \/ DelLink(c) \/ DelLinkWithoutNetns(c) \/ DelLinkFails(c)
    \/ TeardownIPMasq(c) \/ TeardownIPMasqFails(c) \/ UndoIpam(c)
    \/ IpamDel(c) \/ IpamDelFails(c) \/ DelMacvlan(c)
    \/ Crash(c)

LEMMA WorksFrame ==
  ASSUME CtlInv, NEW c \in Cont, Works(c)
  PROVE  CtlInv' /\ Frame(c, cmd[c].att) /\ cmd[c].pc # "idle"
<1>1. CASE IpamAdd(c) \/ IpamAddFails(c) \/ IpamDelFails(c) \/ Crash(c) \/ SetupBridge(c)
  BY <1>1, IpamAddFx, EndFx, SetupBridgeFx
<1>2. CASE SetupBridgeFails(c) \/ SetGatewayFails(c) \/ PrintResultFails(c)
  BY <1>2, FailFx
<1>3. CASE SetupVeth(c) \/ SetupVethFails(c) \/ Configure(c) \/ ConfigureFails(c)
  BY <1>3, SetupVethFx, SetupVethFailsFx, ConfigureFx, ConfigureFailsFx
<1>4. CASE SetGateway(c) \/ SetupIPMasq(c) \/ SetupIPMasqFails(c) \/ PrintResult(c)
  BY <1>4, SetGatewayFx, SetupIPMasqFx, SetupIPMasqFailsFx, PrintResultFx
<1>5. CASE \/ CreateMacvlan(c) \/ CreateMacvlanFails(c) \/ RenameMacvlan(c) \/ RenameMacvlanFails(c)
           \/ Unmake(c) \/ ConfigureMacvlan(c) \/ ConfigureMacvlanFails(c)
  BY <1>5, CreateMacvlanFx, RenameFx, UnmakeFx, ConfigureMacvlanFx, ConfigureMacvlanFailsFx
<1>6. CASE DelLink(c) \/ DelLinkWithoutNetns(c) \/ DelLinkFails(c)
  BY <1>6, DelLinkFx, DelLinkEndsFx
<1>7. CASE TeardownIPMasq(c) \/ TeardownIPMasqFails(c)
  BY <1>7, TeardownFx, TeardownFailsFx
<1>8. CASE UndoIpam(c) \/ IpamDel(c) \/ DelMacvlan(c)
  BY <1>8, UndoIpamFx, IpamDelFx, DelMacvlanFx
<1> QED
  BY <1>1, <1>2, <1>3, <1>4, <1>5, <1>6, <1>7, <1>8 DEF Works

LEMMA NextCases ==
  ASSUME Next
  PROVE  \/ \E a \in Att : BeginAdd(a) \/ BeginDel(a)
         \/ \E c \in Cont : Works(c) \/ NetnsVanishes(c)
BY DEF Next, Works

-----------------------------------------------------------------------------
(* The steps as an attachment sees them.                                   *)

To(a, label) == Pc(a)' = label /\ status'[a] = status[a]
Ends(a, s) == Pc(a)' = "idle" /\ status'[a] = s
Errs(a) == \/ a \in Layer3 /\ To(a, "undoIpam")
           \/ a \notin Layer3 /\ Ends(a, "addFailed")

SameAsg(a) == assigned'[a] = assigned[a]
SameLinks(a) == L(a)' = L(a) /\ M(a)' = M(a)
SameRules(a) == J(a)' = J(a) /\ K(a)' = K(a)
SameAll(a) == SameAsg(a) /\ SameLinks(a) /\ SameRules(a)
SetK(a, f, v) == K(a)'[f] = v /\ \A g \in {4, 6} \ {f} : K(a)'[g] = K(a)[g]

\* The commands begin and the IPAM plugin is run.
SeesIpam(a) ==
    \/ /\ Pc(a) = "ipamAdd" /\ To(a, "bridge") /\ SameLinks(a) /\ SameRules(a) /\ a \in Layer3
       /\ assigned'[a] \in Results /\ \A b \in Att : assigned[b] \cap assigned'[a] = {}
    \/ /\ Pc(a) = "undoIpam" /\ Ends(a, "addFailed") /\ SameLinks(a) /\ SameRules(a)
       /\ assigned'[a] = {} \/ ("undoIpam" \in MayFail /\ SameAsg(a))
    \/ /\ Pc(a) = "ipamDel" /\ To(a, "delMv") /\ SameLinks(a) /\ SameRules(a)
       /\ assigned'[a] = {}

\* The command goes on, fails or is killed, and nothing else changes.
SeesEnd(a) ==
    /\ SameAll(a)
    /\ \/ Pc(a) = "ipamAdd" /\ Ends(a, "addFailed")
       \/ Pc(a) = "ipamDel" /\ Ends(a, "delFailed")
       \/ Pc(a) # "idle" /\ Ends(a, "killed") /\ Pc(a) \in CrashAt
       \/ Pc(a) \in {"bridge", "gateway", "print"} /\ Errs(a)
       \/ Pc(a) = "undoLink" /\ "undoLink" \in MayFail /\ To(a, "undoIpam")
       \/ Pc(a) = "delLink" /\ Ends(a, "none") /\ L(a) = NoLink /\ M(a) = NoLink /\ ContainerOf[a] \notin netns
       \/ Pc(a) = "delLink" /\ Ends(a, "delFailed")

SeesMove(a) ==
    /\ SameAll(a)
    /\ \/ Pc(a) = "bridge" /\ To(a, "veth")
       \/ Pc(a) = "gateway" /\ IPMasq /\ To(a, "masq") /\ Todo(a)' = Bridged(a)
       \/ Pc(a) = "gateway" /\ ~IPMasq /\ To(a, "print")
       \/ Pc(a) = "print" /\ a \in MacVlan /\ To(a, "macvlan")
       \/ /\ Pc(a) = "print" /\ Ends(a, "ready")
          /\ a \notin Layer3 \/ a \notin MacVlan \/ assigned[a] \cap MvIPs = {}

\* The bridge's end.
SeesVeth(a) ==
    /\ Pc(a) = "veth" /\ SameAsg(a) /\ M(a)' = M(a) /\ SameRules(a)
    /\ \/ L(a)' = {} /\ To(a, IF a \in Layer3 THEN "configure" ELSE "print")
       \/ L(a)' \in {L(a), {}} /\ Errs(a)

SeesConfigure(a) ==
    /\ Pc(a) = "configure" /\ a \in Layer3 /\ SameAsg(a) /\ M(a)' = M(a) /\ SameRules(a)
    /\ \/ L(a)' = Bridged(a) /\ To(a, "gateway")
       \/ (\E S \in SUBSET Bridged(a) : L(a)' = S) /\ To(a, "undoIpam")

\* Masquerading.
SeesMasq(a) ==
    /\ Pc(a) = "masq" /\ a \in Layer3 /\ SameAsg(a) /\ SameLinks(a)
    /\ \/ \E ip \in Todo(a) :
             /\ J(a)' = J(a) \cup {ip} /\ SetK(a, Family(ip), "masq")
             /\ Todo(a)' = Todo(a) \ {ip}
             /\ To(a, IF Todo(a) = {ip} THEN "print" ELSE "masq")
       \/ /\ J(a)' = J(a) /\ To(a, "undoIpam")
          /\ \/ K(a)' = K(a)
             \/ \E ip \in Todo(a) : \E v \in {"masq", "bare", K(a)[Family(ip)]} : SetK(a, Family(ip), v)

\* The macvlan.
SeesMacvlan(a) ==
    /\ a \in Layer3 /\ a \in MacVlan /\ SameAsg(a) /\ L(a)' = L(a) /\ SameRules(a)
    /\ \/ /\ Pc(a) = "macvlan" /\ M(a)' = M(a)
          /\ (To(a, "rename") /\ U(a)' = U(a) + 1) \/ (To(a, "undoLink") /\ U(a)' = U(a))
       \/ /\ Pc(a) = "rename" /\ M(a)' = {} /\ U(a)' = U(a) - 1
          /\ To(a, "configureMv") \/ To(a, "undoLink")
       \/ Pc(a) = "rename" /\ M(a)' = M(a) /\ U(a)' = U(a) /\ To(a, "unmake")
       \/ /\ Pc(a) = "unmake" /\ M(a)' = M(a) /\ To(a, "undoLink")
          /\ U(a)' = U(a) - 1 \/ (U(a)' = U(a) /\ "unmake" \in MayFail)
       \/ Pc(a) = "configureMv" /\ M(a)' = assigned[a] \cap MvIPs /\ (Ends(a, "ready") \/ Ends(a, "garbled"))
       \/ Pc(a) = "configureMv" /\ M(a)' \in {NoLink, assigned[a] \cap MvIPs} /\ To(a, "undoLink")
       \/ Pc(a) = "undoLink" /\ M(a)' = NoLink /\ (To(a, "undoMasq") \/ To(a, "undoIpam"))

\* The interfaces are deleted.
SeesDelLink(a) ==
    /\ SameAsg(a) /\ SameRules(a)
    /\ \/ /\ Pc(a) = "delMv" /\ L(a)' = L(a) /\ To(a, "delLink")
          /\ M(a)' = NoLink \/ (M(a)' = M(a) /\ "delMv" \in MayFail)
       \/ /\ Pc(a) = "delLink" /\ L(a)' = NoLink /\ M(a)' = M(a)
          /\ \/ /\ L(a) # NoLink /\ To(a, "delMasq") /\ Todo(a)' = L(a)
                /\ IPMasq /\ a \in Layer3
             \/ /\ L(a) \in {NoLink, {}} \/ ~IPMasq \/ a \notin Layer3
                /\ Ends(a, "none")

\* The rules are deleted.
SeesTeardown(a) ==
    /\ SameAsg(a) /\ SameLinks(a) /\ a \in Layer3
    /\ \/ \E ip \in Todo(a), used \in BOOLEAN :
             /\ used <=> \E x \in J(a) \ {ip} : Family(x) = Family(ip)
             /\ J(a)' = J(a) \ {ip} /\ SetK(a, Family(ip), IF used THEN "bare" ELSE "none")
             /\ \/ Pc(a) = "undoMasq" /\ (To(a, "undoIpam") \/ To(a, "undoMasq"))
                \/ /\ Pc(a) = "delMasq" /\ (used \/ Todo(a) = {ip})
                   /\ Ends(a, IF used THEN "delFailed" ELSE "none")
                \/ Pc(a) = "delMasq" /\ To(a, "delMasq") /\ Todo(a)' = Todo(a) \ {ip}
       \/ /\ \E ip \in Todo(a) : K(a)[Family(ip)] = "none"
          /\ SameRules(a)
          /\ \/ Pc(a) = "undoMasq" /\ To(a, "undoIpam")
             \/ Pc(a) = "delMasq" /\ Ends(a, "delFailed")
       \/ Pc(a) = "undoMasq" /\ "undoMasq" \in MayFail /\ To(a, "undoIpam")
       \/ Pc(a) = "delMasq" /\ "delMasq" \in MayFail /\ Ends(a, "delFailed")

Sees(a) ==
    \/ SeesIpam(a) \/ SeesEnd(a) \/ SeesMove(a) \/ SeesVeth(a) \/ SeesConfigure(a)
    \/ SeesMasq(a) \/ SeesMacvlan(a) \/ SeesDelLink(a) \/ SeesTeardown(a)

\* The view of the parts of a step.
LEMMA ViewFx ==
  ASSUME CtlInv, NEW c \in Cont, cmd[c].pc # "idle", NEW a \in Att, a = cmd[c].att, ContainerOf[a] = c
  PROVE  /\ Pc(a) = cmd[c].pc /\ Todo(a) = cmd[c].todo
         /\ \A label, name, todo : Went(c, label, name, todo) => Pc(a)' = label /\ Todo(a)' = todo
         /\ \A label : Moved(c, label) => Pc(a)' = label
         /\ \A label : Moved(c, label) /\ status' = status => To(a, label)
         /\ \A s : Answered(c, s) => Ends(a, s)
         /\ Failed(c) => Errs(a)
         /\ \A x : Linked(c, IfNameOf[a], x) => L(a)' = x /\ M(a)' = M(a)
         /\ \A x : Linked(c, Mv, x) => M(a)' = x /\ L(a)' = L(a)
         /\ link' = link => SameLinks(a)
         /\ UNCHANGED <<jumps, chain>> => SameRules(a)
         /\ UNCHANGED assigned => SameAsg(a)
         /\ UNCHANGED <<assigned, kernel>> => SameAll(a)
         /\ \A S : Jumped(ChainOf[a], S) => J(a)' = S
         /\ \A f, v : Chained(ChainOf[a], f, v) => SetK(a, f, v)
         /\ BrIPs(c) = assigned[a] \ MvIPs /\ MvOf(c) = assigned[a] \cap MvIPs
         /\ a \in Layer3 => BrIPs(c) = Bridged(a)
<1>1. IfNameOf[a] \in Names /\ IfNameOf[a] # Mv /\ Mv \in Names
  BY Running
<1>2. Pc(a) = cmd[c].pc /\ Todo(a) = cmd[c].todo
  BY DEF Pc, Todo
<1>3. /\ \A label, name, todo : Went(c, label, name, todo) => Pc(a)' = label /\ Todo(a)' = todo
      /\ \A label : Moved(c, label) => Pc(a)' = label
  BY DEF Went, Moved, Pc, Todo
<1>4. \A label : Moved(c, label) /\ status' = status => To(a, label)
  BY <1>3 DEF To
<1>5. \A s : Answered(c, s) => Ends(a, s)
  BY DEF Answered, Ends, Pc
<1>6. Failed(c) => Errs(a)
  BY <1>4, <1>5 DEF Failed, Errs
<1>7. /\ \A x : Linked(c, IfNameOf[a], x) => L(a)' = x /\ M(a)' = M(a)
      /\ \A x : Linked(c, Mv, x) => M(a)' = x /\ L(a)' = L(a)
      /\ link' = link => SameLinks(a)
  BY <1>1 DEF Linked, L, M, SameLinks
<1>8. /\ UNCHANGED <<jumps, chain>> => SameRules(a)
      /\ UNCHANGED assigned => SameAsg(a)
  BY DEF SameRules, J, K, SameAsg
<1>9. UNCHANGED <<assigned, kernel>> => SameAll(a)
  BY <1>7, <1>8 DEF SameAll, kernel
<1>10. /\ \A S : Jumped(ChainOf[a], S) => J(a)' = S
       /\ \A f, v : Chained(ChainOf[a], f, v) => SetK(a, f, v)
  BY DEF Jumped, Chained, SetK, J, K
<1>11. /\ BrIPs(c) = assigned[a] \ MvIPs /\ MvOf(c) = assigned[a] \cap MvIPs
       /\ a \in Layer3 => BrIPs(c) = Bridged(a)
  BY DEF BrIPs, MvOf, Bridged
<1> QED
  BY <1>2, <1>3, <1>4, <1>5, <1>6, <1>7, <1>8, <1>9, <1>10, <1>11

LEMMA WorksSees ==
  ASSUME CtlInv, NEW c \in Cont, Works(c), NEW a \in Att, a = cmd[c].att
  PROVE  Sees(a)
<1>1. /\ cmd[c].pc # "idle" /\ TypeOK /\ CmdOK(c) /\ NetnsOK(c) /\ ContainerOf[a] = c
      /\ IfNameOf[a] \in Names /\ IfNameOf[a] # Mv /\ Mv \in Names
  BY WorksFrame, Running
<1>2. /\ Pc(a) = cmd[c].pc /\ Todo(a) = cmd[c].todo
      /\ J(a) = jumps[ChainOf[a]]
      /\ \A label, name, todo : Went(c, label, name, todo) => Pc(a)' = label /\ Todo(a)' = todo
      /\ \A label : Moved(c, label) => Pc(a)' = label
      /\ \A label : Moved(c, label) /\ status' = status => To(a, label)
      /\ \A s : Answered(c, s) => Ends(a, s)
      /\ Failed(c) => Errs(a)
      /\ \A x : Linked(c, IfNameOf[a], x) => L(a)' = x /\ M(a)' = M(a)
      /\ \A x : Linked(c, Mv, x) => M(a)' = x /\ L(a)' = L(a)
      /\ link' = link => SameLinks(a)
      /\ UNCHANGED <<jumps, chain>> => SameRules(a)
      /\ UNCHANGED assigned => SameAsg(a)
      /\ UNCHANGED <<assigned, kernel>> => SameAll(a)
      /\ \A S : Jumped(ChainOf[a], S) => J(a)' = S
      /\ \A f, v : Chained(ChainOf[a], f, v) => SetK(a, f, v)
      /\ BrIPs(c) = assigned[a] \ MvIPs /\ MvOf(c) = assigned[a] \cap MvIPs
      /\ a \in Layer3 => BrIPs(c) = Bridged(a)
  BY <1>1, ViewFx DEF J
<1>3. /\ cmd[c].pc \notin {"bridge", "veth", "print", "delMv", "delLink"} => a \in Layer3
      /\ cmd[c].pc \in MvSteps => a \in MacVlan
  BY <1>1 DEF CmdOK
<1>4. CASE IpamAdd(c)
  <2>1. /\ cmd[c].pc = "ipamAdd" /\ Moved(c, "bridge") /\ UNCHANGED <<kernel, status>>
        /\ assigned'[a] \in Results
        /\ \A b \in Att : assigned[b] \cap assigned'[a] = {}
    BY <1>4, IpamAddFx
  <2> QED
    BY <1>2, <1>3, <2>1 DEF kernel, Sees, SeesIpam
<1>5. CASE IpamAddFails(c) \/ IpamDelFails(c) \/ Crash(c)
  BY <1>1, <1>2, <1>5, EndFx DEF Sees, SeesEnd
<1>6. CASE SetupBridge(c)
  <2>1. cmd[c].pc = "bridge" /\ Moved(c, "veth") /\ UNCHANGED <<assigned, kernel, status>>
    BY <1>6, SetupBridgeFx
  <2> QED
    BY <1>2, <2>1 DEF Sees, SeesMove
<1>7. CASE SetupBridgeFails(c) \/ SetGatewayFails(c) \/ PrintResultFails(c)
  BY <1>2, <1>7, FailFx DEF Sees, SeesEnd
<1>8. CASE SetupVeth(c)
  <2>1. /\ cmd[c].pc = "veth" /\ Linked(c, IfNameOf[a], {})
        /\ Moved(c, IF a \in Layer3 THEN "configure" ELSE "print")
        /\ UNCHANGED <<assigned, jumps, chain, status>>
    BY <1>8, SetupVethFx
  <2>2. To(a, IF a \in Layer3 THEN "configure" ELSE "print")
    BY <1>2, <2>1
  <2> QED
    BY <1>2, <2>1, <2>2 DEF Sees, SeesVeth
<1>9. CASE SetupVethFails(c)
  <2>1. /\ cmd[c].pc = "veth" /\ Failed(c)
        /\ link' = link \/ Linked(c, IfNameOf[a], {})
        /\ UNCHANGED <<assigned, jumps, chain>>
    BY <1>9, SetupVethFailsFx
  <2>2. L(a)' \in {L(a), {}} /\ M(a)' = M(a)
    BY <1>2, <2>1 DEF SameLinks
  <2> QED
    BY <1>2, <2>1, <2>2 DEF Sees, SeesVeth
<1>10. CASE Configure(c)
  <2>1. /\ cmd[c].pc = "configure" /\ Linked(c, IfNameOf[a], BrIPs(c))
        /\ Moved(c, "gateway") /\ UNCHANGED <<assigned, jumps, chain, status>>
    BY <1>10, ConfigureFx
  <2> QED
    BY <1>2, <1>3, <2>1 DEF Sees, SeesConfigure
<1>11. CASE ConfigureFails(c)
  <2>1. cmd[c].pc = "configure" /\ Failed(c) /\ UNCHANGED <<assigned, jumps, chain>>
    BY <1>11, ConfigureFailsFx
  <2>2. PICK S \in SUBSET BrIPs(c) : Linked(c, IfNameOf[a], S)
    BY <1>11, ConfigureFailsFx
  <2>3. To(a, "undoIpam")
    BY <1>2, <1>3, <2>1 DEF Errs
  <2> QED
    BY <1>2, <1>3, <2>1, <2>2, <2>3 DEF Sees, SeesConfigure
<1>12. CASE SetGateway(c)
  <2>1. /\ cmd[c].pc = "gateway" /\ UNCHANGED <<assigned, kernel, status>>
        /\ \/ IPMasq /\ Went(c, "masq", cmd[c].ifName, BrIPs(c))
           \/ ~IPMasq /\ Went(c, "print", cmd[c].ifName, {})
    BY <1>12, SetGatewayFx
  <2> QED
    BY <1>2, <1>3, <2>1 DEF Sees, SeesMove, To
<1>13. CASE SetupIPMasq(c)
  <2>1. cmd[c].pc = "masq" /\ UNCHANGED <<assigned, link, status>>
    BY <1>13, SetupIPMasqFx
  <2>2. PICK ip \in cmd[c].todo :
               /\ Chained(ChainOf[a], Family(ip), "masq")
               /\ Jumped(ChainOf[a], jumps[ChainOf[a]] \cup {ip})
               /\ Went(c, IF cmd[c].todo = {ip} THEN "print" ELSE "masq",
                       cmd[c].ifName, cmd[c].todo \ {ip})
    BY <1>13, SetupIPMasqFx
  <2>3. /\ J(a)' = J(a) \cup {ip} /\ SetK(a, Family(ip), "masq")
        /\ Todo(a)' = Todo(a) \ {ip}
    BY <1>2, <2>2
  <2>4. To(a, IF Todo(a) = {ip} THEN "print" ELSE "masq")
    BY <1>2, <2>1, <2>2 DEF To
  <2> QED
    BY <1>2, <1>3, <2>1, <2>3, <2>4 DEF Sees, SeesMasq
<1>14. CASE SetupIPMasqFails(c)
  <2>1. cmd[c].pc = "masq" /\ Failed(c) /\ UNCHANGED <<assigned, link, jumps>>
    BY <1>14, SetupIPMasqFailsFx
  <2>2. \/ chain' = chain
        \/ \E ip \in cmd[c].todo : \E v \in {"masq", "bare", chain[ChainOf[a]][Family(ip)]} :
              Chained(ChainOf[a], Family(ip), v)
    BY <1>14, SetupIPMasqFailsFx
  <2>4. \/ K(a)' = K(a)
        \/ \E ip \in Todo(a) : \E v \in {"masq", "bare", K(a)[Family(ip)]} : SetK(a, Family(ip), v)
    <3>1. CASE chain' = chain
      BY <3>1 DEF K
    <3>2. CASE \E ip \in cmd[c].todo : \E v \in {"masq", "bare", chain[ChainOf[a]][Family(ip)]} :
                 Chained(ChainOf[a], Family(ip), v)
      BY <1>2, <3>2 DEF K
    <3> QED
      BY <2>2, <3>1, <3>2
  <2>5. To(a, "undoIpam") /\ J(a)' = J(a)
    BY <1>2, <1>3, <2>1 DEF Errs, J
  <2> QED
    BY <1>2, <1>3, <2>1, <2>4, <2>5 DEF Sees, SeesMasq
<1>15. CASE PrintResult(c)
  <2>1. cmd[c].pc = "print" /\ UNCHANGED <<assigned, kernel>>
    BY <1>15, PrintResultFx
  <2>2. \/ /\ a \in Layer3 \cap MacVlan /\ MvOf(c) # {}
           /\ Went(c, "macvlan", Mv, cmd[c].todo) /\ status' = status
        \/ /\ ~(a \in Layer3 \cap MacVlan /\ MvOf(c) # {})
           /\ Answered(c, "ready")
    BY <1>15, PrintResultFx
  <2> QED
    BY <1>2, <2>1, <2>2 DEF Sees, SeesMove, To
<1>16. CASE CreateMacvlan(c) \/ CreateMacvlanFails(c) \/ RenameMacvlan(c) \/ RenameMacvlanFails(c) \/ Unmake(c)
  <2>1. UNCHANGED <<assigned, jumps, chain, status>> /\ U(a)' = unnamed'[c] /\ U(a) = unnamed[c]
    BY <1>1, <1>16, CreateMacvlanFx, RenameFx, UnmakeFx DEF U
  <2>2. CASE CreateMacvlan(c) \/ CreateMacvlanFails(c)
    <3>1. /\ cmd[c].pc = "macvlan" /\ link' = link
          /\ \/ Moved(c, "rename") /\ unnamed'[c] = unnamed[c] + 1
             \/ Moved(c, "undoLink") /\ unnamed'[c] = unnamed[c]
      BY <2>2, CreateMacvlanFx
    <3> QED
      BY <1>2, <1>3, <2>1, <3>1 DEF Sees, SeesMacvlan, MvSteps, SameLinks
  <2>3. CASE RenameMacvlan(c) \/ RenameMacvlanFails(c)
    <3>1. /\ cmd[c].pc = "rename"
          /\ \/ /\ Linked(c, Mv, {}) /\ unnamed'[c] = unnamed[c] - 1
                /\ Moved(c, "configureMv") \/ Moved(c, "undoLink")
             \/ link' = link /\ unnamed'[c] = unnamed[c] /\ Moved(c, "unmake")
      BY <2>3, RenameFx
    <3> QED
      BY <1>2, <1>3, <2>1, <3>1 DEF Sees, SeesMacvlan, MvSteps, SameLinks
  <2>4. CASE Unmake(c)
    <3>1. /\ cmd[c].pc = "unmake" /\ link' = link /\ Moved(c, "undoLink")
          /\ \/ unnamed'[c] = unnamed[c] - 1
             \/ unnamed'[c] = unnamed[c] /\ "unmake" \in MayFail
      BY <2>4, UnmakeFx
    <3> QED
      BY <1>2, <1>3, <2>1, <3>1 DEF Sees, SeesMacvlan, MvSteps, SameLinks
  <2> QED
    BY <1>16, <2>2, <2>3, <2>4
<1>17. CASE ConfigureMacvlan(c)
  <2>1. /\ cmd[c].pc = "configureMv" /\ UNCHANGED <<assigned, jumps, chain>>
        /\ Linked(c, Mv, MvOf(c))
        /\ Answered(c, "ready") \/ Answered(c, "garbled")
    BY <1>17, ConfigureMacvlanFx
  <2> QED
    BY <1>2, <1>3, <2>1 DEF Sees, SeesMacvlan, MvSteps
<1>18. CASE ConfigureMacvlanFails(c)
  <2>1. /\ cmd[c].pc = "configureMv" /\ UNCHANGED <<assigned, jumps, chain, status>>
        /\ Linked(c, Mv, NoLink) \/ Linked(c, Mv, MvOf(c))
        /\ Moved(c, "undoLink")
    BY <1>18, ConfigureMacvlanFailsFx
  <2> QED
    BY <1>2, <1>3, <2>1 DEF Sees, SeesMacvlan, MvSteps
<1>19. CASE DelLink(c)
  <2>1. Linked(c, cmd[c].ifName, NoLink) /\ UNCHANGED <<assigned, jumps, chain>>
    BY <1>19, DelLinkFx
  <2>2. \/ /\ cmd[c].pc = "delLink" /\ cmd[c].ifName = IfNameOf[a]
           /\ link[c][cmd[c].ifName] \notin {NoLink, {}} /\ IPMasq /\ a \in Layer3
           /\ Went(c, "delMasq", cmd[c].ifName, link[c][cmd[c].ifName]) /\ status' = status
        \/ /\ cmd[c].pc = "delLink" /\ cmd[c].ifName = IfNameOf[a]
           /\ link[c][cmd[c].ifName] \in {NoLink, {}} \/ ~IPMasq \/ a \notin Layer3
           /\ Answered(c, "none")
        \/ /\ cmd[c].pc = "undoLink" /\ cmd[c].ifName = Mv /\ status' = status
           /\ Moved(c, "undoIpam") \/ \E todo : Went(c, "undoMasq", Mv, todo)
    BY <1>19, DelLinkFx
  <2>3. L(a) = link[c][IfNameOf[a]]
    BY <1>1 DEF L
  <2>4. CASE cmd[c].pc = "delLink"
    BY <1>2, <2>1, <2>2, <2>3, <2>4 DEF Sees, SeesDelLink, To
  <2>5. CASE cmd[c].pc = "undoLink"
    BY <1>2, <1>3, <2>1, <2>2, <2>5 DEF Sees, SeesMacvlan, To, MvSteps
  <2> QED
    BY <2>2, <2>4, <2>5
<1>20. CASE DelLinkWithoutNetns(c) \/ DelLinkFails(c)
  <2>1. UNCHANGED <<assigned, kernel>>
    BY <1>20, DelLinkEndsFx
  <2>2. \/ /\ cmd[c].pc = "undoLink" /\ "undoLink" \in MayFail
           /\ Moved(c, "undoIpam") /\ status' = status
        \/ cmd[c].pc = "delLink" /\ c \notin netns /\ Answered(c, "none")
        \/ cmd[c].pc = "delLink" /\ Answered(c, "delFailed")
    BY <1>20, DelLinkEndsFx
  <2>3. c \notin netns => L(a) = NoLink /\ M(a) = NoLink
    BY <1>1 DEF NetnsOK, L, M
  <2> QED
    BY <1>1, <1>2, <2>1, <2>2, <2>3 DEF Sees, SeesEnd
<1>21. CASE TeardownIPMasq(c)
  <2>1. /\ cmd[c].pc \in {"delMasq", "undoMasq"} /\ UNCHANGED <<assigned, link>>
        /\ Refused(c) \/ \E ip \in cmd[c].todo, used \in BOOLEAN : Removed(c, ip, used)
    BY <1>21, TeardownFx
  <2>2. SameAsg(a) /\ SameLinks(a) /\ a \in Layer3
    BY <1>2, <1>3, <2>1
  <2>3. CASE Refused(c)
    <3>1. SameRules(a) /\ \E ip \in Todo(a) : K(a)[Family(ip)] = "none"
      BY <1>2, <2>3 DEF Refused, K
    <3>2. \/ Pc(a) = "undoMasq" /\ To(a, "undoIpam")
          \/ Pc(a) = "delMasq" /\ Ends(a, "delFailed")
      BY <1>2, <2>3 DEF Refused
    <3> QED
      BY <2>2, <3>1, <3>2 DEF Sees, SeesTeardown
  <2>4. ASSUME NEW ip \in cmd[c].todo, NEW used \in BOOLEAN, Removed(c, ip, used)
        PROVE  Sees(a)
    <3>1. /\ used <=> \E x \in J(a) \ {ip} : Family(x) = Family(ip)
          /\ J(a)' = J(a) \ {ip} /\ SetK(a, Family(ip), IF used THEN "bare" ELSE "none")
      BY <1>2, <2>4 DEF Removed
    <3>2. \/ Pc(a) = "undoMasq" /\ (To(a, "undoIpam") \/ To(a, "undoMasq"))
          \/ /\ Pc(a) = "delMasq" /\ (used \/ Todo(a) = {ip})
             /\ Ends(a, IF used THEN "delFailed" ELSE "none")
          \/ Pc(a) = "delMasq" /\ To(a, "delMasq") /\ Todo(a)' = Todo(a) \ {ip}
      BY <1>2, <2>1, <2>4 DEF Removed, To
    <3>3. SeesTeardown(a)
      BY <1>2, <2>2, <2>4, <3>1, <3>2 DEF SeesTeardown
    <3> QED
      BY <3>3 DEF Sees
  <2> QED
    BY <2>1, <2>3, <2>4
<1>22. CASE TeardownIPMasqFails(c)
  <2>1. UNCHANGED <<assigned, link>>
    BY <1>22, TeardownFailsFx
  <2>2. \/ /\ cmd[c].pc = "undoMasq" /\ "undoMasq" \in MayFail
           /\ Moved(c, "undoIpam") /\ status' = status
        \/ /\ cmd[c].pc = "delMasq" /\ "delMasq" \in MayFail
           /\ Answered(c, "delFailed")
    BY <1>22, TeardownFailsFx
  <2> QED
    BY <1>2, <1>3, <2>1, <2>2 DEF Sees, SeesTeardown
<1>23. CASE UndoIpam(c)
  <2>1. /\ cmd[c].pc = "undoIpam" /\ Answered(c, "addFailed") /\ UNCHANGED kernel
        /\ assigned'[a] = {} \/ ("undoIpam" \in MayFail /\ UNCHANGED assigned)
    BY <1>23, UndoIpamFx DEF Revoked
  <2> QED
    BY <1>2, <2>1 DEF Sees, SeesIpam, kernel
<1>24. CASE IpamDel(c)
  <2>1. /\ cmd[c].pc = "ipamDel" /\ Moved(c, "delMv") /\ UNCHANGED <<kernel, status>>
        /\ assigned'[a] = {}
    BY <1>24, IpamDelFx DEF Revoked
  <2> QED
    BY <1>2, <2>1 DEF Sees, SeesIpam, kernel
<1>25. CASE DelMacvlan(c)
  <2>1. /\ cmd[c].pc = "delMv" /\ Moved(c, "delLink") /\ UNCHANGED <<assigned, jumps, chain, status>>
        /\ \/ Linked(c, Mv, NoLink)
           \/ link' = link /\ (c \notin netns \/ "delMv" \in MayFail)
    BY <1>25, DelMacvlanFx
  <2>2. c \notin netns => M(a) = NoLink
    BY <1>1 DEF NetnsOK, M
  <2> QED
    BY <1>2, <2>1, <2>2 DEF Sees, SeesDelLink, SameLinks
<1> QED
  BY <1>4, <1>5, <1>6, <1>7, <1>8, <1>9, <1>10, <1>11, <1>12, <1>13, <1>14, <1>15, <1>16,
     <1>17, <1>18, <1>19, <1>20, <1>21, <1>22, <1>23, <1>24, <1>25 DEF Works

\* A command begins.
Begins(a) ==
    /\ Pc(a) = "idle" /\ SameAll(a) /\ netns' = netns
    /\ \/ /\ status[a] = "none" /\ status'[a] = "adding"
          /\ Pc(a)' = IF a \in Layer3 THEN "ipamAdd" ELSE "bridge"
       \/ /\ status'[a] = "deleting"
          /\ Pc(a)' = IF a \in Layer3 THEN "ipamDel" ELSE "delMv"

\* Its namespace is removed between two commands.
Vanishes(a) ==
    /\ NetnsMayVanish /\ Pc(a) = "idle" /\ Pc(a)' = "idle" /\ status'[a] = status[a]
    /\ SameAsg(a) /\ SameRules(a)
    /\ ContainerOf[a] \notin netns' /\ L(a)' = NoLink /\ M(a)' = NoLink

\* A command works on another attachment, maybe one of the same container or
\* with the same chain.
Beside(a) ==
    /\ Pc(a)' = Pc(a) /\ status'[a] = status[a]
    /\ Pc(a) # "idle" => Todo(a)' = Todo(a)
    /\ SameAsg(a) /\ L(a)' = L(a)
    /\ ContainerOf[a] \in netns' <=> ContainerOf[a] \in netns
    /\ M(a)' = M(a) \/ \E b \in Att \ {a} : ContainerOf[b] = ContainerOf[a]
    /\ \/ M(a)' \in {M(a), NoLink}
       \/ \E b \in MacVlan \ {a} : ContainerOf[b] = ContainerOf[a]
    /\ SameRules(a) \/ \E b \in Att \ {a} : ChainOf[b] = ChainOf[a]

LEMMA BesideFx ==
  ASSUME CtlInv, CtlInv', NEW c \in Cont, NEW a \in Att, ContainerOf[a] = c, Frame(c, a),
         NEW b \in Att, b # a
  PROVE  Beside(b)
<1>1. /\ ContainerOf[b] \in Cont /\ ChainOf[b] \in Chains
      /\ IfNameOf[b] \in Names /\ IfNameOf[b] # Mv /\ Mv \in Names
      /\ ContainerOf[b] = c => IfNameOf[b] # IfNameOf[a]
  BY VillageAssumption DEF Names, Chains
<1>2. Pc(b)' = Pc(b) /\ (Pc(b) # "idle" => Todo(b)' = Todo(b))
  <2>1. CASE ContainerOf[b] # c
    BY <1>1, <2>1 DEF Frame, Pc, Todo
  <2>2. CASE ContainerOf[b] = c
    BY <2>2 DEF Frame, Pc
  <2> QED
    BY <2>1, <2>2
<1>3. status'[b] = status[b] /\ SameAsg(b) /\ netns' = netns
  BY DEF Frame, SameAsg
<1>4. L(b)' = L(b)
  <2>1. CASE ContainerOf[b] # c
    BY <1>1, <2>1 DEF Frame, L
  <2>2. CASE ContainerOf[b] = c
    BY <1>1, <2>2 DEF Frame, L
  <2> QED
    BY <2>1, <2>2
<1>5. M(b)' = M(b) \/ \E x \in Att \ {b} : ContainerOf[x] = ContainerOf[b]
  BY <1>1 DEF Frame, M
<1>6. \/ M(b)' \in {M(b), NoLink}
      \/ \E x \in MacVlan \ {b} : ContainerOf[x] = ContainerOf[b]
  <2>1. CASE ContainerOf[b] # c
    BY <1>1, <2>1 DEF Frame, M
  <2>2. CASE ContainerOf[b] = c
    BY <1>1, <2>2 DEF Frame, M
  <2> QED
    BY <2>1, <2>2
<1>7. SameRules(b) \/ \E x \in Att \ {b} : ChainOf[x] = ChainOf[b]
  BY <1>1 DEF Frame, SameRules, J, K
<1> QED
  BY <1>2, <1>3, <1>4, <1>5, <1>6, <1>7 DEF Beside

LEMMA BeginsFx ==
  ASSUME CtlInv, NEW a \in Att, BeginAdd(a) \/ BeginDel(a)
  PROVE  Begins(a)
<1>1. \/ status[a] = "none" /\ Begun(a, IF a \in Layer3 THEN "ipamAdd" ELSE "bridge", "adding")
      \/ Begun(a, IF a \in Layer3 THEN "ipamDel" ELSE "delMv", "deleting")
  BY BeginAddFx, BeginDelFx
<1>2. Pc(a) = "idle" /\ netns' = netns
  BY <1>1 DEF Begun, Pc, kernel
<1>3. SameAll(a)
  BY <1>1 DEF Begun, SameAll, SameAsg, SameLinks, SameRules, L, M, J, K, kernel
<1>4. \/ /\ status[a] = "none" /\ status'[a] = "adding"
         /\ Pc(a)' = IF a \in Layer3 THEN "ipamAdd" ELSE "bridge"
      \/ /\ status'[a] = "deleting"
         /\ Pc(a)' = IF a \in Layer3 THEN "ipamDel" ELSE "delMv"
  BY <1>1 DEF Begun, Pc
<1> QED
  BY <1>2, <1>3, <1>4 DEF Begins

LEMMA StutterFx ==
  ASSUME UNCHANGED vars, NEW a \in Att
  PROVE  Beside(a)
<1>1. UNCHANGED <<assigned, netns, link, unnamed, jumps, chain, cmd, status>>
  BY DEF vars, kernel
<1> QED
  BY <1>1 DEF Beside, Pc, Todo, L, M, SameAsg, SameRules, J, K

\* Every step, as one attachment sees it.
LEMMA Views ==
  ASSUME CtlInv, [Next]_vars, NEW a \in Att
  PROVE  /\ CtlInv'
         /\ \/ Sees(a) /\ netns' = netns
            \/ Begins(a)
            \/ Vanishes(a)
            \/ Beside(a)
<1>1. CASE UNCHANGED vars
  <2>1. UNCHANGED <<assigned, netns, link, unnamed, jumps, chain, cmd, status>>
    BY <1>1 DEF vars, kernel
  <2>2. CtlInv'
    BY <2>1 DEF CtlInv, TypeOK, CmdOK, NetnsOK
  <2> QED
    BY <1>1, <2>2, StutterFx
<1>2. ASSUME NEW b \in Att, BeginAdd(b) \/ BeginDel(b)
      PROVE  CtlInv' /\ (Begins(a) \/ Beside(a))
  <2>1. CtlInv' /\ Frame(ContainerOf[b], b) /\ ContainerOf[b] \in Cont
    BY <1>2, BeginAddFx, BeginDelFx, VillageAssumption
  <2>2. CASE a = b
    BY <1>2, <2>1, <2>2, BeginsFx
  <2>3. CASE a # b
    BY <2>1, <2>3, BesideFx
  <2> QED
    BY <2>1, <2>2, <2>3
<1>3. ASSUME NEW c \in Cont, Works(c)
      PROVE  CtlInv' /\ ((Sees(a) /\ netns' = netns) \/ Beside(a))
  <2>1. /\ CtlInv' /\ Frame(c, cmd[c].att)
        /\ cmd[c].att \in Att /\ ContainerOf[cmd[c].att] = c
    BY <1>3, WorksFrame, Running
  <2>2. CASE a = cmd[c].att
    BY <1>3, <2>1, <2>2, WorksSees DEF Frame
  <2>3. CASE a # cmd[c].att
    BY <2>1, <2>3, BesideFx
  <2> QED
    BY <2>1, <2>2, <2>3
<1>4. ASSUME NEW c \in Cont, NetnsVanishes(c)
      PROVE  CtlInv' /\ (Vanishes(a) \/ Beside(a))
  <2>1. /\ CtlInv' /\ NetnsMayVanish /\ cmd[c].pc = "idle"
        /\ UNCHANGED <<assigned, jumps, chain, cmd, status>>
        /\ netns' = netns \ {c}
        /\ \A i \in Names : link'[c][i] = NoLink
        /\ \A d \in Cont \ {c} : link'[d] = link[d]
    BY <1>4, NetnsVanishesFx
  <2>2. ContainerOf[a] \in Cont /\ IfNameOf[a] \in Names /\ Mv \in Names
    BY VillageAssumption DEF Names
  <2>3. SameAsg(a) /\ SameRules(a) /\ Pc(a)' = Pc(a) /\ Todo(a)' = Todo(a) /\ status'[a] = status[a]
    BY <2>1 DEF SameAsg, SameRules, J, K, Pc, Todo
  <2>4. CASE ContainerOf[a] = c
    BY <2>1, <2>2, <2>3, <2>4 DEF Vanishes, L, M, Pc
  <2>5. CASE ContainerOf[a] # c
    BY <2>1, <2>2, <2>3, <2>5 DEF Beside, L, M
  <2> QED
    BY <2>1, <2>4, <2>5
<1> QED
  BY <1>1, <1>2, <1>3, <1>4, NextCases

\* Where a command is says what the runtime knows.
LEMMA Stages ==
  ASSUME CtlInv, NEW a \in Att
  PROVE  /\ Pc(a) \in Labels /\ status[a] \in Stati
         /\ Pc(a) \in AddSteps => status[a] = "adding" /\ ContainerOf[a] \in netns
         /\ Pc(a) \in DelSteps => status[a] = "deleting"
         /\ ContainerOf[a] \notin netns => L(a) = NoLink /\ M(a) = NoLink
         /\ L(a) \in {NoLink} \cup SUBSET IP
<1>1. TypeOK /\ ContainerOf[a] \in Cont /\ CmdOK(ContainerOf[a]) /\ NetnsOK(ContainerOf[a])
  BY VillageAssumption DEF CtlInv
<1>2. cmd[ContainerOf[a]] \in CmdType /\ status[a] \in Stati
  BY <1>1 DEF TypeOK, Stati
<1>3. Pc(a) \in Labels
  BY <1>2 DEF Pc, CmdType, Labels
<1>4. /\ Pc(a) \in AddSteps => status[a] = "adding" /\ ContainerOf[a] \in netns
      /\ Pc(a) \in DelSteps => status[a] = "deleting"
  BY <1>1 DEF Pc, CmdOK, AddSteps, DelSteps
<1>5. ContainerOf[a] \notin netns => L(a) = NoLink /\ M(a) = NoLink
  BY <1>1 DEF NetnsOK, L, M, Names
<1>6. L(a) \in {NoLink} \cup SUBSET IP
  <2>1. IfNameOf[a] \in Names /\ link[ContainerOf[a]] \in [Names -> {NoLink} \cup SUBSET IP]
    BY <1>1 DEF TypeOK, Names
  <2> QED
    BY <2>1 DEF L
<1> QED
  BY <1>2, <1>3, <1>4, <1>5, <1>6

-----------------------------------------------------------------------------
(* The addresses.                                                          *)

LEMMA AsgStep ==
  ASSUME CtlInv, [Next]_vars, NEW a \in Att, AsgOK(a)
  PROVE  AsgOK(a)'
<1> USE DEF To, Ends, Errs, SameAsg, SameAll, In, AsgOK, AddSteps, DelSteps
<1>1. /\ Pc(a) \in AddSteps => status[a] = "adding"
      /\ Pc(a) \in DelSteps => status[a] = "deleting"
  BY Stages
<1>2. CASE SeesIpam(a)
  BY <1>1, <1>2 DEF SeesIpam
<1>3. CASE SeesEnd(a)
  BY <1>1, <1>3 DEF SeesEnd
<1>4. CASE SeesMove(a)
  BY <1>1, <1>4 DEF SeesMove
<1>5. CASE SeesVeth(a) \/ SeesConfigure(a)
  BY <1>1, <1>5 DEF SeesVeth, SeesConfigure
<1>6. CASE SeesMasq(a)
  BY <1>1, <1>6 DEF SeesMasq
<1>7. CASE SeesMacvlan(a)
  BY <1>1, <1>7 DEF SeesMacvlan
<1>8. CASE SeesDelLink(a)
  BY <1>1, <1>8 DEF SeesDelLink
<1>9. CASE SeesTeardown(a)
  BY <1>1, <1>9 DEF SeesTeardown
<1>10. CASE Begins(a)
  BY <1>10 DEF Begins
<1>11. CASE Vanishes(a)
  BY <1>11 DEF Vanishes
<1>12. CASE Beside(a)
  BY <1>12 DEF Beside
<1> QED
  BY <1>2, <1>3, <1>4, <1>5, <1>6, <1>7, <1>8, <1>9, <1>10, <1>11, <1>12, Views DEF Sees

\* What an attachment gets is new.
LEMMA Gets ==
  ASSUME CtlInv, [Next]_vars, NEW a \in Att
  PROVE  \/ assigned'[a] \subseteq assigned[a]
         \/ \A b \in Att : assigned[b] \cap assigned'[a] = {}
BY Views DEF Sees, SeesIpam, SeesEnd, SeesMove, SeesVeth, SeesConfigure, SeesMasq, SeesMacvlan,
             SeesDelLink, SeesTeardown, Begins, Vanishes, Beside, SameAsg, SameAll

\* Only one attachment gets something in a step.
LEMMA OneGets ==
  ASSUME CtlInv, [Next]_vars, NEW a \in Att, NEW b \in Att, a # b
  PROVE  assigned'[a] \subseteq assigned[a] \/ assigned'[b] = assigned[b]
<1>1. CASE UNCHANGED vars
  BY <1>1 DEF vars
<1>2. ASSUME NEW d \in Att, BeginAdd(d) \/ BeginDel(d)
      PROVE  assigned' = assigned
  BY <1>2 DEF BeginAdd, BeginDel
<1>3. ASSUME NEW c \in Cont, Works(c)
      PROVE  assigned'[a] = assigned[a] \/ assigned'[b] = assigned[b]
  BY <1>3, WorksFrame DEF Frame
<1>4. ASSUME NEW c \in Cont, NetnsVanishes(c)
      PROVE  assigned' = assigned
  BY <1>4 DEF NetnsVanishes
<1> QED
  BY <1>1, <1>2, <1>3, <1>4, NextCases

LEMMA DisjointStep ==
  ASSUME CtlInv, [Next]_vars, Disjoint
  PROVE  Disjoint'
<1> SUFFICES ASSUME NEW a \in Att, NEW b \in Att, a # b
             PROVE  assigned'[a] \cap assigned'[b] = {}
  BY DEF Disjoint
<1>1. /\ assigned'[a] \subseteq assigned[a] \/ assigned'[a] \cap assigned[b] = {}
      /\ assigned'[b] \subseteq assigned[b] \/ assigned'[b] \cap assigned[a] = {}
  BY Gets
<1>2. /\ assigned'[a] \subseteq assigned[a] \/ assigned'[b] = assigned[b]
      /\ assigned'[b] \subseteq assigned[b] \/ assigned'[a] = assigned[a]
  BY OneGets
<1>3. assigned[a] \cap assigned[b] = {}
  BY DEF Disjoint
<1> QED
  BY <1>1, <1>2, <1>3

-----------------------------------------------------------------------------
(* The bridge's end.                                                       *)

LEMMA LinkStep ==
  ASSUME CtlInv, [Next]_vars, NEW a \in Att, LinkOK(a)
  PROVE  LinkOK(a)'
<1> USE DEF To, Ends, Errs, SameAsg, SameLinks, SameAll, In, LinkOK, Added, Bridged, AddSteps, DelSteps
<1>1. /\ Pc(a) \in AddSteps => status[a] = "adding" /\ ContainerOf[a] \in netns
      /\ Pc(a) \in DelSteps => status[a] = "deleting"
  BY Stages
<1>2. CASE SeesIpam(a)
  BY <1>1, <1>2 DEF SeesIpam
<1>3. CASE SeesEnd(a)
  BY <1>1, <1>3 DEF SeesEnd
<1>4. CASE SeesMove(a)
  BY <1>1, <1>4 DEF SeesMove
<1>5. CASE SeesVeth(a)
  BY <1>1, <1>5 DEF SeesVeth
<1>6. CASE SeesConfigure(a)
  BY <1>1, <1>6 DEF SeesConfigure
<1>7. CASE SeesMasq(a)
  BY <1>1, <1>7 DEF SeesMasq
<1>8. CASE SeesMacvlan(a)
  BY <1>1, <1>8 DEF SeesMacvlan
<1>9. CASE SeesDelLink(a)
  BY <1>1, <1>9 DEF SeesDelLink
<1>10. CASE SeesTeardown(a)
  BY <1>1, <1>10 DEF SeesTeardown
<1>11. CASE Begins(a)
  BY <1>11 DEF Begins
<1>12. CASE Vanishes(a)
  BY <1>12 DEF Vanishes
<1>13. CASE Beside(a)
  BY <1>13 DEF Beside
<1> QED
  BY <1>2, <1>3, <1>4, <1>5, <1>6, <1>7, <1>8, <1>9, <1>10, <1>11, <1>12, <1>13, Views DEF Sees

-----------------------------------------------------------------------------
(* The macvlan.                                                            *)

LEMMA MvOwnedStep ==
  ASSUME CtlInv, [Next]_vars, MvOwned
  PROVE  MvOwned'
<1> SUFFICES ASSUME NEW c \in Cont, link'[c][Mv] # NoLink
             PROVE  \E a \in MacVlan : ContainerOf[a] = c
  BY DEF MvOwned
<1>0. link[c][Mv] # NoLink => \E a \in MacVlan : ContainerOf[a] = c
  BY DEF MvOwned
<1>1. CASE UNCHANGED vars
  BY <1>0, <1>1 DEF vars, kernel
<1>2. ASSUME NEW d \in Att, BeginAdd(d) \/ BeginDel(d)
      PROVE  link' = link
  BY <1>2 DEF BeginAdd, BeginDel, kernel
<1>3. ASSUME NEW d \in Cont, Works(d)
      PROVE  link'[c][Mv] = link[c][Mv] \/ \E a \in MacVlan : ContainerOf[a] = c
  <2>1. Frame(d, cmd[d].att) /\ ContainerOf[cmd[d].att] = d
    BY <1>3, WorksFrame, Running
  <2>2. CASE d = c
    BY <2>1, <2>2 DEF Frame
  <2>3. CASE d # c
    BY <2>1, <2>3 DEF Frame
  <2> QED
    BY <2>2, <2>3
<1>4. ASSUME NEW d \in Cont, NetnsVanishes(d)
      PROVE  link'[c][Mv] = link[c][Mv]
  <2>1. /\ \A i \in Names : link'[d][i] = NoLink
        /\ \A e \in Cont \ {d} : link'[e] = link[e]
    BY <1>4, NetnsVanishesFx
  <2> QED
    BY <2>1 DEF Names
<1> QED
  BY <1>0, <1>1, <1>2, <1>3, <1>4, NextCases

LEMMA AloneStep ==
  ASSUME CtlInv, [Next]_vars, NEW a \in Att, AsgOK(a), AloneOK(a)
  PROVE  AloneOK(a)'
<1> USE DEF To, Ends, Errs, SameAsg, SameLinks, SameAll, AloneOK, Added, OnlyOne, AddSteps, DelSteps
<1>1. /\ Pc(a) \in AddSteps => status[a] = "adding"
      /\ Pc(a) \in DelSteps => status[a] = "deleting"
      /\ a \notin Layer3 => assigned[a] = {}
  BY Stages DEF AsgOK
<1>2. CASE SeesIpam(a)
  BY <1>1, <1>2 DEF SeesIpam
<1>3. CASE SeesEnd(a)
  BY <1>1, <1>3 DEF SeesEnd
<1>4. CASE SeesMove(a)
  BY <1>1, <1>4 DEF SeesMove
<1>5. CASE SeesVeth(a) \/ SeesConfigure(a)
  BY <1>1, <1>5 DEF SeesVeth, SeesConfigure
<1>6. CASE SeesMasq(a)
  BY <1>1, <1>6 DEF SeesMasq
<1>7. CASE SeesMacvlan(a)
  BY <1>1, <1>7 DEF SeesMacvlan
<1>8. CASE SeesDelLink(a)
  BY <1>1, <1>8 DEF SeesDelLink
<1>9. CASE SeesTeardown(a)
  BY <1>1, <1>9 DEF SeesTeardown
<1>10. CASE Begins(a)
  BY <1>10 DEF Begins
<1>11. CASE Vanishes(a)
  BY <1>11 DEF Vanishes
<1>12. CASE Beside(a)
  BY <1>12 DEF Beside, OnlyOne
<1> QED
  BY <1>2, <1>3, <1>4, <1>5, <1>6, <1>7, <1>8, <1>9, <1>10, <1>11, <1>12, Views DEF Sees

\* A container has at most one attachment with a macvlan.
OneMacVlan == \A x, y \in MacVlan : ContainerOf[x] = ContainerOf[y] => x = y

LEMMA MvStep ==
  ASSUME OneMacVlan, "delMv" \notin MayFail, CtlInv, [Next]_vars, NEW a \in Att,
         AsgOK(a), MvOK(a)
  PROVE  MvOK(a)'
<1> SUFFICES ASSUME a \in MacVlan
             PROVE  MvOK(a)'
  BY DEF MvOK
<1> USE DEF To, Ends, Errs, SameAsg, SameLinks, SameAll, In, MvOK, Added, AddSteps, DelSteps
<1>1. /\ Pc(a) \in AddSteps => status[a] = "adding"
      /\ Pc(a) \in DelSteps => status[a] = "deleting"
      /\ a \notin Layer3 => assigned[a] = {}
  BY Stages DEF AsgOK
<1>2. CASE SeesIpam(a)
  BY <1>1, <1>2 DEF SeesIpam
<1>3. CASE SeesEnd(a)
  BY <1>1, <1>3 DEF SeesEnd
<1>4. CASE SeesMove(a)
  BY <1>1, <1>4 DEF SeesMove
<1>5. CASE SeesVeth(a)
  BY <1>1, <1>5 DEF SeesVeth
<1>6. CASE SeesConfigure(a)
  BY <1>1, <1>6 DEF SeesConfigure
<1>7. CASE SeesMasq(a)
  BY <1>1, <1>7 DEF SeesMasq
<1>8. CASE SeesMacvlan(a)
  BY <1>1, <1>8 DEF SeesMacvlan
<1>9. CASE SeesDelLink(a)
  BY <1>1, <1>9 DEF SeesDelLink
<1>10. CASE SeesTeardown(a)
  BY <1>1, <1>10 DEF SeesTeardown
<1>11. CASE Begins(a)
  BY <1>11 DEF Begins
<1>12. CASE Vanishes(a)
  BY <1>12 DEF Vanishes
<1>13. CASE Beside(a)
  BY <1>13 DEF Beside, OneMacVlan
<1> QED
  BY <1>2, <1>3, <1>4, <1>5, <1>6, <1>7, <1>8, <1>9, <1>10, <1>11, <1>12, <1>13, Views DEF Sees

\* createMacvlan either renames its link or deletes it.
MacvlansNamed == Half \cap CrashAt = {} /\ "unmake" \notin MayFail

\* A link with a temporary name is one that createMacvlan is working on.
TmpOK(c) == unnamed[c] = IF cmd[c].pc \in Half THEN 1 ELSE 0

\* The other steps make no such link and do not go into createMacvlan.
MakesMacvlan(c) ==
    \/ CreateMacvlan(c) \/ CreateMacvlanFails(c)
    \/ RenameMacvlan(c) \/ RenameMacvlanFails(c) \/ Unmake(c)

LEMMA NotHalf ==
  ASSUME CtlInv, NEW c \in Cont, Works(c), ~MakesMacvlan(c), MacvlansNamed
  PROVE  unnamed' = unnamed /\ cmd[c].pc \notin Half /\ cmd'[c].pc \notin Half
<1>1. CASE Crash(c)
  <2>1. cmd[c].pc \in CrashAt /\ unnamed' = unnamed
    BY <1>1 DEF Crash, kernel
  <2>2. cmd'[c].pc = "idle"
    BY <1>1, NoCmdType, Running DEF Crash, Answer, CtlInv, TypeOK
  <2> QED
    BY <2>1, <2>2 DEF MacvlansNamed, Half
<1>2. CASE ~Crash(c)
  <2>1. unnamed' = unnamed /\ cmd[c].pc \notin {"macvlan", "rename", "unmake"}
    <3>1. CASE \/ IpamAdd(c) \/ IpamAddFails(c) \/ SetupBridge(c) \/ SetupBridgeFails(c)
               \/ SetupVeth(c) \/ SetupVethFails(c) \/ Configure(c) \/ ConfigureFails(c)
               \/ SetGateway(c) \/ SetGatewayFails(c)
      BY <3>1 DEF IpamAdd, IpamAddFails, SetupBridge, SetupBridgeFails, SetupVeth, SetupVethFails,
                  Configure, ConfigureFails, SetGateway, SetGatewayFails, At, Fails, kernel
    <3>2. CASE \/ SetupIPMasq(c) \/ SetupIPMasqFails(c) \/ PrintResult(c) \/ PrintResultFails(c)
               \/ ConfigureMacvlan(c) \/ ConfigureMacvlanFails(c)
      BY <3>2 DEF SetupIPMasq, SetupIPMasqFails, PrintResult, PrintResultFails,
                  ConfigureMacvlan, ConfigureMacvlanFails, At, Fails, kernel
    <3>3. CASE \/ DelLink(c) \/ DelLinkWithoutNetns(c) \/ DelLinkFails(c)
               \/ TeardownIPMasq(c) \/ TeardownIPMasqFails(c) \/ UndoIpam(c)
               \/ IpamDel(c) \/ IpamDelFails(c) \/ DelMacvlan(c)
      BY <3>3 DEF DelLink, DelLinkWithoutNetns, DelLinkFails, TeardownIPMasq, TeardownIPMasqFails,
                  UndoIpam, IpamDel, IpamDelFails, DelMacvlan, At, Fails, kernel
    <3> QED
      BY <1>2, <3>1, <3>2, <3>3 DEF Works, MakesMacvlan
  <2>2. PICK a \in Att : a = cmd[c].att
    BY WorksFrame, Running
  <2>3. ContainerOf[a] = c /\ Frame(c, a) /\ Sees(a)
    BY <2>2, WorksFrame, WorksSees, Running
  <2>4. Pc(a) = cmd[c].pc /\ Pc(a)' = cmd'[c].pc
    BY <2>2, <2>3 DEF Pc, Frame
  <2>5. Pc(a) \notin {"macvlan", "rename", "unmake"} => Pc(a)' \notin Half
    BY <2>3 DEF Sees, SeesIpam, SeesEnd, SeesMove, SeesVeth, SeesConfigure, SeesMasq, SeesMacvlan,
                SeesDelLink, SeesTeardown, To, Ends, Errs, Half
  <2> QED
    BY <2>1, <2>4, <2>5 DEF Half
<1> QED
  BY <1>1, <1>2

LEMMA TmpStep ==
  ASSUME MacvlansNamed, CtlInv, [Next]_vars, NEW c \in Cont, TmpOK(c)
  PROVE  TmpOK(c)'
<1>1. CASE UNCHANGED vars
  BY <1>1 DEF vars, kernel, TmpOK
<1>2. ASSUME NEW b \in Att, BeginAdd(b) \/ BeginDel(b)
      PROVE  TmpOK(c)'
  <2>1. /\ Frame(ContainerOf[b], b)
        /\ \/ Begun(b, IF b \in Layer3 THEN "ipamAdd" ELSE "bridge", "adding")
           \/ Begun(b, IF b \in Layer3 THEN "ipamDel" ELSE "delMv", "deleting")
    BY <1>2, BeginAddFx, BeginDelFx
  <2>2. unnamed' = unnamed
    BY <2>1 DEF Begun, kernel
  <2>3. CASE ContainerOf[b] = c
    BY <2>1, <2>2, <2>3 DEF Begun, TmpOK, Half
  <2>4. CASE ContainerOf[b] # c
    BY <2>1, <2>2, <2>4 DEF Frame, TmpOK
  <2> QED
    BY <2>3, <2>4
<1>3. ASSUME NEW d \in Cont, Works(d)
      PROVE  TmpOK(c)'
  <2>1. CtlInv' /\ Frame(d, cmd[d].att)
    BY <1>3, WorksFrame
  <2>2. CASE d # c
    BY <2>1, <2>2 DEF Frame, TmpOK
  <2>3. CASE d = c /\ ~MakesMacvlan(c)
    BY <1>3, <2>3, NotHalf DEF TmpOK
  <2>4. CASE d = c /\ (CreateMacvlan(c) \/ CreateMacvlanFails(c))
    <3>1. /\ cmd[c].pc = "macvlan"
          /\ \/ Moved(c, "rename") /\ unnamed'[c] = unnamed[c] + 1
             \/ Moved(c, "undoLink") /\ unnamed'[c] = unnamed[c]
      BY <2>4, CreateMacvlanFx
    <3> QED
      BY <3>1 DEF TmpOK, Half, Moved, Went
  <2>5. CASE d = c /\ (RenameMacvlan(c) \/ RenameMacvlanFails(c))
    <3>1. /\ cmd[c].pc = "rename"
          /\ \/ /\ unnamed'[c] = unnamed[c] - 1
                /\ Moved(c, "configureMv") \/ Moved(c, "undoLink")
             \/ unnamed'[c] = unnamed[c] /\ Moved(c, "unmake")
      BY <2>5, RenameFx
    <3> QED
      BY <3>1 DEF TmpOK, Half, Moved, Went
  <2>6. CASE d = c /\ Unmake(c)
    <3>1. cmd[c].pc = "unmake" /\ unnamed'[c] = unnamed[c] - 1 /\ Moved(c, "undoLink")
      BY <2>6, UnmakeFx DEF MacvlansNamed
    <3> QED
      BY <3>1 DEF TmpOK, Half, Moved, Went
  <2> QED
    BY <2>2, <2>3, <2>4, <2>5, <2>6 DEF MakesMacvlan
<1>4. ASSUME NEW d \in Cont, NetnsVanishes(d)
      PROVE  TmpOK(c)'
  <2>1. /\ cmd[d].pc = "idle" /\ cmd' = cmd
        /\ unnamed' = [unnamed EXCEPT ![d] = 0]
    BY <1>4 DEF NetnsVanishes, At
  <2>2. unnamed \in [Cont -> 0 .. MaxUnnamed]
    BY DEF CtlInv, TypeOK
  <2> QED
    BY <2>1, <2>2 DEF TmpOK, Half
<1> QED
  BY <1>1, <1>2, <1>3, <1>4, NextCases

\* The link that createMacvlan is working on is of the attachment that has one.
LEMMA TmpOwned ==
  ASSUME OneMacVlan, CtlInv, NEW a \in MacVlan, TmpOK(ContainerOf[a]),
         Pc(a) \notin Half
  PROVE  U(a) = 0
<1> DEFINE c == ContainerOf[a]
<1>1. a \in Att /\ c \in Cont /\ CmdOK(c)
  BY VillageAssumption DEF CtlInv
<1>2. cmd[c].pc \in Half => cmd[c].att = a
  BY <1>1 DEF CmdOK, OneMacVlan, MvSteps, Half
<1> QED
  BY <1>2 DEF TmpOK, U, Pc

-----------------------------------------------------------------------------
(* Masquerading.                                                           *)

\* Each attachment has a chain of its own.
DistinctChains == \A x, y \in Att : ChainOf[x] = ChainOf[y] => x = y

LEMMA MasqStep ==
  ASSUME DistinctChains, CtlInv, [Next]_vars, NEW a \in Att, MasqOK(a)
  PROVE  MasqOK(a)'
<1> SUFFICES ASSUME IPMasq
             PROVE  MasqOK(a)'
  BY DEF MasqOK
<1> USE DEF To, Ends, Errs, SameAsg, SameLinks, SameRules, SameAll, In, MasqOK, Added, Bridged,
            Masked, AddSteps, DelSteps
<1>1. /\ Pc(a) \in AddSteps => status[a] = "adding"
      /\ Pc(a) \in DelSteps => status[a] = "deleting"
  BY Stages
<1>2. CASE SeesIpam(a)
  BY <1>1, <1>2 DEF SeesIpam
<1>3. CASE SeesEnd(a)
  BY <1>1, <1>3 DEF SeesEnd
<1>4. CASE SeesMove(a)
  BY <1>1, <1>4 DEF SeesMove
<1>5. CASE SeesVeth(a)
  BY <1>1, <1>5 DEF SeesVeth
<1>6. CASE SeesConfigure(a)
  BY <1>1, <1>6 DEF SeesConfigure
<1>7. CASE SeesMasq(a)
  <2>1. CASE To(a, "undoIpam")
    BY <1>1, <1>7, <2>1 DEF SeesMasq
  <2>2. PICK ip : \/ To(a, "undoIpam")
                  \/ /\ ip \in Todo(a)
                     /\ J(a)' = J(a) \cup {ip} /\ SetK(a, Family(ip), "masq")
                     /\ Todo(a)' = Todo(a) \ {ip}
                     /\ To(a, IF Todo(a) = {ip} THEN "print" ELSE "masq")
    BY <1>7 DEF SeesMasq
  <2>3. CASE ~To(a, "undoIpam")
    <3>1. \A x : K(a)'[Family(x)] = "masq" \/ K(a)'[Family(x)] = K(a)[Family(x)]
      BY <2>2, <2>3, FamilyFx DEF SetK
    <3>2. \A x : Masked(a, x) => Masked(a, x)'
      BY <2>2, <2>3, <3>1
    <3>3. Masked(a, ip)'
      BY <2>2, <2>3 DEF SetK
    <3>4. Pc(a) = "masq" /\ Bridged(a)' = Bridged(a)
      BY <1>7 DEF SeesMasq
    <3>5. \A x \in Bridged(a) : x \in Todo(a)' \/ Masked(a, x)'
      BY <2>2, <2>3, <3>2, <3>3, <3>4
    <3>6. status'[a] = "adding"
      BY <1>1, <2>2, <2>3, <3>4
    <3>7. Pc(a)' = "masq" \/ (Pc(a)' = "print" /\ Todo(a)' = {})
      BY <2>2, <2>3
    <3> QED
      BY <3>4, <3>5, <3>6, <3>7
  <2> QED
    BY <2>1, <2>3
<1>8. CASE SeesMacvlan(a)
  BY <1>1, <1>8 DEF SeesMacvlan
<1>9. CASE SeesDelLink(a)
  BY <1>1, <1>9 DEF SeesDelLink
<1>10. CASE SeesTeardown(a)
  BY <1>1, <1>10 DEF SeesTeardown
<1>11. CASE Begins(a)
  BY <1>11 DEF Begins
<1>12. CASE Vanishes(a)
  BY <1>12 DEF Vanishes
<1>13. CASE Beside(a)
  <2>1. SameRules(a)
    BY <1>13 DEF Beside, DistinctChains
  <2> QED
    BY <1>13, <2>1 DEF Beside
<1> QED
  BY <1>2, <1>3, <1>4, <1>5, <1>6, <1>7, <1>8, <1>9, <1>10, <1>11, <1>12, <1>13, Views DEF Sees

\* A result has one address for the bridge's end.
OneBridged == \A R \in Results : \A x, y \in R \ MvIPs : x = y

\* What a DEL cannot undo: a namespace that is gone with its addresses, a
\* teardown that was killed or failed half way, and a createMacvlan that was
\* killed, or could not delete its link, half way.
DelsFinish ==
    /\ ~NetnsMayVanish
    /\ {"delMasq", "rename", "unmake"} \cap CrashAt = {}
    /\ {"delMv", "delMasq", "undoMasq", "unmake"} \cap MayFail = {}

LEMMA BridgedOnce ==
  ASSUME OneBridged, NEW a \in Att, AsgOK(a), NEW S \in SUBSET Bridged(a)
  PROVE  \A x, y \in S : x = y
BY DEF OneBridged, AsgOK, Bridged

\* No rule is left when there is nothing to clean.
LEMMA NothingLeft ==
  ASSUME NEW a \in Att, CleanOK(a), ToClean(a) = {}
  PROVE  NoRules(a)
BY DEF CleanOK, NoRules

LEMMA CleanStep ==
  ASSUME DistinctChains, OneBridged, DelsFinish, CtlInv, [Next]_vars, NEW a \in Att,
         AsgOK(a), LinkOK(a), CleanOK(a)
  PROVE  CleanOK(a)'
<1> USE DEF To, Ends, Errs, SameAsg, SameLinks, SameRules, SameAll, In, AddSteps, DelSteps
<1>1. /\ Pc(a) \in AddSteps => status[a] = "adding"
      /\ Pc(a) \in DelSteps => status[a] = "deleting"
      /\ L(a) \in {NoLink} \cup SUBSET IP
      /\ \A S \in SUBSET IP : S # NoLink
  BY Stages, VillageAssumption
<1>2. CASE SeesIpam(a)
  BY <1>1, <1>2 DEF SeesIpam, CleanOK, ToClean, NoRules
<1>3. CASE SeesEnd(a)
  BY <1>1, <1>3 DEF SeesEnd, CleanOK, ToClean, NoRules, DelsFinish
<1>4. CASE SeesMove(a)
  <2>1. Pc(a) \notin {"delMasq"} /\ ToClean(a)' = ToClean(a)
    BY <1>4 DEF SeesMove, ToClean
  <2>2. Pc(a)' = "masq" => IPMasq /\ Todo(a)' \subseteq ToClean(a)'
    <3>1. SUFFICES ASSUME Pc(a)' = "masq"
                   PROVE  IPMasq /\ Todo(a)' \subseteq ToClean(a)
      BY <2>1
    <3>2. Pc(a) = "gateway" /\ IPMasq /\ Todo(a)' = Bridged(a)
      BY <1>4, <3>1 DEF SeesMove
    <3>3. L(a) = Bridged(a)
      BY <3>2 DEF LinkOK
    <3>4. Bridged(a) # NoLink
      BY VillageAssumption DEF Bridged, CtlInv, TypeOK
    <3> QED
      BY <3>2, <3>3, <3>4 DEF ToClean
  <2> QED
    BY <1>1, <1>4, <2>1, <2>2 DEF SeesMove, CleanOK, NoRules
<1>5. CASE SeesVeth(a)
  <2>1. L(a) = NoLink /\ Pc(a) = "veth"
    BY <1>5 DEF SeesVeth, LinkOK
  <2>2. ToClean(a) = {} /\ ToClean(a)' = {} /\ SameRules(a)
    BY <1>5, <2>1 DEF SeesVeth, ToClean
  <2> QED
    BY <2>2, NothingLeft, <1>5 DEF SeesVeth, CleanOK, NoRules
<1>6. CASE SeesConfigure(a)
  <2>1. NoRules(a) /\ SameRules(a) /\ Pc(a)' \in {"gateway", "undoIpam"}
    BY <1>6 DEF SeesConfigure, CleanOK
  <2>2. PICK S \in SUBSET Bridged(a) : L(a)' = S
    BY <1>6 DEF SeesConfigure
  <2>3. \A x, y \in S : x = y
    BY BridgedOnce
  <2>4. ToClean(a)' \subseteq S
    BY <2>1, <2>2 DEF ToClean
  <2> QED
    BY <2>1, <2>3, <2>4 DEF CleanOK, NoRules
<1>7. CASE SeesMasq(a)
  <2>1. Pc(a) = "masq" /\ ToClean(a)' = ToClean(a) /\ a \in Layer3
    BY <1>7 DEF SeesMasq, ToClean
  <2>2. Todo(a) \subseteq ToClean(a) /\ IPMasq
    BY <2>1 DEF CleanOK
  <2>3. Pc(a)' \in {"masq", "print", "undoIpam"}
    BY <1>7 DEF SeesMasq
  <2>4. Pc(a)' = "masq" => Todo(a)' \subseteq Todo(a)
    BY <1>7 DEF SeesMasq
  <2>5. J(a)' \subseteq ToClean(a)
    BY <1>7, <2>2 DEF SeesMasq, CleanOK
  <2>6. \A f \in {4, 6} : K(a)'[f] = K(a)[f] \/ \E ip \in ToClean(a) : Family(ip) = f
    BY <1>7, <2>2 DEF SeesMasq, SetK
  <2>7. \A ip \in J(a)' : K(a)'[Family(ip)] # "none"
    <3>1. \A ip \in J(a) : K(a)[Family(ip)] # "none"
      BY DEF CleanOK
    <3>2. ASSUME NEW ip, NEW v \in {"masq", "bare", K(a)[Family(ip)]}, SetK(a, Family(ip), v)
          PROVE  \A x : K(a)[Family(x)] # "none" => K(a)'[Family(x)] # "none"
      BY <3>2, FamilyFx DEF SetK
    <3>3. ASSUME NEW ip, J(a)' = J(a) \cup {ip}, SetK(a, Family(ip), "masq")
          PROVE  \A x \in J(a)' : K(a)'[Family(x)] # "none"
      BY <3>1, <3>2, <3>3 DEF SetK
    <3> QED
      BY <1>7, <3>1, <3>2, <3>3 DEF SeesMasq
  <2> QED
    BY <2>1, <2>2, <2>3, <2>4, <2>5, <2>6, <2>7 DEF CleanOK
<1>8. CASE SeesMacvlan(a)
  BY <1>1, <1>8 DEF SeesMacvlan, CleanOK, ToClean, NoRules
<1>9. CASE SeesDelLink(a)
  BY <1>1, <1>9 DEF SeesDelLink, CleanOK, ToClean, NoRules
<1>10. CASE SeesTeardown(a)
  <2>1. SameLinks(a) /\ a \in Layer3 /\ Pc(a) \in {"delMasq", "undoMasq"}
    BY <1>10 DEF SeesTeardown
  <2>2. CASE /\ \E ip \in Todo(a) : K(a)[Family(ip)] = "none"
             /\ SameRules(a)
             /\ \/ Pc(a) = "undoMasq" /\ To(a, "undoIpam")
                \/ Pc(a) = "delMasq" /\ Ends(a, "delFailed")
    <3>1. CASE Pc(a) = "undoMasq"
      BY <2>1, <2>2, <3>1 DEF CleanOK, ToClean, NoRules
    <3>2. CASE Pc(a) = "delMasq"
      <4>1. ToClean(a) = Todo(a) /\ L(a)' = NoLink /\ Pc(a)' = "idle"
        BY <2>1, <2>2, <3>2 DEF ToClean, LinkOK
      <4>2. PICK ip \in Todo(a) : K(a)[Family(ip)] = "none"
        BY <2>2
      <4>3. \A x \in ToClean(a) : x = ip
        BY <4>1, <4>2 DEF CleanOK
      <4>4. NoRules(a)
        BY <4>2, <4>3 DEF CleanOK, NoRules
      <4>5. NoRules(a)' /\ ToClean(a)' = {}
        BY <2>2, <4>1, <4>4 DEF NoRules, ToClean
      <4> QED
        BY <4>1, <4>5 DEF CleanOK, NoRules
    <3> QED
      BY <2>1, <3>1, <3>2
  <2>3. ASSUME NEW ip \in Todo(a), NEW used \in BOOLEAN,
               used <=> \E x \in J(a) \ {ip} : Family(x) = Family(ip),
               J(a)' = J(a) \ {ip}, SetK(a, Family(ip), IF used THEN "bare" ELSE "none"),
               \/ Pc(a) = "undoMasq" /\ (To(a, "undoIpam") \/ To(a, "undoMasq"))
               \/ /\ Pc(a) = "delMasq" /\ (used \/ Todo(a) = {ip})
                  /\ Ends(a, IF used THEN "delFailed" ELSE "none")
               \/ Pc(a) = "delMasq" /\ To(a, "delMasq") /\ Todo(a)' = Todo(a) \ {ip}
        PROVE  CleanOK(a)'
    <3>1. \A f \in {4, 6} : \/ f = Family(ip) /\ (used \/ K(a)'[f] = "none")
                            \/ f # Family(ip) /\ K(a)'[f] = K(a)[f]
      BY <2>3 DEF SetK
    <3>2. \A x \in J(a)' : K(a)'[Family(x)] # "none"
      BY <2>3, FamilyFx DEF SetK, CleanOK
    <3>3. NoRules(a) => NoRules(a)'
      <4>1. SUFFICES ASSUME NoRules(a)
                     PROVE  NoRules(a)'
        OBVIOUS
      <4>2. J(a) = {} /\ ~used
        BY <2>3, <4>1 DEF NoRules
      <4> QED
        BY <2>3, <4>1, <4>2 DEF NoRules, SetK
    <3>4. CASE Pc(a) = "undoMasq"
      <4>1. ToClean(a)' = ToClean(a) /\ Pc(a)' \in {"undoIpam", "undoMasq"}
        BY <2>1, <2>3, <3>4 DEF ToClean
      <4>2. J(a)' \subseteq ToClean(a)
        BY <2>3 DEF CleanOK
      <4>3. used => \E x \in ToClean(a) : Family(x) = Family(ip)
        BY <2>3 DEF CleanOK
      <4>4. \A f \in {4, 6} : K(a)'[f] # "none" => \E x \in ToClean(a) : Family(x) = f
        BY <3>1, <4>3 DEF CleanOK
      <4> QED
        BY <3>2, <3>3, <4>1, <4>2, <4>4 DEF CleanOK
    <3>5. CASE Pc(a) = "delMasq"
      <4>1. ToClean(a) = Todo(a) /\ L(a)' = NoLink
        BY <2>1, <3>5 DEF ToClean, LinkOK
      <4>2. ~used
        BY <2>3, <4>1 DEF CleanOK
      <4>3. J(a)' \subseteq Todo(a) \ {ip}
        BY <2>3, <4>1 DEF CleanOK
      <4>4. \A f \in {4, 6} : K(a)'[f] # "none" => \E x \in Todo(a) \ {ip} : Family(x) = f
        BY <3>1, <4>1, <4>2 DEF CleanOK
      <4>5. ToClean(a)' = Todo(a) \ {ip} /\ Pc(a)' \in {"idle", "delMasq"}
        BY <2>3, <3>5, <4>1, <4>2 DEF ToClean
      <4> QED
        BY <3>2, <3>3, <4>1, <4>3, <4>4, <4>5 DEF CleanOK
    <3> QED
      BY <2>1, <3>4, <3>5
  <2> QED
    BY <1>10, <2>2, <2>3 DEF SeesTeardown, DelsFinish
<1>11. CASE Begins(a)
  BY <1>1, <1>11 DEF Begins, CleanOK, ToClean, NoRules, LinkOK
<1>12. CASE Vanishes(a)
  BY <1>12 DEF Vanishes, DelsFinish
<1>13. CASE Beside(a)
  <2>1. SameRules(a)
    BY <1>13 DEF Beside, DistinctChains
  <2> QED
    BY <1>13, <2>1 DEF Beside, CleanOK, ToClean, NoRules
<1> QED
  BY <1>2, <1>3, <1>4, <1>5, <1>6, <1>7, <1>8, <1>9, <1>10, <1>11, <1>12, <1>13, Views DEF Sees

-----------------------------------------------------------------------------
(* The theorems.                                                           *)

LEMMA CtlStart == Init => CtlInv
<1> SUFFICES ASSUME Init
             PROVE  CtlInv
  OBVIOUS
<1>1. assigned = [a \in Att |-> {}] /\ cmd = [c \in Cont |-> NoCmd]
  BY DEF Init, Pool!Init
<1>2. TypeOK
  BY <1>1, NoCmdType, VillageAssumption DEF Init, TypeOK
<1>3. \A c \in Cont : cmd[c].pc = "idle"
  BY <1>1, NoCmdType
<1> QED
  BY <1>2, <1>3 DEF Init, CtlInv, CmdOK, NetnsOK

LEMMA CtlStep == CtlInv /\ [Next]_vars => CtlInv'
<1> SUFFICES ASSUME CtlInv, [Next]_vars
             PROVE  CtlInv'
  OBVIOUS
<1>1. CASE UNCHANGED vars
  BY <1>1 DEF vars, kernel, CtlInv, TypeOK, CmdOK, NetnsOK
<1>2. ASSUME NEW a \in Att
      PROVE  CtlInv'
  BY Views
<1>3. ASSUME NEW c \in Cont, Works(c) \/ NetnsVanishes(c)
      PROVE  CtlInv'
  BY <1>3, WorksFrame, NetnsVanishesFx
<1> QED
  BY <1>1, <1>2, <1>3, NextCases

(***************************************************************************)
(* Every state of the plugin has its type: a command's step, interface,    *)
(* namespace and list of addresses are ones the code can have.             *)
(***************************************************************************)
THEOREM TypeCorrect == Spec => []TypeOK
<1>1. CtlInv => TypeOK
  BY DEF CtlInv
<1> QED
  BY <1>1, CtlStart, CtlStep, PTL DEF Spec

\* The state of an attachment at the start.
LEMMA Start ==
  ASSUME Init, NEW a \in Att
  PROVE  /\ Pc(a) = "idle" /\ status[a] = "none" /\ assigned[a] = {}
         /\ L(a) = NoLink /\ M(a) = NoLink
         /\ J(a) = {} /\ \A f \in {4, 6} : K(a)[f] = "none"
<1>1. assigned[a] = {}
  BY DEF Init, Pool!Init
<1>2. ContainerOf[a] \in Cont /\ IfNameOf[a] \in Names /\ Mv \in Names /\ ChainOf[a] \in Chains
  BY VillageAssumption DEF Names, Chains
<1>3. Pc(a) = "idle"
  BY <1>2, NoCmdType DEF Init, Pc
<1>4. L(a) = NoLink /\ M(a) = NoLink
  BY <1>2 DEF Init, L, M
<1>5. J(a) = {} /\ \A f \in {4, 6} : K(a)[f] = "none"
  BY <1>2 DEF Init, J, K
<1> QED
  BY <1>1, <1>3, <1>4, <1>5 DEF Init

\* What holds under every fault.
BaseInv == CtlInv /\ Disjoint /\ MvOwned /\ \A a \in Att : AsgOK(a) /\ LinkOK(a)

LEMMA BaseStart == Init => BaseInv
<1> SUFFICES ASSUME Init
             PROVE  BaseInv
  OBVIOUS
<1>1. CtlInv
  BY CtlStart
<1>2. \A a \in Att : AsgOK(a) /\ LinkOK(a)
  BY Start DEF AsgOK, LinkOK, In, Added
<1>3. Disjoint
  BY Start DEF Disjoint
<1>4. MvOwned
  BY DEF MvOwned, Init, Names
<1> QED
  BY <1>1, <1>2, <1>3, <1>4 DEF BaseInv

LEMMA BaseStep == BaseInv /\ [Next]_vars => BaseInv'
<1> SUFFICES ASSUME BaseInv, [Next]_vars
             PROVE  BaseInv'
  OBVIOUS
<1>1. CtlInv' /\ Disjoint' /\ MvOwned'
  BY CtlStep, DisjointStep, MvOwnedStep DEF BaseInv
<1>2. \A a \in Att : AsgOK(a)' /\ LinkOK(a)'
  BY AsgStep, LinkStep DEF BaseInv
<1> QED
  BY <1>1, <1>2 DEF BaseInv

(***************************************************************************)
(* Whatever step fails, whoever is killed and whenever the namespace is    *)
(* removed, an attachment whose ADD succeeded has its veth with all its    *)
(* addresses, and its "mv0" if no other attachment is in its container     *)
(* (cmdAdd, ConfigureIface, Del of both controllers).                      *)
(***************************************************************************)
THEOREM ReadyIsComplete == Spec => []ReadyComplete
<1> DEFINE Inv == BaseInv /\ \A a \in Att : AloneOK(a)
<1>1. Init => Inv
  BY BaseStart, Start DEF AloneOK, Added
<1>2. Inv /\ [Next]_vars => Inv'
  <2> SUFFICES ASSUME Inv, [Next]_vars
               PROVE  Inv'
    OBVIOUS
  <2>1. BaseInv'
    BY BaseStep
  <2>2. \A a \in Att : AloneOK(a)'
    BY AloneStep DEF BaseInv
  <2> QED
    BY <2>1, <2>2
<1>3. Inv => ReadyComplete
  BY DEF BaseInv, LinkOK, AloneOK, ReadyComplete, L, M
<1> HIDE DEF Inv
<1> QED
  BY <1>1, <1>2, <1>3, PTL DEF Spec

(***************************************************************************)
(* While an attachment is in use, all its addresses of the bridge jump to  *)
(* a chain that masquerades, under every fault, if no other attachment has *)
(* its chain (SetupIPMasq, TeardownIPMasq).                                *)
(***************************************************************************)
THEOREM MasqueradingHolds == DistinctChains => (Spec => []MasqHolds)
<1> SUFFICES ASSUME DistinctChains
             PROVE  Spec => []MasqHolds
  OBVIOUS
<1> DEFINE Inv == CtlInv /\ \A a \in Att : MasqOK(a)
<1>1. Init => Inv
  <2> SUFFICES ASSUME Init
               PROVE  Inv
    OBVIOUS
  <2>1. \A a \in Att : MasqOK(a)
    BY Start DEF MasqOK, Added, In
  <2> QED
    BY <2>1, CtlStart
<1>2. Inv /\ [Next]_vars => Inv'
  <2> SUFFICES ASSUME Inv, [Next]_vars
               PROVE  Inv'
    OBVIOUS
  <2>1. \A a \in Att : MasqOK(a)'
    BY MasqStep
  <2> QED
    BY <2>1, CtlStep
<1>3. Inv => MasqHolds
  BY DEF MasqOK, Masked, MasqHolds, J, K
<1> HIDE DEF Inv
<1> QED
  BY <1>1, <1>2, <1>3, PTL DEF Spec

\* The invariant with the macvlan of an attachment at every stage.
MvInv == BaseInv /\ (\A a \in Att : MvOK(a)) /\ (MacvlansNamed => \A c \in Cont : TmpOK(c))

LEMMA MvStart == Init => MvInv
<1> SUFFICES ASSUME Init
             PROVE  MvInv
  OBVIOUS
<1>1. \A a \in Att : MvOK(a)
  BY Start DEF MvOK, Added, In
<1>2. \A c \in Cont : TmpOK(c)
  BY NoCmdType DEF Init, TmpOK, Half
<1> QED
  BY <1>1, <1>2, BaseStart DEF MvInv

LEMMA MvInvStep ==
  ASSUME OneMacVlan, "delMv" \notin MayFail
  PROVE  MvInv /\ [Next]_vars => MvInv'
<1> SUFFICES ASSUME MvInv, [Next]_vars
             PROVE  MvInv'
  OBVIOUS
<1>1. \A a \in Att : MvOK(a)'
  BY MvStep DEF MvInv, BaseInv
<1>2. MacvlansNamed => \A c \in Cont : TmpOK(c)'
  BY TmpStep DEF MvInv, BaseInv
<1> QED
  BY <1>1, <1>2, BaseStep DEF MvInv, MacvlansNamed

(***************************************************************************)
(* A failed ADD has given back its addresses and left no macvlan, under    *)
(* its name or a temporary one, if the steps that undo it work and only    *)
(* one attachment of a container has a macvlan (the deferred functions of  *)
(* cmdAdd and of macvlan.Add, and the LinkDel of createMacvlan).           *)
(***************************************************************************)
THEOREM FailedAddIsUndone ==
  OneMacVlan /\ MacvlansNamed /\ {"delMv", "undoLink", "undoIpam"} \cap MayFail = {} =>
     (Spec => []FailedAddUndone)
<1> SUFFICES ASSUME OneMacVlan, MacvlansNamed, {"delMv", "undoLink", "undoIpam"} \cap MayFail = {}
             PROVE  Spec => []FailedAddUndone
  OBVIOUS
<1>1. "delMv" \notin MayFail /\ "undoLink" \notin MayFail /\ "undoIpam" \notin MayFail
  OBVIOUS
<1>2. MvInv /\ [Next]_vars => MvInv'
  BY <1>1, MvInvStep
<1>3. MvInv => FailedAddUndone
  <2> SUFFICES ASSUME MvInv, NEW a \in Att, status[a] = "addFailed"
               PROVE  /\ assigned[a] = {}
                      /\ a \in MacVlan => M(a) = NoLink /\ U(a) = 0
    BY DEF FailedAddUndone, M, U
  <2>1. assigned[a] = {} /\ (a \in MacVlan => M(a) = NoLink)
    BY <1>1 DEF MvInv, BaseInv, AsgOK, MvOK
  <2>2. Pc(a) \notin Half
    BY Stages DEF MvInv, BaseInv, Half, AddSteps
  <2>3. a \in MacVlan => U(a) = 0
    BY <2>2, TmpOwned, VillageAssumption DEF MvInv, BaseInv
  <2> QED
    BY <2>1, <2>3
<1> QED
  BY <1>2, <1>3, MvStart, PTL DEF Spec

(***************************************************************************)
(* No address is on interfaces of two attachments in use, whatever fails   *)
(* but the deletion of "mv0" (cmdAdd's split of the IPAM result).          *)
(***************************************************************************)
THEOREM AddressesUsedOnce ==
  OneMacVlan /\ "delMv" \notin MayFail => (Spec => []UsedOnce)
<1> SUFFICES ASSUME OneMacVlan, "delMv" \notin MayFail
             PROVE  Spec => []UsedOnce
  OBVIOUS
<1>1. MvInv /\ [Next]_vars => MvInv'
  BY MvInvStep
<1>2. MvInv => UsedOnce
  <2> SUFFICES ASSUME MvInv
               PROVE  UsedOnce
    OBVIOUS
  <2>1. ASSUME NEW a \in Att, Added(a)
        PROVE  OnLinks(a) \subseteq assigned[a]
    <3>1. L(a) \in {NoLink, Bridged(a)}
      BY <2>1, Stages DEF MvInv, BaseInv, LinkOK
    <3>2. a \in MacVlan => M(a) \in {NoLink, assigned[a] \cap MvIPs}
      BY <2>1 DEF MvInv, MvOK
    <3>3. Bridged(a) \subseteq assigned[a]
      BY DEF Bridged
    <3> QED
      BY <3>1, <3>2, <3>3 DEF OnLinks, L, M
  <2>2. Disjoint
    BY DEF MvInv, BaseInv
  <2> QED
    BY <2>1, <2>2 DEF UsedOnce, Disjoint
<1> QED
  BY <1>1, <1>2, MvStart, PTL DEF Spec

(***************************************************************************)
(* When the DELs of all attachments with a chain have succeeded, nothing   *)
(* of them is left, however many ADDs failed or were killed before, and    *)
(* DELs before they had removed the interface, if the namespace is still   *)
(* there, createMacvlan is not killed half way and the bridge's end gets   *)
(* one address (cmdDel, bridge.Del, TeardownIPMasq).                       *)
(***************************************************************************)
THEOREM DelLeavesNothing ==
  DistinctChains /\ OneBridged /\ OneMacVlan /\ DelsFinish => (Spec => []DelCleans)
<1> SUFFICES ASSUME DistinctChains, OneBridged, OneMacVlan, DelsFinish
             PROVE  Spec => []DelCleans
  OBVIOUS
<1>0. "delMv" \notin MayFail /\ MacvlansNamed
  BY DEF DelsFinish, MacvlansNamed, Half
<1> DEFINE Inv == MvInv /\ \A a \in Att : CleanOK(a)
<1>1. Init => Inv
  <2> SUFFICES ASSUME Init
               PROVE  Inv
    OBVIOUS
  <2>1. \A a \in Att : CleanOK(a)
    BY Start DEF CleanOK, ToClean, NoRules, In
  <2> QED
    BY <2>1, MvStart
<1>2. Inv /\ [Next]_vars => Inv'
  <2> SUFFICES ASSUME Inv, [Next]_vars
               PROVE  Inv'
    OBVIOUS
  <2>1. \A a \in Att : CleanOK(a)'
    BY CleanStep DEF MvInv, BaseInv
  <2> QED
    BY <1>0, <2>1, MvInvStep
<1>3. Inv => DelCleans
  <2> SUFFICES ASSUME Inv, NEW a \in Att, \A b \in Att : ChainOf[b] = ChainOf[a] => status[b] = "none"
               PROVE  /\ assigned[a] = {}
                      /\ L(a) = NoLink
                      /\ NoRules(a)
                      /\ (\A b \in Att : ContainerOf[b] = ContainerOf[a] => status[b] = "none") =>
                            M(a) = NoLink /\ U(a) = 0
    BY DEF DelCleans, NoRules, L, M, J, K, U
  <2>1. status[a] = "none"
    OBVIOUS
  <2>2. assigned[a] = {} /\ L(a) = NoLink
    BY <2>1 DEF MvInv, BaseInv, AsgOK, LinkOK
  <2>3. NoRules(a)
    <3>1. Pc(a) # "delMasq"
      BY <2>1, Stages DEF MvInv, BaseInv, DelSteps
    <3>2. ToClean(a) = {}
      BY <2>2, <3>1 DEF ToClean, In
    <3> QED
      BY <3>2, NothingLeft
  <2>4. ASSUME \A b \in Att : ContainerOf[b] = ContainerOf[a] => status[b] = "none"
        PROVE  M(a) = NoLink /\ U(a) = 0
    <3>1. ContainerOf[a] \in Cont
      BY VillageAssumption
    <3>2. M(a) = NoLink
      <4>1. SUFFICES ASSUME M(a) # NoLink
                     PROVE  FALSE
        OBVIOUS
      <4>2. PICK b \in MacVlan : ContainerOf[b] = ContainerOf[a]
        BY <3>1, <4>1 DEF MvInv, BaseInv, MvOwned, M
      <4>3. M(b) = NoLink
        BY <2>4, <4>2, VillageAssumption DEF MvInv, MvOK
      <4> QED
        BY <4>1, <4>2, <4>3 DEF M
    <3>3. cmd[ContainerOf[a]].pc \notin Half
      BY <2>4, <3>1 DEF MvInv, BaseInv, CtlInv, CmdOK, Half, AddSteps
    <3>4. U(a) = 0
      BY <1>0, <3>1, <3>3 DEF MvInv, TmpOK, U
    <3> QED
      BY <3>2, <3>4
  <2> QED
    BY <2>2, <2>3, <2>4
<1> HIDE DEF Inv
<1> QED
  BY <1>1, <1>2, <1>3, PTL DEF Spec
=============================================================================
