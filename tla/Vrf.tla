--------------------------------- MODULE Vrf ---------------------------------
(***************************************************************************)
(* The vrf plugin: the interface of an attachment is enslaved to a VRF     *)
(* device of its namespace, which the first one makes and the last one     *)
(* removes.  The plugin takes no lock.                                     *)
(***************************************************************************)
EXTENDS PluginChain, FiniteSetsExt

CONSTANTS
    VrfConfs,       \* the configurations considered: functions from Att to
                    \* records of a vrfname and a table (0: any free one)
    KeepAddr,       \* net.ipv6.conf.all.keep_addr_on_down
    MaxTable        \* the tables are 1 .. MaxTable (2^32 - 2)

ASSUME VrfAssumption ==
    /\ VrfConfs \subseteq [Att -> [vrfname : STRING \ {"none"}, table : Nat]]
    /\ MaxTable \in Nat

VARIABLES
    vrfConf,        \* vrfConf[a]: the configuration of a
    vrfs            \* vrfs[n]: the table of the VRF n, or 0

vrfVars == <<vrfConf, vrfs>>

VrfNames == {c[a].vrfname : c \in VrfConfs, a \in Att}

VrfInit ==
    /\ vrfConf \in VrfConfs
    /\ vrfs = [n \in VrfNames |-> 0]

NameOf(a) == vrfConf[a].vrfname

takenTables == {vrfs[n] : n \in VrfNames} \ {0}

assignedInterfaces(n) == {a \in Att : link[a] # NoLink /\ link[a].master = n}

----------------------------------------------------------------------------

(* ADD: findVRF, createVRF when there is none, addInterface *)

VrfAdd(a) ==
    LET table == vrfs[NameOf(a)] IN
    /\ proc[a].cmd = "add"
    /\ IF table = 0 THEN Do(a, <<[op |-> "list links"]>>)
       ELSE IF vrfConf[a].table \notin {0, table} THEN Error(a)
       ELSE Do(a, <<[op |-> "get link"]>>)

(* Variant: as many tables are taken as there are VRFs. *)
ChooseTableByCount(a) ==
    LET chosen == IF vrfConf[a].table # 0 THEN vrfConf[a].table
                  ELSE Cardinality(takenTables) + 1 IN
    /\ At(a, "vrf", "list links")
    /\ Do(a, <<[op |-> "add vrf", table |-> chosen], [op |-> "vrf up"], [op |-> "get link"]>>)
    /\ UNCHANGED <<link, vrfVars>>

(* findFreeRoutingTableID *)
ChooseTable(a) ==
    LET free == (1..MaxTable) \ takenTables
        chosen == IF vrfConf[a].table # 0 THEN vrfConf[a].table ELSE Min(free) IN
    /\ At(a, "vrf", "list links")
    /\ IF vrfConf[a].table = 0 /\ free = {} THEN Error(a)
       ELSE Do(a, <<[op |-> "add vrf", table |-> chosen],
                    [op |-> "vrf up"], [op |-> "get link"]>>)
    /\ UNCHANGED <<link, vrfVars>>

AddVrf(a) ==
    /\ At(a, "vrf", "add vrf")
    /\ IF vrfs[NameOf(a)] = 0
       THEN vrfs' = [vrfs EXCEPT ![NameOf(a)] = Call(a).table] /\ Do(a, Rest(a))
       ELSE Error(a) /\ UNCHANGED vrfs
    /\ UNCHANGED <<link, vrfConf>>

SetVrfUp(a) ==
    /\ At(a, "vrf", "vrf up")
    /\ IF vrfs[NameOf(a)] # 0 THEN Do(a, Rest(a)) ELSE Error(a)
    /\ UNCHANGED <<link, vrfVars>>

(* An interface with a master is refused; its IPv6 addresses are noted. *)
GetLink(a) ==
    /\ At(a, "vrf", "get link")
    /\ IF link[a] = NoLink THEN Error(a)
       ELSE IF link[a].master # "none" THEN Error(a)
       ELSE Do(a, <<[op |-> "set master", before |-> link[a].v6]>>)
    /\ UNCHANGED <<link, vrfVars>>

(* The kernel drops the IPv6 addresses of an interface that gets a master. *)
SetMaster(a) ==
    LET before == Call(a).before IN
    /\ At(a, "vrf", "set master")
    /\ IF vrfs[NameOf(a)] = 0 THEN Error(a) /\ UNCHANGED link
       ELSE /\ link' = [link EXCEPT ![a].master = NameOf(a),
                                    ![a].v6 = IF KeepAddr THEN @ ELSE {}]
            /\ Do(a, <<[op |-> "restore", before |-> before]>>)
    /\ UNCHANGED vrfVars

RestoreAddress(a) ==
    LET lost == Call(a).before \ link[a].v6 IN
    /\ At(a, "vrf", "restore")
    /\ \/ lost = {} /\ Do(a, <<>>) /\ UNCHANGED link
       \/ \E i \in lost : /\ link' = [link EXCEPT ![a].v6 = @ \cup {i}]
                          /\ Do(a, proc[a].todo)
    /\ UNCHANGED vrfVars

----------------------------------------------------------------------------

(* Variant: an attachment without a result has no part in the VRF. *)
VrfDelOfResult(a) ==
    /\ proc[a].cmd = "del"
    /\ Do(a, IF vrfs[NameOf(a)] = 0 \/ ~cache[a] THEN <<>> ELSE <<[op |-> "reset master"]>>)

(* DEL: without the VRF there is nothing to do.  An interface that is gone *)
(* is an error.  That the kernel drops the IPv6 addresses here as well is  *)
(* left out: the main plugin removes the interface next. *)
VrfDel(a) ==
    /\ proc[a].cmd = "del"
    /\ Do(a, IF vrfs[NameOf(a)] = 0 THEN <<>> ELSE <<[op |-> "reset master"]>>)

resetMaster(a) ==
    /\ At(a, "vrf", "reset master")
    /\ IF link[a] = NoLink THEN Error(a) /\ UNCHANGED link
       ELSE /\ link' = [link EXCEPT ![a].master = "none"]
            /\ Do(a, <<[op |-> "list members"]>>)
    /\ UNCHANGED vrfVars

ListMembers(a) ==
    /\ At(a, "vrf", "list members")
    /\ Do(a, IF assignedInterfaces(NameOf(a)) = {} THEN <<[op |-> "delete vrf"]>> ELSE <<>>)
    /\ UNCHANGED <<link, vrfVars>>

(* Whatever is enslaved to the VRF by then loses its master. *)
DeleteVrf(a) ==
    /\ At(a, "vrf", "delete vrf")
    /\ IF vrfs[NameOf(a)] = 0 THEN Error(a) /\ UNCHANGED <<link, vrfs>>
       ELSE /\ vrfs' = [vrfs EXCEPT ![NameOf(a)] = 0]
            /\ link' = [b \in Att |-> IF b \in assignedInterfaces(NameOf(a))
                                      THEN [link[b] EXCEPT !.master = "none"] ELSE link[b]]
            /\ Do(a, <<>>)
    /\ UNCHANGED vrfConf

(* CHECK looks, and drops what it finds. *)
VrfCheck(a) ==
    /\ proc[a].cmd = "check"
    /\ Do(a, <<>>)

VrfStart(a) ==
    /\ At(a, "vrf", "start")
    /\ \/ VrfAdd(a)
       \/ VrfDel(a)
       \/ VrfCheck(a)
    /\ UNCHANGED <<link, vrfVars>>

VrfFails(a) ==
    /\ \E op \in {"list links", "add vrf", "vrf up", "get link", "set master", "restore",
                  "reset master", "list members", "delete vrf"} : At(a, "vrf", op)
    /\ Fault(a, Failed)
    /\ UNCHANGED <<link, vrfVars>>

VrfStep(a) ==
    \/ VrfStart(a)
    \/ ChooseTable(a)
    \/ AddVrf(a)
    \/ SetVrfUp(a)
    \/ GetLink(a)
    \/ SetMaster(a)
    \/ RestoreAddress(a)
    \/ resetMaster(a)
    \/ ListMembers(a)
    \/ DeleteVrf(a)
    \/ VrfFails(a)

----------------------------------------------------------------------------

(* Two VRFs whose tables the plugin chose do not share one. *)
OwnTable(a) ==
    \A b \in Att :
        vrfConf[a].table = 0 /\ vrfConf[b].table = 0 /\ NameOf(a) # NameOf(b)
            => vrfs[NameOf(a)] # vrfs[NameOf(b)]

(* An attachment that is ready is in its VRF (addInterface, vrf.go:86-134), *)
(* with all its addresses and a table that no other VRF was given, also     *)
(* after other members and other VRFs have come and gone.                   *)
VrfHeld ==
    \A a \in Att : Ready(a, "vrf") =>
        /\ vrfs[NameOf(a)] # 0
        /\ link[a].master = NameOf(a)
        /\ link[a].v6 = Fresh[a].v6
        /\ OwnTable(a)

(* The last attachment of a VRF takes it along: a VRF with nobody left is  *)
(* not there, also when an ADD stopped before it used the VRF it made.     *)
VrfGone ==
    \A n \in VrfNames : vrfs[n] # 0 => \E a \in Att : NameOf(a) = n /\ told[a] # "gone"
=============================================================================
