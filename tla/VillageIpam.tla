---------------------------- MODULE VillageIpam ----------------------------
(***************************************************************************)
(* The ConfigMap client of the village-ipam plugin: AssignIp and DeleteIp, *)
(* run by plugin processes of any node, read the ConfigMap, change the map *)
(* from addresses to containers, and write the ConfigMap back.  The API    *)
(* server refuses a write of an object that has changed since it was read, *)
(* and leaves the version alone when a write changes nothing               *)
(* (src/plugins/ipam/village-ipam/client.go).                              *)
(***************************************************************************)
EXTENDS Integers, Sequences, FiniteSetsExt

CONSTANTS Container,
          Interfaces,  \* the ranges of the ConfigMap: a sequence of [first, last]
          Byte,        \* how many values the last byte of an address takes
          Nil,         \* the address "<nil>"
          NoMap,       \* the ConfigMap has no containerIps yet
          Refused      \* an object of an old version

VARIABLES
    cnIpMap,   \* containerIps: the container each address is bound to
    proc,      \* the client call of each container, with what it will write;
               \* Refused when the server will not accept it any more
    late,      \* the write of a killed call that is still on its way
    held,      \* the addresses that AssignIp returned
    gone       \* the containers whose last call was a DeleteIp that succeeded

ipamVars == <<cnIpMap, proc, late, held, gone>>

(* The addresses of the ranges. *)
Ips == UNION {Interfaces[i].first .. Interfaces[i].last : i \in DOMAIN Interfaces}

ASSUME IpamConstants ==
    /\ Interfaces \in Seq([first : Nat, last : Nat])
    /\ Byte \in Nat \ {0}
    /\ NoMap # Refused
    /\ \A D \in SUBSET (Ips \cup {Nil}) : {NoMap, Refused} \cap [D -> Container] = {}

Idle == [op |-> "none", new |-> Refused, ips |-> {}]

IpamInit ==
    /\ cnIpMap = NoMap
    /\ proc = [c \in Container |-> Idle]
    /\ late = [c \in Container |-> Refused]
    /\ held = [c \in Container |-> {}]
    /\ gone = {}

Bindings == IF cnIpMap = NoMap THEN <<>> ELSE cnIpMap

(* The first address of a range, but for one that ends in a zero byte.      *)
getMin(r) == IF r.first % Byte = 0 THEN r.first + 1 ELSE r.first

(* Variant: as many addresses are taken as the map has entries.             *)
FreeIpByCount(r, taken) ==
    LET ip == getMin(r) + Cardinality(taken)
    IN  IF ip > r.last THEN Nil ELSE ip

(* The first free address of a range; Nil when the loop finds none.         *)
FreeIp(r, taken) ==
    LET free == (getMin(r) .. r.last) \ taken
    IN  IF free = {} THEN Nil ELSE Min(free)

(* The addresses chosen for the interfaces one after the other, each of     *)
(* which is bound before the next is chosen.                                *)
Choose(bound) ==
    LET pick[i \in 0 .. Len(Interfaces)] ==
            IF i = 0 THEN {} ELSE pick[i - 1] \cup {FreeIp(Interfaces[i], bound \cup pick[i - 1])}
    IN  pick[Len(Interfaces)]

Bind(m, ips, c) == [ip \in DOMAIN m \cup ips |-> IF ip \in ips THEN c ELSE m[ip]]

(* Variant: one address of the container is found and removed.              *)
UnbindFirst(m, c) ==
    LET own == {ip \in DOMAIN m : m[ip] = c}
    IN  [ip \in DOMAIN m \ (IF own = {} THEN {} ELSE {CHOOSE i \in own : TRUE}) |-> m[ip]]

(* Without every address of the container. *)
Unbind(m, c) == [ip \in {i \in DOMAIN m : m[i] # c} |-> m[ip]]

(* AssignIp: the Get and the choice.  A ConfigMap without the map gets an   *)
(* empty one.                                                               *)
AssignIp(c) ==
    /\ proc[c] = Idle
    /\ held[c] = {}
    /\ LET ips == Choose(DOMAIN Bindings)
       IN  proc' = [proc EXCEPT ![c] = [op |-> "assign", new |-> Bind(Bindings, ips, c), ips |-> ips]]
    /\ gone' = gone \ {c}
    /\ UNCHANGED <<cnIpMap, late, held>>

(* DeleteIp: the Get, which fails to parse a map that is not there.         *)
DeleteIp(c) ==
    /\ proc[c] = Idle
    /\ cnIpMap # NoMap
    /\ proc' = [proc EXCEPT ![c] = [op |-> "delete", new |-> Unbind(cnIpMap, c), ips |-> {}]]
    /\ held' = [held EXCEPT ![c] = {}]
    /\ UNCHANGED <<cnIpMap, late, gone>>

(* Variant: a write does not say which version it replaces, so none is      *)
(* refused.                                                                 *)
StoreAnyVersion(m, procs, lates) ==
    /\ cnIpMap' = m
    /\ proc' = procs
    /\ late' = lates

(* The server stores an object.  If that changes it, every write that was   *)
(* prepared from the version before will be refused.                        *)
Store(m, procs, lates) ==
    /\ cnIpMap' = m
    /\ IF m = cnIpMap
       THEN proc' = procs /\ late' = lates
       ELSE /\ proc' = [c \in Container |-> [procs[c] EXCEPT !.new = Refused, !.ips = {}]]
            /\ late' = [c \in Container |-> Refused]

(* Update succeeds.  After a DeleteIp the container has nothing, unless the *)
(* write of a killed AssignIp is still on its way.                          *)
Update(c) ==
    /\ proc[c].new # Refused
    /\ Store(proc[c].new, [proc EXCEPT ![c] = Idle], late)
    /\ held' = [held EXCEPT ![c] = proc[c].ips]
    /\ gone' = IF proc[c].op = "delete" /\ late[c] = Refused THEN gone \cup {c} ELSE gone

(* Update fails, for a conflict or for any other reason.                    *)
UpdateFails(c) ==
    /\ proc[c] # Idle
    /\ proc' = [proc EXCEPT ![c] = Idle]
    /\ UNCHANGED <<cnIpMap, late, held, gone>>

(* The process is killed, or gives up, after it has sent its write, which   *)
(* may still arrive (one such write for a container at a time).             *)
KillPlugin(c) ==
    /\ proc[c].new # Refused
    /\ late[c] = Refused
    /\ late' = [late EXCEPT ![c] = proc[c].new]
    /\ proc' = [proc EXCEPT ![c] = Idle]
    /\ UNCHANGED <<cnIpMap, held, gone>>

LateUpdate(c) ==
    /\ late[c] # Refused
    /\ Store(late[c], proc, [late EXCEPT ![c] = Refused])
    /\ UNCHANGED <<held, gone>>

(* The write is lost. *)
LateUpdateLost(c) ==
    /\ late[c] # Refused
    /\ late' = [late EXCEPT ![c] = Refused]
    /\ UNCHANGED <<cnIpMap, proc, held, gone>>

IpamNext ==
    \E c \in Container :
        \/ AssignIp(c) \/ DeleteIp(c)
        \/ Update(c) \/ UpdateFails(c) \/ KillPlugin(c)
        \/ LateUpdate(c) \/ LateUpdateLost(c)

IpamSpec == IpamInit /\ [][IpamNext]_ipamVars
-----------------------------------------------------------------------------
(***************************************************************************)
(* Every address that AssignIp has returned is bound to its container in   *)
(* the ConfigMap, whatever other nodes have written since, so nobody else  *)
(* is given it (the version check of Update, client.go:103).  "<nil>", the *)
(* answer of an exhausted range, is no address.                            *)
(***************************************************************************)
HeldBound ==
    \A c \in Container : \A ip \in held[c] \ {Nil} :
        ip \in DOMAIN Bindings /\ Bindings[ip] = c

(***************************************************************************)
(* After a DeleteIp nothing is bound to the container, also when an        *)
(* earlier AssignIp of it failed, or was killed, after its write had been  *)
(* done (client.go:161-165 goes by the container, not by the address).     *)
(***************************************************************************)
DeleteForgets == \A c \in gone : \A ip \in DOMAIN Bindings : Bindings[ip] # c

(* The client implements the abstract pool. *)
Pool == INSTANCE AddressPool
            WITH Att <- Container,
                 Results <- SUBSET Ips,
                 assigned <- [c \in Container |-> held[c] \ {Nil}]

(***************************************************************************)
(* AssignIp and DeleteIp keep the promise of an IPAM plugin: addresses are *)
(* given to one container at a time and taken back whole.                  *)
(***************************************************************************)
IpamPoolSpec == Pool!Spec
=============================================================================
