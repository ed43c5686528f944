----------------------------- MODULE NodeRoutes -----------------------------
(***************************************************************************)
(* The controller of every node: it registers its node at the API server   *)
(* and in etcd, lists the records of all nodes and adds a route to the pod *)
(* CIDR of each of the others (src/pkg/controller).                        *)
(*                                                                         *)
(* After the list it watches the key "/village/nodes" itself.  The records *)
(* are at "/village/nodes/<host>" and the watch has no prefix, so it       *)
(* delivers nothing: a controller that watches has no further step.  The   *)
(* variable missed holds what the watch fails to deliver.                  *)
(***************************************************************************)
CONSTANTS Node,       \* the hosts, named by node.HostName
          PublicIP,   \* addresses that a parent interface may have
          NoIP,       \* no route
          NoRecord    \* no key in etcd

VARIABLES
    addr,     \* the first IPv4 address of each node's parent interface
    podCIDR,  \* whether Spec.PodCIDR of the node has been assigned
    record,   \* the node's record in etcd
    route,    \* route[n][m]: the gateway of the route of n to m's pod CIDR
    pc,       \* where the controller of a node is
    fresh,    \* the Node object is as the controller fetched it
    info,     \* the NodeNetInfo that the controller is publishing
    kvs,      \* the listed records that are still to be synchronised
    failed,   \* the nodes about which SyncRoute has logged an error
    missed    \* the nodes whose record was written since the list

nodeVars == <<addr, podCIDR, record, route, pc, fresh, info, kvs, failed, missed>>

ASSUME NodeConstants ==
    /\ NoIP \notin PublicIP
    /\ NoRecord \notin [ip : PublicIP, cidr : BOOLEAN]

Record == [ip : PublicIP, cidr : BOOLEAN]

NodeTypeOK ==
    /\ addr \in [Node -> PublicIP]
    /\ podCIDR \in [Node -> BOOLEAN]
    /\ record \in [Node -> Record \cup {NoRecord}]
    /\ route \in [Node -> [Node -> PublicIP \cup {NoIP}]]
    /\ pc \in [Node -> {"down", "get", "update", "put", "list", "sync", "watch", "idle"}]
    /\ fresh \in [Node -> BOOLEAN]
    /\ info \in [Node -> Record \cup {NoRecord}]
    /\ kvs \in [Node -> [Node -> Record \cup {NoRecord}]]
    /\ failed \in [Node -> SUBSET Node]
    /\ missed \in [Node -> SUBSET Node]

NodeInit ==
    /\ addr \in [Node -> PublicIP]
    /\ podCIDR \in [Node -> BOOLEAN]
    /\ record = [n \in Node |-> NoRecord]
    /\ route = [n \in Node |-> [m \in Node |-> NoIP]]
    /\ pc = [n \in Node |-> "down"]
    /\ fresh = [n \in Node |-> FALSE]
    /\ info = [n \in Node |-> NoRecord]
    /\ kvs = [n \in Node |-> [m \in Node |-> NoRecord]]
    /\ failed = [n \in Node |-> {}]
    /\ missed = [n \in Node |-> {}]

At(n, from, to) ==
    /\ pc[n] = from
    /\ pc' = [pc EXCEPT ![n] = to]

(* The process ends, and what it knew is gone.                              *)
Ended(n) ==
    /\ pc' = [pc EXCEPT ![n] = "down"]
    /\ fresh' = [fresh EXCEPT ![n] = FALSE]
    /\ info' = [info EXCEPT ![n] = NoRecord]
    /\ kvs' = [kvs EXCEPT ![n] = [m \in Node |-> NoRecord]]
    /\ failed' = [failed EXCEPT ![n] = {}]
    /\ missed' = [missed EXCEPT ![n] = {}]

(* A new process runs Service(), which calls InitNodeInfo. *)
Service(n) ==
    /\ At(n, "down", "get")
    /\ UNCHANGED <<addr, podCIDR, record, route, fresh, info, kvs, failed, missed>>

(* Nodes().Get, then the address of the parent interface and the pod CIDR. *)
GetNodeInfo(n) ==
    /\ At(n, "get", "update")
    /\ fresh' = [fresh EXCEPT ![n] = TRUE]
    /\ info' = [info EXCEPT ![n] = [ip |-> addr[n], cidr |-> podCIDR[n]]]
    /\ UNCHANGED <<addr, podCIDR, record, route, kvs, failed, missed>>

(* Nodes().Update with the annotations: refused when somebody else has      *)
(* written the object since the Get.  The controller itself wrote it now.   *)
UpdateNode(n) ==
    /\ fresh[n]
    /\ At(n, "update", "put")
    /\ fresh' = [fresh EXCEPT ![n] = FALSE]
    /\ UNCHANGED <<addr, podCIDR, record, route, info, kvs, failed, missed>>

Listed(n) == pc[n] \in {"sync", "watch"}

Publish(n) ==
    /\ record' = [record EXCEPT ![n] = info[n]]
    /\ missed' = [m \in Node |-> IF Listed(m) THEN missed[m] \cup {n} ELSE missed[m]]
    /\ info' = [info EXCEPT ![n] = NoRecord]

Put(n) ==
    /\ At(n, "put", "list")
    /\ Publish(n)
    /\ UNCHANGED <<addr, podCIDR, route, fresh, kvs, failed>>

(* Any call of InitNodeInfo may fail, and Service returns the error.  A Put *)
(* that is not answered may have been done.                                 *)
InitNodeInfoFails(n) ==
    \/ /\ pc[n] \in {"get", "update", "put"}
       /\ Ended(n)
       /\ UNCHANGED <<addr, podCIDR, record, route>>
    \/ /\ At(n, "put", "down")
       /\ Publish(n)
       /\ UNCHANGED <<addr, podCIDR, route, fresh, kvs, failed>>

(* Variant: the Get may be answered by a member of etcd that lags behind.   *)
ListSerializable(n) ==
    /\ At(n, "list", "sync")
    /\ \E seen \in SUBSET Node :
          kvs' = [kvs EXCEPT ![n] = [m \in Node |-> IF m \in seen THEN record[m] ELSE NoRecord]]
    /\ UNCHANGED <<addr, podCIDR, record, route, fresh, info, failed, missed>>

(* SyncRoute, started by Service, gets the records of all nodes at one      *)
(* revision.                                                                *)
List(n) ==
    /\ At(n, "list", "sync")
    /\ kvs' = [kvs EXCEPT ![n] = record]
    /\ UNCHANGED <<addr, podCIDR, record, route, fresh, info, failed, missed>>

(* SyncRoute returns when the Get fails, while Service waits for ever. *)
ListFails(n) ==
    /\ At(n, "list", "idle")
    /\ UNCHANGED <<addr, podCIDR, record, route, fresh, info, kvs, failed, missed>>

Done(n, m) == kvs' = [kvs EXCEPT ![n][m] = NoRecord]

(* Variant: a route that exists already is taken for the one asked for.     *)
SyncNodeRouteIfAbsent(n, m) ==
    /\ pc[n] = "sync"
    /\ kvs[n][m] # NoRecord
    /\ \/ n = m /\ UNCHANGED route
       \/ /\ n # m
          /\ kvs[n][m].cidr
          /\ route' = [route EXCEPT ![n][m] = IF @ = NoIP THEN kvs[n][m].ip ELSE @]
    /\ Done(n, m)
    /\ UNCHANGED <<addr, podCIDR, record, pc, fresh, info, failed, missed>>

(* SyncNodeRoute of a record that needs no route or gets it: the own one is *)
(* skipped, and the others must have a CIDR and no route to it yet.         *)
SyncNodeRoute(n, m) ==
    /\ pc[n] = "sync"
    /\ kvs[n][m] # NoRecord
    /\ \/ n = m /\ UNCHANGED route
       \/ /\ n # m
          /\ kvs[n][m].cidr
          /\ route[n][m] = NoIP
          /\ route' = [route EXCEPT ![n][m] = kvs[n][m].ip]
    /\ Done(n, m)
    /\ UNCHANGED <<addr, podCIDR, record, pc, fresh, info, failed, missed>>

(* It fails without a CIDR, when there is a route already, which stays as   *)
(* it is, and when the kernel cannot reach the gateway.  The error is       *)
(* logged and the loop goes on.                                             *)
SyncNodeRouteFails(n, m) ==
    /\ pc[n] = "sync"
    /\ n # m
    /\ kvs[n][m] # NoRecord
    /\ Done(n, m)
    /\ failed' = [failed EXCEPT ![n] = @ \cup {m}]
    /\ UNCHANGED <<addr, podCIDR, record, route, pc, fresh, info, missed>>

Watch(n) ==
    /\ \A m \in Node : kvs[n][m] = NoRecord
    /\ At(n, "sync", "watch")
    /\ UNCHANGED <<addr, podCIDR, record, route, fresh, info, kvs, failed, missed>>

(* The controller's process ends, and the routes stay. *)
KillController(n) ==
    /\ pc[n] # "down"
    /\ Ended(n)
    /\ UNCHANGED <<addr, podCIDR, record, route>>

(* The machine restarts without its routes and maybe with another address.  *)
Reboot(n) ==
    /\ Ended(n)
    /\ route' = [route EXCEPT ![n] = [m \in Node |-> NoIP]]
    /\ \E ip \in PublicIP : addr' = [addr EXCEPT ![n] = ip]
    /\ UNCHANGED <<podCIDR, record>>

(* The kubelet writes its node's object, or the controller manager assigns  *)
(* the pod CIDR.                                                            *)
NodeChanges(n) ==
    /\ fresh' = [fresh EXCEPT ![n] = FALSE]
    /\ podCIDR' \in {podCIDR, [podCIDR EXCEPT ![n] = TRUE]}
    /\ UNCHANGED <<addr, record, route, pc, info, kvs, failed, missed>>

NodeNext ==
    \E n \in Node :
        \/ Service(n) \/ GetNodeInfo(n) \/ UpdateNode(n) \/ Put(n)
        \/ InitNodeInfoFails(n)
        \/ List(n) \/ ListFails(n) \/ Watch(n)
        \/ \E m \in Node : SyncNodeRoute(n, m) \/ SyncNodeRouteFails(n, m)
        \/ KillController(n) \/ Reboot(n) \/ NodeChanges(n)

NodeSpec == NodeInit /\ [][NodeNext]_nodeVars
-----------------------------------------------------------------------------
Published(n) == record[n] # NoRecord

(***************************************************************************)
(* A controller that has reached its watch has, for every record written   *)
(* before it listed, the route that the record asks for, or has said in    *)
(* its log that it has not, however the other nodes came, went and changed *)
(* their addresses meanwhile (SyncRoute, controller.go:85-94).             *)
(***************************************************************************)
RoutedOrLogged ==
    \A n, m \in Node :
        pc[n] = "watch" /\ n # m /\ Published(m) /\ m \notin missed[n]
            => route[n][m] = record[m].ip \/ m \in failed[n]

(***************************************************************************)
(* Although no event of the watch ever arrives, of two nodes that watch at *)
(* least one has dealt with the other, because each publishes its own      *)
(* record before it lists (InitNodeInfo before SyncRoute,                  *)
(* controller.go:30-34).                                                   *)
(***************************************************************************)
OneWay ==
    \A n, m \in Node :
        n # m /\ pc[n] = "watch" /\ pc[m] = "watch"
            => \/ route[n][m] = record[m].ip \/ m \in failed[n]
               \/ route[m][n] = record[n].ip \/ n \in failed[m]
=============================================================================
