-------------------------- MODULE NodeRoutesProofs --------------------------
(***************************************************************************)
(* The promises of the controllers of any number of nodes, with any number *)
(* of addresses: what RoutedOrLogged and OneWay say follows from an        *)
(* invariant about what a controller has listed, still has to synchronise  *)
(* and has missed.                                                         *)
(***************************************************************************)
EXTENDS NodeRoutes, TLAPS

(* What a controller is about to publish is a record. *)
InfoReady ==
    \A n \in Node : pc[n] \in {"update", "put"} => info[n] \in Record

(* A controller lists the records only after it has written its own. *)
PublishedFirst ==
    \A n \in Node : pc[n] = "list" \/ Listed(n) => Published(n)

(* A controller misses records only after it has listed them. *)
NothingMissedBefore ==
    \A n \in Node : ~Listed(n) => missed[n] = {}

(* A controller that watches has gone through its whole list. *)
ListDone ==
    \A n \in Node : pc[n] = "watch" => \A m \in Node : kvs[n][m] = NoRecord

(* A record that was not missed is in the list still, or has its route, or  *)
(* is one about which an error was logged.                                  *)
Dealt(n, m) ==
    \/ kvs[n][m] = record[m]
    \/ route[n][m] = record[m].ip
    \/ m \in failed[n]

ListedDealt ==
    \A n, m \in Node :
        n # m /\ Listed(n) /\ Published(m) /\ m \notin missed[n] => Dealt(n, m)

(* Two controllers that have both listed have not both missed each other:   *)
(* the one that listed last had the record of the other in its list.        *)
NotBothMissed ==
    \A n, m \in Node :
        n # m /\ Listed(n) /\ Listed(m) => m \notin missed[n] \/ n \notin missed[m]

RouteInv ==
    /\ NodeTypeOK
    /\ InfoReady
    /\ PublishedFirst
    /\ NothingMissedBefore
    /\ ListDone
    /\ ListedDealt
    /\ NotBothMissed

----------------------------------------------------------------------------

(* Before the first controller runs there is nothing to go wrong. *)
LEMMA InitRouteInv == NodeInit => RouteInv
<1> SUFFICES ASSUME NodeInit PROVE RouteInv
  OBVIOUS
<1>1. NodeTypeOK
  BY DEF NodeInit, NodeTypeOK, Record
<1>2. InfoReady /\ PublishedFirst /\ NothingMissedBefore /\ ListDone
  BY DEF NodeInit, InfoReady, PublishedFirst, NothingMissedBefore, ListDone, Listed
<1>3. ListedDealt /\ NotBothMissed
  BY DEF NodeInit, ListedDealt, NotBothMissed, Listed
<1> QED
  BY <1>1, <1>2, <1>3 DEF RouteInv

(* A process that ends takes what it knew along and disturbs nobody else:   *)
(* the case of failed calls, of kills and of reboots.                       *)
LEMMA EndedKeeps ==
    ASSUME RouteInv, NEW n \in Node, Ended(n),
           UNCHANGED <<podCIDR, record>>,
           \/ UNCHANGED <<addr, route>>
           \/ /\ route' = [route EXCEPT ![n] = [m \in Node |-> NoIP]]
              /\ \E ip \in PublicIP : addr' = [addr EXCEPT ![n] = ip]
    PROVE  RouteInv'
<1> USE DEF RouteInv, Ended
<1>1. NodeTypeOK'
  <2>1. [m \in Node |-> NoIP] \in [Node -> PublicIP \cup {NoIP}]
    OBVIOUS
  <2>2. [m \in Node |-> NoRecord] \in [Node -> Record \cup {NoRecord}]
    OBVIOUS
  <2>3. (addr \in [Node -> PublicIP])' /\ (podCIDR \in [Node -> BOOLEAN])'
        /\ (record \in [Node -> Record \cup {NoRecord}])'
    BY DEF NodeTypeOK
  <2>4. (route \in [Node -> [Node -> PublicIP \cup {NoIP}]])'
    BY <2>1 DEF NodeTypeOK
  <2>5. (kvs \in [Node -> [Node -> Record \cup {NoRecord}]])'
    BY <2>2 DEF NodeTypeOK
  <2>6. (pc \in [Node -> {"down", "get", "update", "put", "list", "sync", "watch", "idle"}])'
        /\ (fresh \in [Node -> BOOLEAN])' /\ (info \in [Node -> Record \cup {NoRecord}])'
    BY DEF NodeTypeOK
  <2>7. (failed \in [Node -> SUBSET Node])' /\ (missed \in [Node -> SUBSET Node])'
    BY DEF NodeTypeOK
  <2> QED
    BY <2>3, <2>4, <2>5, <2>6, <2>7 DEF NodeTypeOK
<1>3. \A m \in Node : Listed(m)' => m # n /\ Listed(m) /\ route'[m] = route[m]
                                    /\ kvs'[m] = kvs[m] /\ failed'[m] = failed[m]
                                    /\ missed'[m] = missed[m]
  BY DEF NodeTypeOK, Listed
<1>4. InfoReady'
  BY DEF InfoReady, NodeTypeOK
<1>5. PublishedFirst'
  BY DEF PublishedFirst, Published, Listed, NodeTypeOK
<1>6. NothingMissedBefore'
  BY DEF NothingMissedBefore, Listed, NodeTypeOK
<1>7. ListDone'
  BY DEF ListDone, NodeTypeOK
<1>8. ListedDealt'
  BY <1>3 DEF ListedDealt, Dealt, Published
<1>9. NotBothMissed'
  BY <1>3 DEF NotBothMissed
<1> QED
  BY <1>1, <1>4, <1>5, <1>6, <1>7, <1>8, <1>9

(* A record that is written is missed by every controller that has listed,  *)
(* so it breaks no promise; whoever writes it has not listed yet.           *)
LEMMA PublishKeeps ==
    ASSUME RouteInv, NEW n \in Node, NEW to \in {"list", "down"},
           At(n, "put", to), Publish(n),
           UNCHANGED <<addr, podCIDR, route, fresh, kvs, failed>>
    PROVE  RouteInv'
<1> USE DEF RouteInv, At, Publish
<1>1. NodeTypeOK'
  BY DEF NodeTypeOK, InfoReady
<1>2. \A m \in Node : (Listed(m)' <=> Listed(m)) /\ ~Listed(n)
  BY DEF Listed, NodeTypeOK
<1>3. \A m \in Node : (m # n => record'[m] = record[m]) /\ record'[n] \in Record
  BY DEF NodeTypeOK, InfoReady
<1>4. \A m \in Node : missed'[m] = IF Listed(m) THEN missed[m] \cup {n} ELSE missed[m]
  OBVIOUS
<1>5. InfoReady'
  BY DEF InfoReady, NodeTypeOK
<1>6. PublishedFirst'
  BY <1>2, <1>3, NodeConstants DEF PublishedFirst, Published, NodeTypeOK, Record
<1>7. NothingMissedBefore'
  BY <1>2, <1>4 DEF NothingMissedBefore
<1>8. ListDone'
  BY DEF ListDone, NodeTypeOK
<1>9. ListedDealt'
  BY <1>2, <1>3, <1>4 DEF ListedDealt, Dealt, Published
<1>10. NotBothMissed'
  BY <1>2, <1>4 DEF NotBothMissed
<1> QED
  BY <1>1, <1>5, <1>6, <1>7, <1>8, <1>9, <1>10

(* Every step of every controller, and of its surroundings, keeps the       *)
(* invariant.                                                               *)
LEMMA NextRouteInv == RouteInv /\ [NodeNext]_nodeVars => RouteInv'
<1> SUFFICES ASSUME RouteInv, [NodeNext]_nodeVars PROVE RouteInv'
  OBVIOUS
<1> USE DEF RouteInv
<1>1. ASSUME NEW n \in Node, Service(n) PROVE RouteInv'
  <2>1. NodeTypeOK'
    BY <1>1 DEF NodeTypeOK, Service, At
  <2>2. InfoReady' /\ PublishedFirst' /\ NothingMissedBefore' /\ ListDone'
    BY <1>1 DEF NodeTypeOK, Service, At, InfoReady, PublishedFirst, Published,
                NothingMissedBefore, ListDone, Listed
  <2>3. ListedDealt' /\ NotBothMissed'
    BY <1>1 DEF NodeTypeOK, Service, At, ListedDealt, Dealt, Published, NotBothMissed, Listed
  <2> QED
    BY <2>1, <2>2, <2>3
<1>2. ASSUME NEW n \in Node, GetNodeInfo(n) PROVE RouteInv'
  <2>1. NodeTypeOK'
    BY <1>2 DEF NodeTypeOK, GetNodeInfo, At, Record
  <2>2. InfoReady' /\ PublishedFirst' /\ NothingMissedBefore' /\ ListDone'
    BY <1>2 DEF NodeTypeOK, GetNodeInfo, At, InfoReady, PublishedFirst, Published,
                NothingMissedBefore, ListDone, Listed, Record
  <2>3. ListedDealt' /\ NotBothMissed'
    BY <1>2 DEF NodeTypeOK, GetNodeInfo, At, ListedDealt, Dealt, Published, NotBothMissed, Listed
  <2> QED
    BY <2>1, <2>2, <2>3
<1>3. ASSUME NEW n \in Node, UpdateNode(n) PROVE RouteInv'
  <2>1. NodeTypeOK'
    BY <1>3 DEF NodeTypeOK, UpdateNode, At
  <2>2. InfoReady' /\ PublishedFirst' /\ NothingMissedBefore' /\ ListDone'
    BY <1>3 DEF NodeTypeOK, UpdateNode, At, InfoReady, PublishedFirst, Published,
                NothingMissedBefore, ListDone, Listed
  <2>3. ListedDealt' /\ NotBothMissed'
    BY <1>3 DEF NodeTypeOK, UpdateNode, At, ListedDealt, Dealt, Published, NotBothMissed, Listed
  <2> QED
    BY <2>1, <2>2, <2>3
<1>4. ASSUME NEW n \in Node, Put(n) PROVE RouteInv'
  BY <1>4, PublishKeeps DEF Put
<1>5. ASSUME NEW n \in Node, InitNodeInfoFails(n) PROVE RouteInv'
  BY <1>5, PublishKeeps, EndedKeeps DEF InitNodeInfoFails
<1>6. ASSUME NEW n \in Node, List(n) PROVE RouteInv'
  <2> USE <1>6 DEF List, At
  <2>1. NodeTypeOK'
    BY DEF NodeTypeOK
  <2>2. \A m \in Node : m # n => (Listed(m)' <=> Listed(m)) /\ kvs'[m] = kvs[m]
    BY DEF NodeTypeOK, Listed
  <2>3. kvs'[n] = record /\ missed[n] = {} /\ Listed(n)'
    BY DEF NodeTypeOK, Listed, NothingMissedBefore
  <2>4. InfoReady' /\ PublishedFirst'
    BY DEF NodeTypeOK, InfoReady, PublishedFirst, Published, Listed
  <2>5. NothingMissedBefore'
    BY <2>2, <2>3 DEF NothingMissedBefore
  <2>6. ListDone'
    BY DEF NodeTypeOK, ListDone
  <2>7. ListedDealt'
    BY <2>2, <2>3 DEF ListedDealt, Dealt, Published
  <2>8. NotBothMissed'
    BY <2>2, <2>3 DEF NotBothMissed
  <2> QED
    BY <2>1, <2>4, <2>5, <2>6, <2>7, <2>8
<1>7. ASSUME NEW n \in Node, ListFails(n) PROVE RouteInv'
  <2>1. NodeTypeOK'
    BY <1>7 DEF NodeTypeOK, ListFails, At
  <2>2. InfoReady' /\ PublishedFirst' /\ NothingMissedBefore' /\ ListDone'
    BY <1>7 DEF NodeTypeOK, ListFails, At, InfoReady, PublishedFirst, Published,
                NothingMissedBefore, ListDone, Listed
  <2>3. ListedDealt' /\ NotBothMissed'
    BY <1>7 DEF NodeTypeOK, ListFails, At, ListedDealt, Dealt, Published, NotBothMissed, Listed
  <2> QED
    BY <2>1, <2>2, <2>3
<1>8. ASSUME NEW n \in Node, Watch(n) PROVE RouteInv'
  <2>1. NodeTypeOK'
    BY <1>8 DEF NodeTypeOK, Watch, At
  <2>2. InfoReady' /\ PublishedFirst' /\ NothingMissedBefore' /\ ListDone'
    BY <1>8 DEF NodeTypeOK, Watch, At, InfoReady, PublishedFirst, Published,
                NothingMissedBefore, ListDone, Listed
  <2>3. ListedDealt' /\ NotBothMissed'
    BY <1>8 DEF NodeTypeOK, Watch, At, ListedDealt, Dealt, Published, NotBothMissed, Listed
  <2> QED
    BY <2>1, <2>2, <2>3
<1>9. ASSUME NEW n \in Node, NEW m \in Node, SyncNodeRoute(n, m) PROVE RouteInv'
  <2> USE <1>9 DEF SyncNodeRoute, Done
  <2>1. kvs[n][m] \in Record /\ kvs[n][m].ip \in PublicIP
    BY DEF NodeTypeOK, Record
  <2>2. NodeTypeOK'
    <3>1. (route \in [Node -> [Node -> PublicIP \cup {NoIP}]])'
      <4>1. [route EXCEPT ![n][m] = kvs[n][m].ip] \in [Node -> [Node -> PublicIP \cup {NoIP}]]
        BY <2>1 DEF NodeTypeOK
      <4> QED
        BY <4>1 DEF NodeTypeOK
    <3>2. (kvs \in [Node -> [Node -> Record \cup {NoRecord}]])'
      BY DEF NodeTypeOK
    <3> QED
      BY <3>1, <3>2 DEF NodeTypeOK
  <2>3. InfoReady' /\ PublishedFirst' /\ NothingMissedBefore' /\ NotBothMissed'
    BY DEF InfoReady, PublishedFirst, Published, NothingMissedBefore, NotBothMissed, Listed
  <2>4. ListDone'
    BY DEF NodeTypeOK, ListDone
  <2>5. ASSUME NEW i \in Node, NEW j \in Node, i # j, Listed(i)', Published(j)', j \notin missed'[i]
        PROVE  Dealt(i, j)'
    <3>1. Listed(i) /\ Published(j) /\ Dealt(i, j) /\ record' = record
      BY <2>5 DEF ListedDealt, Listed, Published
    <3>2. CASE i = n /\ j = m
      <4>1. record[m] \in Record /\ record[m].ip # NoIP
        BY <3>1, <3>2, NodeConstants DEF NodeTypeOK, Published, Record
      <4>2. route'[n][m] = kvs[n][m].ip /\ route[n][m] = NoIP
        BY <2>5, <3>2 DEF NodeTypeOK
      <4> QED
        BY <3>1, <3>2, <4>1, <4>2 DEF Dealt
    <3>3. CASE ~(i = n /\ j = m)
      <4>1. kvs'[i][j] = kvs[i][j] /\ route'[i][j] = route[i][j]
        BY <3>3 DEF NodeTypeOK
      <4> QED
        BY <3>1, <4>1 DEF Dealt
    <3> QED
      BY <3>2, <3>3
  <2>6. ListedDealt'
    BY <2>5 DEF ListedDealt
  <2> QED
    BY <2>2, <2>3, <2>4, <2>6
<1>10. ASSUME NEW n \in Node, NEW m \in Node, SyncNodeRouteFails(n, m) PROVE RouteInv'
  <2> USE <1>10 DEF SyncNodeRouteFails, Done
  <2>1. NodeTypeOK'
    BY DEF NodeTypeOK
  <2>2. InfoReady' /\ PublishedFirst' /\ NothingMissedBefore' /\ NotBothMissed'
    BY DEF InfoReady, PublishedFirst, Published, NothingMissedBefore, NotBothMissed, Listed
  <2>3. ListDone'
    BY DEF NodeTypeOK, ListDone
  <2>4. ASSUME NEW i \in Node, NEW j \in Node, i # j, Listed(i)', Published(j)', j \notin missed'[i]
        PROVE  Dealt(i, j)'
    <3>1. Dealt(i, j)
      BY <2>4 DEF ListedDealt, Listed, Published
    <3>2. CASE i = n /\ j = m
      BY <3>2 DEF Dealt, NodeTypeOK
    <3>3. CASE ~(i = n /\ j = m)
      BY <3>1, <3>3 DEF Dealt, NodeTypeOK
    <3> QED
      BY <3>2, <3>3
  <2>5. ListedDealt'
    BY <2>4 DEF ListedDealt
  <2> QED
    BY <2>1, <2>2, <2>3, <2>5
<1>11. ASSUME NEW n \in Node, KillController(n) PROVE RouteInv'
  BY <1>11, EndedKeeps DEF KillController
<1>12. ASSUME NEW n \in Node, Reboot(n) PROVE RouteInv'
  BY <1>12, EndedKeeps DEF Reboot
<1>13. ASSUME NEW n \in Node, NodeChanges(n) PROVE RouteInv'
  <2>1. NodeTypeOK'
    BY <1>13 DEF NodeTypeOK, NodeChanges
  <2>2. InfoReady' /\ PublishedFirst' /\ NothingMissedBefore' /\ ListDone'
    BY <1>13 DEF NodeChanges, InfoReady, PublishedFirst, Published,
                 NothingMissedBefore, ListDone, Listed
  <2>3. ListedDealt' /\ NotBothMissed'
    BY <1>13 DEF NodeChanges, ListedDealt, Dealt, Published, NotBothMissed, Listed
  <2> QED
    BY <2>1, <2>2, <2>3
<1>14. CASE UNCHANGED nodeVars
  BY <1>14 DEF nodeVars, NodeTypeOK, InfoReady, PublishedFirst, Published, NothingMissedBefore,
               ListDone, ListedDealt, Dealt, NotBothMissed, Listed
<1> QED
  BY <1>1, <1>2, <1>3, <1>4, <1>5, <1>6, <1>7, <1>8, <1>9, <1>10, <1>11, <1>12, <1>13, <1>14
     DEF NodeNext

THEOREM RouteInvariant == NodeSpec => []RouteInv
BY InitRouteInv, NextRouteInv, PTL DEF NodeSpec

(***************************************************************************)
(* For any nodes and addresses: every record and every route is one that   *)
(* some controller gathered (NodeNetInfo), whoever was killed when.        *)
(***************************************************************************)
THEOREM NodeTypesHold == NodeSpec => []NodeTypeOK
BY RouteInvariant, PTL DEF RouteInv

(***************************************************************************)
(* For any nodes and addresses: a controller that watches has the routes   *)
(* of the records it listed, or has logged that it has not (SyncRoute,     *)
(* controller.go:85-94).                                                   *)
(***************************************************************************)
THEOREM RoutesFollowTheList == NodeSpec => []RoutedOrLogged
<1>1. RouteInv => RoutedOrLogged
  BY DEF RouteInv, ListDone, ListedDealt, Dealt, RoutedOrLogged, Listed, Published
<1> QED
  BY <1>1, RouteInvariant, PTL

(***************************************************************************)
(* For any nodes and addresses: of two nodes that watch at least one has   *)
(* dealt with the other, although the watch delivers nothing               *)
(* (InitNodeInfo before SyncRoute, controller.go:30-34).                   *)
(***************************************************************************)
THEOREM OneHasDealt == NodeSpec => []OneWay
<1>1. RouteInv => OneWay
  BY DEF RouteInv, PublishedFirst, ListDone, ListedDealt, Dealt, NotBothMissed, OneWay, Listed,
         Published
<1> QED
  BY <1>1, RouteInvariant, PTL
=============================================================================
